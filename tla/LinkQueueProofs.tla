--------------------------- MODULE LinkQueueProofs ---------------------------
(***************************************************************************)
(* Proofs about LinkQueue, for every set of functions, tasks and prelink   *)
(* jobs, every size of their AIR and every cap: the variables keep their   *)
(* types, the wait group is exact, there is one link thread, the asserts   *)
(* hold, a link thread that stopped for a MIR is always restarted, no MIR  *)
(* is touched before it is written or after it is freed, the queue         *)
(* implements LinkPipeline, what flush asserts holds, and while memory     *)
(* lasts the AIR in flight is counted exactly and capped.                  *)
(*                                                                         *)
(* The proof that a step preserves an invariant has a step for each action *)
(* that changes what the invariant speaks of; the last steps say that the  *)
(* other actions leave it alone.                                           *)
(***************************************************************************)
EXTENDS LinkQueue, FiniteSetTheorems, SequenceTheorems, TLAPS

LEMMA TaskFacts == LinkFuncs \subseteq Tasks /\ OtherTasks \subseteq Tasks
BY DEF Tasks

LEMMA AirFacts == \A f \in LinkFuncs : AirBytes[f] \in Nat /\ AirBytes[f] > 0
BY ConstantsAssumption DEF ConstantsAssumption

LEMMA TypeInit == Init => TypeOK
<1> SUFFICES ASSUME Init PROVE TypeOK
  OBVIOUS
<1>1. <<CmdLine>> \in Seq(PrelinkItems \cup {CmdLine})
  <2>1. <<CmdLine>> = Append(<<>>, CmdLine)
    OBVIOUS
  <2> QED
    BY <2>1
<1>2. PrelinkType
  <2>1. queued_prelink \in Seq(PrelinkItems \cup {CmdLine})
    <3>1. CASE queued_prelink = <<>>
      BY <3>1
    <3>2. CASE queued_prelink = <<CmdLine>>
      BY <1>1, <3>2, Zenon
    <3> QED
      BY <3>1, <3>2 DEF Init
  <2>2. prelink_wait_count = 0 /\ wip_prelink = <<>>
    BY DEF Init
  <2> QED
    BY <2>1, <2>2 DEF PrelinkType
<1>3. ZcuType
  BY DEF Init, ZcuType
<1>4. AirType
  <2>1. air_bytes_in_flight \in Int /\ air_bytes_waiting \in Nat
    BY DEF Init
  <2>2. air_signaled \in BOOLEAN
    BY DEF Init
  <2> QED
    BY <2>1, <2>2 DEF AirType
<1>5. RunType
  BY DEF Init, RunType
<1>6. MainType
  BY DEF Init, MainType
<1>7. LinkType
  BY DEF Init, LinkType, LinkPcs, ZcuPcs, TaskPcs
<1>8. WorkerType
  BY DEF Init, WorkerType
<1> QED
  BY <1>2, <1>3, <1>4, <1>5, <1>6, <1>7, <1>8 DEF TypeOK

LEMMA PrelinkTypeNext == TypeOK /\ [Next]_vars => PrelinkType'
<1> SUFFICES ASSUME TypeOK, [Next]_vars PROVE PrelinkType'
  OBVIOUS
<1> USE DEF TypeOK, PrelinkType
<1>1. ASSUME Start PROVE PrelinkType'
  BY <1>1 DEF Start, SetRunning, preVars
<1>2. ASSUME FinishItems PROVE PrelinkType'
  BY <1>2 DEF FinishItems, FinishPrelinkItem, SetRunning, preVars
<1>3. ASSUME NEW p \in PrelinkItems, StartPrelinkItem(p) PROVE PrelinkType'
  BY <1>3 DEF StartPrelinkItem, preVars
<1>4. ASSUME NEW p \in PrelinkItems, EnqueuePrelink(p) PROVE PrelinkType'
  BY <1>4 DEF EnqueuePrelink, SetRunning, preVars
<1>5. ASSUME NEW p \in PrelinkItems, ItemFinish(p) PROVE PrelinkType'
  BY <1>5 DEF ItemFinish, FinishPrelinkItem, SetRunning, preVars
<1>6. ASSUME PrelinkSwap PROVE PrelinkType'
  BY <1>6 DEF PrelinkSwap, LinkReturn, preVars
<1>7. ASSUME PrelinkRun PROVE PrelinkType'
  BY <1>7 DEF PrelinkRun, preVars
<1>8. CASE UNCHANGED <<preVars>>
  BY <1>8 DEF preVars
<1>9. GiveUp \/ Dispatch \/ CodegenFunc \/ EnqueueZcu \/ AirWake \/ DeinitTask
      \/ MainSpawn \/ EndWork \/ Wait => UNCHANGED <<preVars>>
  BY DEF GiveUp, Dispatch, DispatchOther, CodegenFunc, DispatchFunc,
    EnqueueZcu, EnqueueSection, SleepForAir, AppendZcu, AppendFails, MustWait,
    CountAir, Restarts, SetRunning, IsPending, AirWake, DeinitTask, MainSpawn,
    SpawnFlush, EndWork, Wait, preVars, zcuVars, airVars, runVars, poolVars,
    linkVars, mainVars
<1>10. Flush \/ (\E p \in PrelinkItems : NoPrelinkOutput(p)) \/
      (\E p \in PrelinkItems : ItemSpawn(p)) \/
      (\E p \in PrelinkItems : ItemExit(p)) \/
      (\E f \in LinkFuncs : CodegenStore(f)) \/
      (\E f \in LinkFuncs : MirReady(f)) \/
      (\E f \in LinkFuncs : CodegenSpawn(f)) \/
      (\E f \in LinkFuncs : CodegenExit(f)) \/ FlushStart => UNCHANGED
      <<preVars>>
  BY DEF Flush, NoPrelinkOutput, ItemSpawn, SpawnFlush, ItemExit,
    CodegenStore, MirReady, SetRunning, CodegenSpawn, CodegenExit, FlushStart,
    preVars, zcuVars, airVars, runVars, poolVars, linkVars, mainVars
<1>11. PrelinkCall \/ ZcuSwap \/ ZcuTask \/ ZcuLock \/ ZcuRun \/ ZcuDec \/
      (\E more \in BOOLEAN : DoIdleTask(more)) => UNCHANGED <<preVars>>
  BY DEF PrelinkCall, NextZcu, ZcuSwap, LinkReturn, ZcuTask, IsPending,
    ZcuLock, ZcuRun, Advance, ZcuDec, SignalsAir, DoIdleTask, preVars,
    zcuVars, airVars, runVars, poolVars, linkVars, mainVars
<1>12. UNCHANGED vars => UNCHANGED <<preVars>>
  BY DEF vars, preVars, zcuVars, airVars, runVars, poolVars, linkVars, mainVars
<1>13. QED
  BY <1>1, <1>2, <1>3, <1>4, <1>5, <1>6, <1>7, <1>8, <1>9, <1>10, <1>11, <1>12
  DEF Next, MainNext, ItemNext, CodegenNext, LinkNext

LEMMA ZcuTypeNext == TypeOK /\ [Next]_vars => ZcuType'
<1> SUFFICES ASSUME TypeOK, [Next]_vars PROVE ZcuType'
  OBVIOUS
<1> USE TaskFacts DEF TypeOK, ZcuType
<1>1. ASSUME Start PROVE ZcuType'
  BY <1>1 DEF Start, SetRunning, zcuVars
<1>2. ASSUME EnqueueZcu \/ AirWake PROVE ZcuType'
  <2>1. cur \in Tasks
    BY <1>2 DEF EnqueueZcu, AirWake, MainType
  <2>2. CASE AppendZcu(cur)
    BY <2>1, <2>2 DEF AppendZcu
  <2>3. CASE ~AppendZcu(cur)
    BY <1>2, <2>3 DEF EnqueueZcu, AirWake, EnqueueSection, SleepForAir, AppendZcu,
       AppendFails, zcuVars
  <2> QED
    BY <2>2, <2>3
<1>3. ASSUME ZcuSwap PROVE ZcuType'
  BY <1>3 DEF ZcuSwap, LinkReturn, zcuVars
<1>4. ASSUME ZcuRun PROVE ZcuType'
  <2>1. wip_zcu_idx < Len(wip_zcu) /\ WipTask \in Tasks
    BY <1>4 DEF ZcuRun, LinkType, TaskPcs, WipTask
  <2>2. linked' \in Seq(Tasks)
    BY <1>4, <2>1 DEF ZcuRun
  <2>3. wip_zcu_idx' \in 0 .. Len(wip_zcu)
    BY <1>4, <2>1 DEF ZcuRun, Advance
  <2> QED
    BY <1>4, <2>2, <2>3 DEF ZcuRun
<1>5. ASSUME ZcuDec PROVE ZcuType'
  <2>1. wip_zcu_idx < Len(wip_zcu)
    BY <1>5 DEF ZcuDec, LinkType, TaskPcs
  <2> QED
    BY <1>5, <2>1 DEF ZcuDec, Advance
<1>6. CASE UNCHANGED <<zcuVars>>
  BY <1>6 DEF zcuVars
<1>7. FinishItems \/ GiveUp \/ Dispatch \/ CodegenFunc \/ DeinitTask \/
      MainSpawn \/ EndWork \/ Wait \/ Flush => UNCHANGED <<zcuVars>>
  BY DEF FinishItems, FinishPrelinkItem, SetRunning, GiveUp, Dispatch,
    DispatchOther, CodegenFunc, DispatchFunc, DeinitTask, IsPending,
    MainSpawn, SpawnFlush, EndWork, Wait, Flush, preVars, zcuVars, airVars,
    runVars, poolVars, linkVars, mainVars
<1>8. (\E p \in PrelinkItems : StartPrelinkItem(p)) \/
      (\E p \in PrelinkItems : EnqueuePrelink(p)) \/
      (\E p \in PrelinkItems : NoPrelinkOutput(p)) \/
      (\E p \in PrelinkItems : ItemSpawn(p)) \/
      (\E p \in PrelinkItems : ItemFinish(p)) \/
      (\E p \in PrelinkItems : ItemExit(p)) \/
      (\E f \in LinkFuncs : CodegenStore(f)) \/
      (\E f \in LinkFuncs : MirReady(f)) \/
      (\E f \in LinkFuncs : CodegenSpawn(f)) => UNCHANGED <<zcuVars>>
  BY DEF StartPrelinkItem, EnqueuePrelink, SetRunning, NoPrelinkOutput,
    ItemSpawn, SpawnFlush, ItemFinish, FinishPrelinkItem, ItemExit,
    CodegenStore, MirReady, CodegenSpawn, preVars, zcuVars, airVars, runVars,
    poolVars, linkVars, mainVars
<1>9. (\E f \in LinkFuncs : CodegenExit(f)) \/ FlushStart \/ PrelinkSwap \/
      PrelinkRun \/ PrelinkCall \/ ZcuTask \/ ZcuLock \/
      (\E more \in BOOLEAN : DoIdleTask(more)) => UNCHANGED <<zcuVars>>
  BY DEF CodegenExit, FlushStart, PrelinkSwap, LinkReturn, PrelinkRun,
    PrelinkCall, NextZcu, ZcuTask, IsPending, ZcuLock, DoIdleTask, preVars,
    zcuVars, airVars, runVars, poolVars, linkVars, mainVars
<1>10. UNCHANGED vars => UNCHANGED <<zcuVars>>
  BY DEF vars, preVars, zcuVars, airVars, runVars, poolVars, linkVars, mainVars
<1>11. QED
  BY <1>1, <1>2, <1>3, <1>4, <1>5, <1>6, <1>7, <1>8, <1>9, <1>10
  DEF Next, MainNext, ItemNext, CodegenNext, LinkNext

LEMMA AirTypeNext == TypeOK /\ [Next]_vars => AirType'
<1> SUFFICES ASSUME TypeOK, [Next]_vars PROVE AirType'
  OBVIOUS
<1> USE AirFacts DEF TypeOK, AirType
<1>1. ASSUME EnqueueZcu \/ AirWake PROVE AirType'
  <2>1. air_bytes_in_flight' \in Int
    BY <1>1 DEF EnqueueZcu, AirWake, EnqueueSection, SleepForAir, AppendZcu,
       AppendFails, CountAir
  <2>2. air_bytes_waiting' \in Nat
    BY <1>1 DEF EnqueueZcu, AirWake, EnqueueSection, SleepForAir, AppendZcu,
       AppendFails, MustWait
  <2>3. air_signaled' \in BOOLEAN
    BY <1>1 DEF EnqueueZcu, AirWake, EnqueueSection, SleepForAir, AppendZcu, AppendFails
  <2> QED
    BY <2>1, <2>2, <2>3
<1>2. ASSUME ZcuDec PROVE AirType'
  <2>1. WipTask \in LinkFuncs
    BY <1>2 DEF ZcuDec, LinkType
  <2>2. air_bytes_in_flight' \in Int
    BY <1>2, <2>1 DEF ZcuDec
  <2>3. air_bytes_waiting' \in Nat /\ air_signaled' \in BOOLEAN
    BY <1>2 DEF ZcuDec
  <2> QED
    BY <2>2, <2>3
<1>3. CASE UNCHANGED <<airVars>>
  BY <1>3 DEF airVars
<1>4. Start \/ FinishItems \/ GiveUp \/ Dispatch \/ CodegenFunc \/ DeinitTask
      \/ MainSpawn \/ EndWork \/ Wait => UNCHANGED <<airVars>>
  BY DEF Start, SetRunning, FinishItems, FinishPrelinkItem, GiveUp, Dispatch,
    DispatchOther, CodegenFunc, DispatchFunc, DeinitTask, IsPending,
    MainSpawn, SpawnFlush, EndWork, Wait, preVars, zcuVars, airVars, runVars,
    poolVars, linkVars, mainVars
<1>5. Flush \/ (\E p \in PrelinkItems : StartPrelinkItem(p)) \/
      (\E p \in PrelinkItems : EnqueuePrelink(p)) \/
      (\E p \in PrelinkItems : NoPrelinkOutput(p)) \/
      (\E p \in PrelinkItems : ItemSpawn(p)) \/
      (\E p \in PrelinkItems : ItemFinish(p)) \/
      (\E p \in PrelinkItems : ItemExit(p)) \/
      (\E f \in LinkFuncs : CodegenStore(f)) \/
      (\E f \in LinkFuncs : MirReady(f)) => UNCHANGED <<airVars>>
  BY DEF Flush, StartPrelinkItem, EnqueuePrelink, SetRunning, NoPrelinkOutput,
    ItemSpawn, SpawnFlush, ItemFinish, FinishPrelinkItem, ItemExit,
    CodegenStore, MirReady, preVars, zcuVars, airVars, runVars, poolVars,
    linkVars, mainVars
<1>6. (\E f \in LinkFuncs : CodegenSpawn(f)) \/
      (\E f \in LinkFuncs : CodegenExit(f)) \/ FlushStart \/ PrelinkSwap \/
      PrelinkRun \/ PrelinkCall \/ ZcuSwap \/ ZcuTask \/ ZcuLock => UNCHANGED
      <<airVars>>
  BY DEF CodegenSpawn, SpawnFlush, CodegenExit, FlushStart, PrelinkSwap,
    LinkReturn, PrelinkRun, PrelinkCall, NextZcu, ZcuSwap, ZcuTask, IsPending,
    ZcuLock, preVars, zcuVars, airVars, runVars, poolVars, linkVars, mainVars
<1>7. ZcuRun \/ (\E more \in BOOLEAN : DoIdleTask(more)) => UNCHANGED
      <<airVars>>
  BY DEF ZcuRun, Advance, NextZcu, DoIdleTask, preVars, zcuVars, airVars,
    runVars, poolVars, linkVars, mainVars
<1>8. UNCHANGED vars => UNCHANGED <<airVars>>
  BY DEF vars, preVars, zcuVars, airVars, runVars, poolVars, linkVars, mainVars
<1>9. QED
  BY <1>1, <1>2, <1>3, <1>4, <1>5, <1>6, <1>7, <1>8
  DEF Next, MainNext, ItemNext, CodegenNext, LinkNext

LEMMA RunTypeNext == TypeOK /\ [Next]_vars => RunType'
<1> SUFFICES ASSUME TypeOK, [Next]_vars PROVE RunType'
  OBVIOUS
<1> USE TaskFacts DEF TypeOK, RunType
<1>1. ASSUME Start PROVE RunType'
  BY <1>1 DEF Start, SetRunning, runVars, poolVars
<1>2. ASSUME FinishItems PROVE RunType'
  BY <1>2 DEF FinishItems, FinishPrelinkItem, SetRunning, runVars, poolVars
<1>3. ASSUME CodegenFunc PROVE RunType'
  BY <1>3 DEF CodegenFunc, DispatchFunc, runVars, poolVars
<1>4. ASSUME EnqueueZcu \/ AirWake PROVE RunType'
  <2>1. cur \in Tasks
    BY <1>4 DEF EnqueueZcu, AirWake, MainType
  <2> QED
    BY <1>4, <2>1 DEF EnqueueZcu, AirWake, EnqueueSection, SleepForAir, AppendZcu,
       AppendFails, SetRunning, runVars, poolVars
<1>5. ASSUME MainSpawn PROVE RunType'
  BY <1>5 DEF MainSpawn, SpawnFlush, runVars, poolVars
<1>6. ASSUME NEW p \in PrelinkItems, StartPrelinkItem(p) PROVE RunType'
  BY <1>6 DEF StartPrelinkItem, runVars, poolVars
<1>7. ASSUME NEW p \in PrelinkItems, EnqueuePrelink(p) PROVE RunType'
  BY <1>7 DEF EnqueuePrelink, SetRunning, runVars, poolVars
<1>8. ASSUME NEW p \in PrelinkItems, ItemSpawn(p) PROVE RunType'
  BY <1>8 DEF ItemSpawn, SpawnFlush, runVars, poolVars
<1>9. ASSUME NEW p \in PrelinkItems, ItemFinish(p) PROVE RunType'
  BY <1>9 DEF ItemFinish, FinishPrelinkItem, SetRunning, runVars, poolVars
<1>10. ASSUME NEW p \in PrelinkItems, ItemExit(p) PROVE RunType'
  BY <1>10 DEF ItemExit, runVars, poolVars
<1>11. ASSUME NEW f \in LinkFuncs, MirReady(f) PROVE RunType'
  BY <1>11 DEF MirReady, SetRunning, runVars, poolVars
<1>12. ASSUME NEW f \in LinkFuncs, CodegenSpawn(f) PROVE RunType'
  BY <1>12 DEF CodegenSpawn, SpawnFlush, runVars, poolVars
<1>13. ASSUME NEW f \in LinkFuncs, CodegenExit(f) PROVE RunType'
  BY <1>13 DEF CodegenExit, runVars, poolVars
<1>14. ASSUME FlushStart PROVE RunType'
  BY <1>14 DEF FlushStart, runVars, poolVars
<1>15. ASSUME PrelinkSwap PROVE RunType'
  BY <1>15 DEF PrelinkSwap, LinkReturn, runVars, poolVars
<1>16. ASSUME ZcuSwap PROVE RunType'
  BY <1>16 DEF ZcuSwap, LinkReturn, runVars, poolVars
<1>17. ASSUME ZcuLock PROVE RunType'
  BY <1>17 DEF ZcuLock, LinkReturn, IsPending, runVars
<1>18. CASE UNCHANGED <<runVars, poolVars>>
  BY <1>18 DEF runVars, poolVars
<1>19. GiveUp \/ Dispatch \/ DeinitTask \/ EndWork \/ Wait \/ Flush \/
      (\E p \in PrelinkItems : NoPrelinkOutput(p)) \/
      (\E f \in LinkFuncs : CodegenStore(f)) \/ PrelinkRun => UNCHANGED
      <<runVars, poolVars>>
  BY DEF GiveUp, Dispatch, DispatchOther, DeinitTask, IsPending, EndWork,
    Wait, Flush, NoPrelinkOutput, CodegenStore, PrelinkRun, preVars, zcuVars,
    airVars, runVars, poolVars, linkVars, mainVars
<1>20. PrelinkCall \/ ZcuTask \/ ZcuRun \/ ZcuDec \/
      (\E more \in BOOLEAN : DoIdleTask(more)) => UNCHANGED <<runVars,
      poolVars>>
  BY DEF PrelinkCall, NextZcu, ZcuTask, IsPending, ZcuRun, Advance, ZcuDec,
    SignalsAir, DoIdleTask, preVars, zcuVars, airVars, runVars, poolVars,
    linkVars, mainVars
<1>21. UNCHANGED vars => UNCHANGED <<runVars, poolVars>>
  BY DEF vars, preVars, zcuVars, airVars, runVars, poolVars, linkVars, mainVars
<1>22. QED
  BY <1>1, <1>2, <1>3, <1>4, <1>5, <1>6, <1>7, <1>8, <1>9, <1>10, <1>11,
    <1>12, <1>13, <1>14, <1>15, <1>16, <1>17, <1>18, <1>19, <1>20, <1>21
  DEF Next, MainNext, ItemNext, CodegenNext, LinkNext

LEMMA LinkTypeNext == TypeOK /\ [Next]_vars => LinkType'
<1> SUFFICES ASSUME TypeOK, [Next]_vars PROVE LinkType'
  OBVIOUS
<1> USE TaskFacts DEF TypeOK, LinkType, LinkPcs, ZcuPcs, TaskPcs, ZcuType, WipTask
<1>1. ASSUME FlushStart PROVE LinkType'
  BY <1>1 DEF FlushStart, linkVars
<1>2. ASSUME PrelinkSwap PROVE LinkType'
  BY <1>2 DEF PrelinkSwap, LinkReturn, linkVars
<1>3. ASSUME PrelinkRun PROVE LinkType'
  BY <1>3 DEF PrelinkRun, linkVars
<1>4. ASSUME PrelinkCall PROVE LinkType'
  <2>1. post_prelink' \in BOOLEAN
    BY <1>4 DEF PrelinkCall
  <2>2. lpc' \in {"zcu_swap", "zcu_task"}
    BY <1>4 DEF PrelinkCall, NextZcu
  <2>3. lpc' = "zcu_task" => wip_zcu_idx < Len(wip_zcu)
    BY <1>4 DEF PrelinkCall, NextZcu
  <2> QED
    BY <1>4, <2>1, <2>2, <2>3 DEF PrelinkCall, zcuVars
<1>5. ASSUME ZcuSwap PROVE LinkType'
  BY <1>5 DEF ZcuSwap, LinkReturn, linkVars
<1>6. ASSUME ZcuTask PROVE LinkType'
  <2>1. /\ lpc' \in {"zcu_task", "zcu_lock", "zcu_run"} /\ have_idle_tasks' \in BOOLEAN
        /\ wip_zcu_idx < Len(wip_zcu) /\ UNCHANGED <<post_prelink, zcuVars>>
    BY <1>6 DEF ZcuTask
  <2> QED
    BY <2>1 DEF zcuVars
<1>7. ASSUME ZcuLock PROVE LinkType'
  <2>1. /\ lpc' \in {"idle", "zcu_run"} /\ wip_zcu_idx < Len(wip_zcu)
        /\ UNCHANGED <<have_idle_tasks, post_prelink, zcuVars>>
    BY <1>7 DEF ZcuLock, LinkReturn
  <2> QED
    BY <2>1 DEF zcuVars
<1>8. ASSUME ZcuRun PROVE LinkType'
  <2>1. wip_zcu_idx < Len(wip_zcu) /\ UNCHANGED <<wip_zcu, post_prelink>>
    BY <1>8 DEF ZcuRun
  <2>2. CASE WipTask \in LinkFuncs
    BY <1>8, <2>1, <2>2 DEF ZcuRun
  <2>3. CASE WipTask \notin LinkFuncs
    BY <1>8, <2>1, <2>3 DEF ZcuRun, Advance, NextZcu
  <2> QED
    BY <2>2, <2>3
<1>9. ASSUME ZcuDec PROVE LinkType'
  BY <1>9 DEF ZcuDec, Advance, NextZcu, SignalsAir, linkVars
<1>10. ASSUME NEW more \in BOOLEAN, DoIdleTask(more) PROVE LinkType'
  BY <1>10 DEF DoIdleTask, linkVars
<1>11. CASE UNCHANGED <<linkVars, wip_zcu, wip_zcu_idx>>
  BY <1>11 DEF linkVars
<1>12. Start \/ FinishItems \/ GiveUp \/ Dispatch \/ CodegenFunc \/ EnqueueZcu
      \/ AirWake \/ DeinitTask \/ MainSpawn => UNCHANGED <<linkVars, wip_zcu,
      wip_zcu_idx>>
  BY DEF Start, SetRunning, FinishItems, FinishPrelinkItem, GiveUp, Dispatch,
    DispatchOther, CodegenFunc, DispatchFunc, EnqueueZcu, EnqueueSection,
    SleepForAir, AppendZcu, AppendFails, MustWait, CountAir, Restarts,
    IsPending, AirWake, DeinitTask, MainSpawn, SpawnFlush, preVars, zcuVars,
    airVars, runVars, poolVars, linkVars, mainVars
<1>13. EndWork \/ Wait \/ Flush \/
      (\E p \in PrelinkItems : StartPrelinkItem(p)) \/
      (\E p \in PrelinkItems : EnqueuePrelink(p)) \/
      (\E p \in PrelinkItems : NoPrelinkOutput(p)) \/
      (\E p \in PrelinkItems : ItemSpawn(p)) \/
      (\E p \in PrelinkItems : ItemFinish(p)) \/
      (\E p \in PrelinkItems : ItemExit(p)) => UNCHANGED <<linkVars, wip_zcu,
      wip_zcu_idx>>
  BY DEF EndWork, Wait, Flush, StartPrelinkItem, EnqueuePrelink, SetRunning,
    NoPrelinkOutput, ItemSpawn, SpawnFlush, ItemFinish, FinishPrelinkItem,
    ItemExit, preVars, zcuVars, airVars, runVars, poolVars, linkVars, mainVars
<1>14. (\E f \in LinkFuncs : CodegenStore(f)) \/
      (\E f \in LinkFuncs : MirReady(f)) \/
      (\E f \in LinkFuncs : CodegenSpawn(f)) \/
      (\E f \in LinkFuncs : CodegenExit(f)) => UNCHANGED <<linkVars, wip_zcu,
      wip_zcu_idx>>
  BY DEF CodegenStore, MirReady, SetRunning, CodegenSpawn, SpawnFlush,
    CodegenExit, preVars, zcuVars, airVars, runVars, poolVars, linkVars,
    mainVars
<1>15. UNCHANGED vars => UNCHANGED <<linkVars, wip_zcu, wip_zcu_idx>>
  BY DEF vars, preVars, zcuVars, airVars, runVars, poolVars, linkVars, mainVars
<1>16. QED
  BY <1>1, <1>2, <1>3, <1>4, <1>5, <1>6, <1>7, <1>8, <1>9, <1>10, <1>11,
    <1>12, <1>13, <1>14, <1>15
  DEF Next, MainNext, ItemNext, CodegenNext, LinkNext

LEMMA MainTypeNext == TypeOK /\ [Next]_vars => MainType'
<1> SUFFICES ASSUME TypeOK, [Next]_vars PROVE MainType'
  OBVIOUS
<1> USE TaskFacts DEF TypeOK, MainType
<1>1. ASSUME Start PROVE MainType'
  BY <1>1 DEF Start, SetRunning, mainVars
<1>2. ASSUME FinishItems PROVE MainType'
  BY <1>2 DEF FinishItems, FinishPrelinkItem, SetRunning, mainVars
<1>3. ASSUME GiveUp PROVE MainType'
  BY <1>3 DEF GiveUp, mainVars
<1>4. ASSUME Dispatch PROVE MainType'
  BY <1>4 DEF Dispatch, DispatchOther, mainVars
<1>5. ASSUME CodegenFunc PROVE MainType'
  BY <1>5 DEF CodegenFunc, DispatchFunc, mainVars
<1>6. ASSUME EnqueueZcu \/ AirWake PROVE MainType'
  BY <1>6 DEF EnqueueZcu, EnqueueSection, SleepForAir, AppendZcu, AppendFails,
    MustWait, CountAir, Restarts, SetRunning, IsPending, AirWake, mainVars
<1>7. ASSUME DeinitTask PROVE MainType'
  BY <1>7 DEF DeinitTask, IsPending, mainVars
<1>8. ASSUME MainSpawn PROVE MainType'
  BY <1>8 DEF MainSpawn, SpawnFlush, mainVars
<1>9. ASSUME EndWork PROVE MainType'
  BY <1>9 DEF EndWork, mainVars
<1>10. ASSUME Wait PROVE MainType'
  BY <1>10 DEF Wait, mainVars
<1>11. ASSUME Flush PROVE MainType'
  BY <1>11 DEF Flush, mainVars
<1>12. ASSUME NEW p \in PrelinkItems, NoPrelinkOutput(p) PROVE MainType'
  BY <1>12 DEF NoPrelinkOutput, mainVars
<1>13. ASSUME PrelinkCall PROVE MainType'
  BY <1>13 DEF PrelinkCall, NextZcu, mainVars
<1>14. CASE UNCHANGED <<mainVars, failed>>
  BY <1>14 DEF mainVars
<1>15. (\E p \in PrelinkItems : StartPrelinkItem(p)) \/
      (\E p \in PrelinkItems : EnqueuePrelink(p)) \/
      (\E p \in PrelinkItems : ItemSpawn(p)) \/
      (\E p \in PrelinkItems : ItemFinish(p)) \/
      (\E p \in PrelinkItems : ItemExit(p)) \/
      (\E f \in LinkFuncs : CodegenStore(f)) \/
      (\E f \in LinkFuncs : MirReady(f)) \/
      (\E f \in LinkFuncs : CodegenSpawn(f)) \/
      (\E f \in LinkFuncs : CodegenExit(f)) => UNCHANGED <<mainVars, failed>>
  BY DEF StartPrelinkItem, EnqueuePrelink, SetRunning, ItemSpawn, SpawnFlush,
    ItemFinish, FinishPrelinkItem, ItemExit, CodegenStore, MirReady,
    CodegenSpawn, CodegenExit, preVars, zcuVars, airVars, runVars, poolVars,
    linkVars, mainVars
<1>16. FlushStart \/ PrelinkSwap \/ PrelinkRun \/ ZcuSwap \/ ZcuTask \/
      ZcuLock \/ ZcuRun \/ ZcuDec \/ (\E more \in BOOLEAN : DoIdleTask(more))
      => UNCHANGED <<mainVars, failed>>
  BY DEF FlushStart, PrelinkSwap, LinkReturn, PrelinkRun, ZcuSwap, ZcuTask,
    IsPending, ZcuLock, ZcuRun, Advance, NextZcu, ZcuDec, SignalsAir,
    DoIdleTask, preVars, zcuVars, airVars, runVars, poolVars, linkVars,
    mainVars
<1>17. UNCHANGED vars => UNCHANGED <<mainVars, failed>>
  BY DEF vars, preVars, zcuVars, airVars, runVars, poolVars, linkVars, mainVars
<1>18. QED
  BY <1>1, <1>2, <1>3, <1>4, <1>5, <1>6, <1>7, <1>8, <1>9, <1>10, <1>11,
    <1>12, <1>13, <1>14, <1>15, <1>16, <1>17
  DEF Next, MainNext, ItemNext, CodegenNext, LinkNext

LEMMA WorkerTypeNext == TypeOK /\ [Next]_vars => WorkerType'
<1> SUFFICES ASSUME TypeOK, [Next]_vars PROVE WorkerType'
  OBVIOUS
<1> USE DEF TypeOK, WorkerType
<1>1. ASSUME Start PROVE WorkerType'
  BY <1>1 DEF Start, SetRunning
<1>2. ASSUME CodegenFunc PROVE WorkerType'
  BY <1>2 DEF CodegenFunc, DispatchFunc
<1>3. ASSUME DeinitTask PROVE WorkerType'
  BY <1>3 DEF DeinitTask, IsPending
<1>4. ASSUME NEW p \in PrelinkItems, StartPrelinkItem(p) PROVE WorkerType'
  BY <1>4 DEF StartPrelinkItem
<1>5. ASSUME NEW p \in PrelinkItems, EnqueuePrelink(p) PROVE WorkerType'
  BY <1>5 DEF EnqueuePrelink, SetRunning
<1>6. ASSUME NEW p \in PrelinkItems, NoPrelinkOutput(p) PROVE WorkerType'
  BY <1>6 DEF NoPrelinkOutput
<1>7. ASSUME NEW p \in PrelinkItems, ItemSpawn(p) PROVE WorkerType'
  BY <1>7 DEF ItemSpawn, SpawnFlush
<1>8. ASSUME NEW p \in PrelinkItems, ItemFinish(p) PROVE WorkerType'
  BY <1>8 DEF ItemFinish, FinishPrelinkItem, SetRunning
<1>9. ASSUME NEW p \in PrelinkItems, ItemExit(p) PROVE WorkerType'
  BY <1>9 DEF ItemExit
<1>10. ASSUME NEW f \in LinkFuncs, CodegenStore(f) PROVE WorkerType'
  BY <1>10 DEF CodegenStore
<1>11. ASSUME NEW f \in LinkFuncs, MirReady(f) PROVE WorkerType'
  BY <1>11 DEF MirReady, SetRunning
<1>12. ASSUME NEW f \in LinkFuncs, CodegenSpawn(f) PROVE WorkerType'
  BY <1>12 DEF CodegenSpawn, SpawnFlush
<1>13. ASSUME NEW f \in LinkFuncs, CodegenExit(f) PROVE WorkerType'
  BY <1>13 DEF CodegenExit
<1>14. ASSUME ZcuRun PROVE WorkerType'
  BY <1>14 DEF ZcuRun, Advance, NextZcu
<1>15. CASE UNCHANGED <<mir, cg, item>>
  BY <1>15
<1>16. FinishItems \/ GiveUp \/ Dispatch \/ EnqueueZcu \/ AirWake \/ MainSpawn
      \/ EndWork \/ Wait \/ Flush => UNCHANGED <<mir, cg, item>>
  BY DEF FinishItems, FinishPrelinkItem, SetRunning, GiveUp, Dispatch,
    DispatchOther, EnqueueZcu, EnqueueSection, SleepForAir, AppendZcu,
    AppendFails, MustWait, CountAir, Restarts, IsPending, AirWake, MainSpawn,
    SpawnFlush, EndWork, Wait, Flush, preVars, zcuVars, airVars, runVars,
    poolVars, linkVars, mainVars
<1>17. FlushStart \/ PrelinkSwap \/ PrelinkRun \/ PrelinkCall \/ ZcuSwap \/
      ZcuTask \/ ZcuLock \/ ZcuDec \/ (\E more \in BOOLEAN : DoIdleTask(more))
      => UNCHANGED <<mir, cg, item>>
  BY DEF FlushStart, PrelinkSwap, LinkReturn, PrelinkRun, PrelinkCall,
    NextZcu, ZcuSwap, ZcuTask, IsPending, ZcuLock, ZcuDec, Advance,
    SignalsAir, DoIdleTask, preVars, zcuVars, airVars, runVars, poolVars,
    linkVars, mainVars
<1>18. UNCHANGED vars => UNCHANGED <<mir, cg, item>>
  BY DEF vars, preVars, zcuVars, airVars, runVars, poolVars, linkVars, mainVars
<1>19. QED
  BY <1>1, <1>2, <1>3, <1>4, <1>5, <1>6, <1>7, <1>8, <1>9, <1>10, <1>11,
    <1>12, <1>13, <1>14, <1>15, <1>16, <1>17, <1>18
  DEF Next, MainNext, ItemNext, CodegenNext, LinkNext

LEMMA TypeNext == TypeOK /\ [Next]_vars => TypeOK'
BY PrelinkTypeNext, ZcuTypeNext, AirTypeNext, RunTypeNext, LinkTypeNext,
   MainTypeNext, WorkerTypeNext DEF TypeOK

\* The queue's fields, its threads' positions and the histories keep their types,
\* and the link thread indexes wip_zcu only within its bounds (TypeOK).
THEOREM TypeCorrect == Spec => []TypeOK
BY TypeInit, TypeNext, PTL DEF Spec
-----------------------------------------------------------------------------
(***************************************************************************)
(* The wait group and the single link thread.  SingleLinkThread alone is   *)
(* not inductive: Start may set `state` to running because the main thread *)
(* passed Wait, which needs the wait group to count everything that lives, *)
(* and a codegen job is counted once because a function is dispatched at   *)
(* most once in an update.                                                 *)
(***************************************************************************)
IdleQuiet == mpc \in {"idle", "flush"} => wg = 0
LeftFresh == \A f \in left \cap LinkFuncs : cg[f] = "none"
RunInv == TypeOK /\ WaitGroupExact /\ SingleLinkThread /\ IdleQuiet /\ LeftFresh

LEMMA LiveFinite ==
    /\ IsFiniteSet(LiveItems) /\ IsFiniteSet(LiveCodegen)
    /\ Cardinality(LiveItems) \in Nat /\ Cardinality(LiveCodegen) \in Nat
<1>1. LiveItems \subseteq PrelinkItems /\ LiveCodegen \subseteq LinkFuncs
  BY DEF LiveItems, LiveCodegen
<1>2. IsFiniteSet(PrelinkItems) /\ IsFiniteSet(LinkFuncs)
  BY ConstantsAssumption DEF ConstantsAssumption
<1>3. IsFiniteSet(LiveItems) /\ IsFiniteSet(LiveCodegen)
  BY <1>1, <1>2, FS_Subset
<1> QED
  BY <1>3, FS_CardinalityType

\* Nothing lives when the wait group is at zero.
LEMMA Quiet ==
    ASSUME TypeOK, WaitGroupExact, wg = 0
    PROVE  /\ flush_jobs = 0 /\ lpc = "idle"
           /\ LiveItems = {} /\ LiveCodegen = {}
<1>1. flush_jobs \in Nat
  BY DEF TypeOK, RunType
<1>2. /\ flush_jobs = 0 /\ lpc = "idle"
      /\ Cardinality(LiveItems) = 0 /\ Cardinality(LiveCodegen) = 0
  BY <1>1, LiveFinite DEF WaitGroupExact
<1> QED
  BY <1>2, LiveFinite, FS_EmptySet

\* A job that starts or ends changes the number of live jobs by one.
LEMMA CountAdd ==
    ASSUME NEW S, NEW x, IsFiniteSet(S), x \notin S
    PROVE  Cardinality(S \cup {x}) = Cardinality(S) + 1
BY FS_AddElement

LEMMA CountRemove ==
    ASSUME NEW S, NEW x, IsFiniteSet(S), x \in S
    PROVE  Cardinality(S \ {x}) = Cardinality(S) - 1
BY FS_RemoveElement

LEMMA LeftFreshNext == TypeOK /\ LeftFresh /\ [Next]_vars => LeftFresh'
<1> SUFFICES ASSUME TypeOK, LeftFresh, [Next]_vars PROVE LeftFresh'
  OBVIOUS
<1> USE DEF LeftFresh, TypeOK, WorkerType, MainType
<1>1. ASSUME Start PROVE LeftFresh'
  BY <1>1 DEF Start, SetRunning, mainVars
<1>2. ASSUME Dispatch PROVE LeftFresh'
  BY <1>2 DEF Dispatch, DispatchOther, mainVars
<1>3. ASSUME CodegenFunc PROVE LeftFresh'
  BY <1>3 DEF CodegenFunc, DispatchFunc, mainVars
<1>4. ASSUME NEW f \in LinkFuncs, CodegenStore(f) PROVE LeftFresh'
  BY <1>4 DEF CodegenStore, mainVars
<1>5. ASSUME NEW f \in LinkFuncs, MirReady(f) PROVE LeftFresh'
  BY <1>5 DEF MirReady, SetRunning, mainVars
<1>6. ASSUME NEW f \in LinkFuncs, CodegenSpawn(f) PROVE LeftFresh'
  BY <1>6 DEF CodegenSpawn, SpawnFlush, mainVars
<1>7. ASSUME NEW f \in LinkFuncs, CodegenExit(f) PROVE LeftFresh'
  BY <1>7 DEF CodegenExit, mainVars
<1>8. CASE UNCHANGED <<left, cg>>
  BY <1>8 DEF mainVars
<1>9. FinishItems \/ GiveUp \/ EnqueueZcu \/ AirWake \/ DeinitTask \/
      MainSpawn \/ EndWork \/ Wait \/ Flush => UNCHANGED <<left, cg>>
  BY DEF FinishItems, FinishPrelinkItem, SetRunning, GiveUp, EnqueueZcu,
    EnqueueSection, SleepForAir, AppendZcu, AppendFails, MustWait, CountAir,
    Restarts, IsPending, AirWake, DeinitTask, MainSpawn, SpawnFlush, EndWork,
    Wait, Flush, preVars, zcuVars, airVars, runVars, poolVars, linkVars,
    mainVars
<1>10. (\E p \in PrelinkItems : StartPrelinkItem(p)) \/
      (\E p \in PrelinkItems : EnqueuePrelink(p)) \/
      (\E p \in PrelinkItems : NoPrelinkOutput(p)) \/
      (\E p \in PrelinkItems : ItemSpawn(p)) \/
      (\E p \in PrelinkItems : ItemFinish(p)) \/
      (\E p \in PrelinkItems : ItemExit(p)) \/ FlushStart \/ PrelinkSwap \/
      PrelinkRun => UNCHANGED <<left, cg>>
  BY DEF StartPrelinkItem, EnqueuePrelink, SetRunning, NoPrelinkOutput,
    ItemSpawn, SpawnFlush, ItemFinish, FinishPrelinkItem, ItemExit,
    FlushStart, PrelinkSwap, LinkReturn, PrelinkRun, preVars, zcuVars,
    airVars, runVars, poolVars, linkVars, mainVars
<1>11. PrelinkCall \/ ZcuSwap \/ ZcuTask \/ ZcuLock \/ ZcuRun \/ ZcuDec \/
      (\E more \in BOOLEAN : DoIdleTask(more)) => UNCHANGED <<left, cg>>
  BY DEF PrelinkCall, NextZcu, ZcuSwap, LinkReturn, ZcuTask, IsPending,
    ZcuLock, ZcuRun, Advance, ZcuDec, SignalsAir, DoIdleTask, preVars,
    zcuVars, airVars, runVars, poolVars, linkVars, mainVars
<1>12. UNCHANGED vars => UNCHANGED <<left, cg>>
  BY DEF vars, preVars, zcuVars, airVars, runVars, poolVars, linkVars, mainVars
<1>13. QED
  BY <1>1, <1>2, <1>3, <1>4, <1>5, <1>6, <1>7, <1>8, <1>9, <1>10, <1>11, <1>12
  DEF Next, MainNext, ItemNext, CodegenNext, LinkNext

LEMMA IdleQuietNext == TypeOK /\ WaitGroupExact /\ IdleQuiet /\ [Next]_vars => IdleQuiet'
<1> SUFFICES ASSUME TypeOK, WaitGroupExact, IdleQuiet, [Next]_vars PROVE
  IdleQuiet'
  OBVIOUS
<1> USE DEF IdleQuiet
<1>a. mpc \in {"idle", "flush"} =>
        lpc = "idle" /\ LiveItems = {} /\ LiveCodegen = {}
  BY Quiet
<1>1. ASSUME Start PROVE IdleQuiet'
  BY <1>1 DEF Start, SetRunning, poolVars, mainVars
<1>2. ASSUME FinishItems PROVE IdleQuiet'
  BY <1>2 DEF FinishItems, FinishPrelinkItem, SetRunning, poolVars, mainVars
<1>3. ASSUME GiveUp PROVE IdleQuiet'
  BY <1>3 DEF GiveUp, poolVars, mainVars
<1>4. ASSUME Dispatch PROVE IdleQuiet'
  BY <1>4 DEF Dispatch, DispatchOther, poolVars, mainVars
<1>5. ASSUME CodegenFunc PROVE IdleQuiet'
  BY <1>5 DEF CodegenFunc, DispatchFunc, poolVars, mainVars
<1>6. ASSUME EnqueueZcu \/ AirWake PROVE IdleQuiet'
  BY <1>6 DEF EnqueueZcu, EnqueueSection, SleepForAir, AppendZcu, AppendFails,
    MustWait, CountAir, Restarts, SetRunning, IsPending, AirWake, poolVars,
    mainVars
<1>7. ASSUME DeinitTask PROVE IdleQuiet'
  BY <1>7 DEF DeinitTask, IsPending, poolVars, mainVars
<1>8. ASSUME MainSpawn PROVE IdleQuiet'
  BY <1>8 DEF MainSpawn, SpawnFlush, poolVars, mainVars
<1>9. ASSUME EndWork PROVE IdleQuiet'
  BY <1>9 DEF EndWork, poolVars, mainVars
<1>10. ASSUME Wait PROVE IdleQuiet'
  BY <1>10 DEF Wait, poolVars, mainVars
<1>11. ASSUME Flush PROVE IdleQuiet'
  BY <1>11 DEF Flush, poolVars, mainVars
<1>12. ASSUME NEW p \in PrelinkItems, StartPrelinkItem(p) PROVE IdleQuiet'
  BY <1>12 DEF StartPrelinkItem, poolVars, mainVars
<1>13. ASSUME NEW p \in PrelinkItems, ItemSpawn(p) PROVE IdleQuiet'
  <2>1. p \in LiveItems /\ mpc' = mpc
    BY <1>13 DEF ItemSpawn, SpawnFlush, LiveItems, mainVars
  <2> QED
    BY <2>1, <1>a
<1>14. ASSUME NEW p \in PrelinkItems, ItemExit(p) PROVE IdleQuiet'
  <2>1. p \in LiveItems /\ mpc' = mpc
    BY <1>14 DEF ItemExit, LiveItems, mainVars
  <2> QED
    BY <2>1, <1>a
<1>15. ASSUME NEW f \in LinkFuncs, CodegenSpawn(f) PROVE IdleQuiet'
  <2>1. f \in LiveCodegen /\ mpc' = mpc
    BY <1>15 DEF CodegenSpawn, SpawnFlush, LiveCodegen, mainVars
  <2> QED
    BY <2>1, <1>a
<1>16. ASSUME NEW f \in LinkFuncs, CodegenExit(f) PROVE IdleQuiet'
  <2>1. f \in LiveCodegen /\ mpc' = mpc
    BY <1>16 DEF CodegenExit, LiveCodegen, mainVars
  <2> QED
    BY <2>1, <1>a
<1>17. ASSUME PrelinkSwap PROVE IdleQuiet'
  <2>1. lpc # "idle" /\ mpc' = mpc
    BY <1>17 DEF PrelinkSwap, mainVars
  <2> QED
    BY <2>1, <1>a
<1>18. ASSUME ZcuSwap PROVE IdleQuiet'
  <2>1. lpc # "idle" /\ mpc' = mpc
    BY <1>18 DEF ZcuSwap, mainVars
  <2> QED
    BY <2>1, <1>a
<1>19. ASSUME ZcuLock PROVE IdleQuiet'
  <2>1. lpc # "idle" /\ mpc' = mpc
    BY <1>19 DEF ZcuLock, mainVars
  <2> QED
    BY <2>1, <1>a
<1>20. CASE UNCHANGED <<mpc, wg>>
  BY <1>20 DEF poolVars, mainVars
<1>21. (\E p \in PrelinkItems : EnqueuePrelink(p)) \/
      (\E p \in PrelinkItems : NoPrelinkOutput(p)) \/
      (\E p \in PrelinkItems : ItemFinish(p)) \/
      (\E f \in LinkFuncs : CodegenStore(f)) \/
      (\E f \in LinkFuncs : MirReady(f)) \/ FlushStart \/ PrelinkRun \/
      PrelinkCall \/ ZcuTask => UNCHANGED <<mpc, wg>>
  BY DEF EnqueuePrelink, SetRunning, NoPrelinkOutput, ItemFinish,
    FinishPrelinkItem, CodegenStore, MirReady, FlushStart, PrelinkRun,
    PrelinkCall, NextZcu, ZcuTask, IsPending, preVars, zcuVars, airVars,
    runVars, poolVars, linkVars, mainVars
<1>22. ZcuRun \/ ZcuDec \/ (\E more \in BOOLEAN : DoIdleTask(more)) =>
      UNCHANGED <<mpc, wg>>
  BY DEF ZcuRun, Advance, NextZcu, ZcuDec, SignalsAir, DoIdleTask, preVars,
    zcuVars, airVars, runVars, poolVars, linkVars, mainVars
<1>23. UNCHANGED vars => UNCHANGED <<mpc, wg>>
  BY DEF vars, preVars, zcuVars, airVars, runVars, poolVars, linkVars, mainVars
<1>24. QED
  BY <1>1, <1>2, <1>3, <1>4, <1>5, <1>6, <1>7, <1>8, <1>9, <1>10, <1>11,
    <1>12, <1>13, <1>14, <1>15, <1>16, <1>17, <1>18, <1>19, <1>20, <1>21,
    <1>22, <1>23
  DEF Next, MainNext, ItemNext, CodegenNext, LinkNext

\* SingleLinkThread is about Agents and Runs; agent by agent, they are:
LEMMA AgentFacts ==
    /\ <<"pool", NoTask>> \in Agents /\ <<"link", NoTask>> \in Agents
    /\ <<"main", NoTask>> \in Agents
    /\ \A p \in PrelinkItems : <<"item", p>> \in Agents
    /\ \A f \in LinkFuncs : <<"codegen", f>> \in Agents
    /\ \A a \in Agents :
          \/ a = <<"pool", NoTask>> \/ a = <<"link", NoTask>>
          \/ a = <<"main", NoTask>>
          \/ \E p \in PrelinkItems : a = <<"item", p>>
          \/ \E f \in LinkFuncs : a = <<"codegen", f>>
BY DEF Agents

LEMMA RunsFacts ==
    /\ Runs(<<"pool", NoTask>>) <=> flush_jobs > 0
    /\ Runs(<<"link", NoTask>>) <=> lpc # "idle"
    /\ Runs(<<"main", NoTask>>) <=> mpc = "spawn"
    /\ \A p : Runs(<<"item", p>>) <=> item[p] \in {"spawn_enqueue", "spawn_finish"}
    /\ \A f : Runs(<<"codegen", f>>) <=> cg[f] = "spawn"
BY DEF Runs

LEMMA RunsFactsNext ==
    /\ Runs(<<"pool", NoTask>>)' <=> flush_jobs' > 0
    /\ Runs(<<"link", NoTask>>)' <=> lpc' # "idle"
    /\ Runs(<<"main", NoTask>>)' <=> mpc' = "spawn"
    /\ \A p : Runs(<<"item", p>>)' <=> item'[p] \in {"spawn_enqueue", "spawn_finish"}
    /\ \A f : Runs(<<"codegen", f>>)' <=> cg'[f] = "spawn"
BY DEF Runs

\* The runner stays: nothing that Runs looks at changes.
LEMMA KeepRunner ==
    ASSUME SingleLinkThread,
           state' = state \/ (state # "running" /\ state' # "running"),
           flush_jobs' = flush_jobs,
           lpc' = "idle" <=> lpc = "idle", mpc' = "spawn" <=> mpc = "spawn",
           \A p \in PrelinkItems :
              item'[p] \in {"spawn_enqueue", "spawn_finish"}
                <=> item[p] \in {"spawn_enqueue", "spawn_finish"},
           \A f \in LinkFuncs : cg'[f] = "spawn" <=> cg[f] = "spawn"
    PROVE  SingleLinkThread'
<1>1. \A a \in Agents : Runs(a)' <=> Runs(a)
  BY AgentFacts DEF Runs
<1> QED
  BY <1>1 DEF SingleLinkThread

\* An agent that finds no runner becomes the runner.
LEMMA BeginRunner ==
    ASSUME SingleLinkThread, state # "running", state' = "running",
           flush_jobs' = 0 \/ flush_jobs' = 1, NEW b \in Agents,
           \A a \in Agents : Runs(a)' <=> Runs(a) \/ a = b
    PROVE  SingleLinkThread'
BY DEF SingleLinkThread

\* The runner hands over.
LEMMA MoveRunner ==
    ASSUME SingleLinkThread, state' = state, flush_jobs' = 0 \/ flush_jobs' = 1,
           NEW b \in Agents, NEW c \in Agents, Runs(b),
           \A a \in Agents : Runs(a)' <=> (Runs(a) /\ a # b) \/ a = c
    PROVE  SingleLinkThread'
BY DEF SingleLinkThread

\* The link thread returns.
LEMMA EndRunner ==
    ASSUME SingleLinkThread, state' # "running", flush_jobs' = flush_jobs,
           NEW b \in Agents, Runs(b),
           \A a \in Agents : Runs(a)' <=> Runs(a) /\ a # b
    PROVE  SingleLinkThread'
BY DEF SingleLinkThread

LEMMA SingleNext == RunInv /\ [Next]_vars => SingleLinkThread'
<1> SUFFICES ASSUME TypeOK, WaitGroupExact, SingleLinkThread, IdleQuiet, LeftFresh,
             [Next]_vars PROVE SingleLinkThread'
  BY DEF RunInv
<1>1. ASSUME Start PROVE SingleLinkThread'
  <2>1. wg = 0 /\ mpc = "idle"
    BY <1>1 DEF Start, IdleQuiet
  <2>2. flush_jobs = 0 /\ lpc = "idle" /\ LiveItems = {} /\ LiveCodegen = {}
    BY <2>1, Quiet
  <2>3. \A a \in Agents : ~Runs(a)
    BY <2>1, <2>2, AgentFacts, RunsFacts DEF LiveItems, LiveCodegen
  <2>4. \A a \in Agents : Runs(a)' <=> a = <<"pool", NoTask>> /\ queued_prelink # <<>>
    BY <1>1, <2>2, AgentFacts, RunsFactsNext DEF Start, linkVars
  <2>5. state # "running"
    BY <2>3 DEF SingleLinkThread
  <2>6. CASE queued_prelink # <<>>
    BY <1>1, <2>2, <2>3, <2>4, <2>5, <2>6, BeginRunner, AgentFacts DEF Start, SetRunning
  <2>7. CASE queued_prelink = <<>>
    <3>1. flush_jobs' = 0 /\ state' = state
      BY <1>1, <2>2, <2>7 DEF Start, runVars
    <3> QED
      BY <2>4, <2>5, <2>7, <3>1 DEF SingleLinkThread
  <2> QED
    BY <2>6, <2>7
<1>2. ASSUME FinishItems PROVE SingleLinkThread'
  <2>1. CASE mpc' = "spawn"
    <3>1. state # "running" /\ state' = "running" /\ flush_jobs' = flush_jobs
      BY <1>2, <2>1 DEF FinishItems, FinishPrelinkItem, SetRunning, runVars, poolVars,
         linkVars, mainVars, TypeOK, WorkerType
    <3>2. \A a \in Agents : Runs(a)' <=> Runs(a) \/ a = <<"main", NoTask>>
      BY <1>2, <2>1, AgentFacts, RunsFacts, RunsFactsNext
      DEF FinishItems, FinishPrelinkItem, SetRunning, runVars, poolVars, linkVars, mainVars, TypeOK, WorkerType
    <3>3. flush_jobs' = 0 \/ flush_jobs' = 1
      BY <3>1 DEF SingleLinkThread, TypeOK, RunType
    <3> QED
      BY <3>1, <3>2, <3>3, AgentFacts, BeginRunner
  <2>2. CASE ~(mpc' = "spawn")
    BY <1>2, <2>2, KeepRunner DEF FinishItems, FinishPrelinkItem, SetRunning, runVars,
       poolVars, linkVars, mainVars, TypeOK, WorkerType
  <2> QED
    BY <2>1, <2>2
<1>3. ASSUME GiveUp PROVE SingleLinkThread'
  BY <1>3, KeepRunner DEF GiveUp, runVars, poolVars, linkVars, mainVars
<1>4. ASSUME Dispatch PROVE SingleLinkThread'
  BY <1>4, KeepRunner DEF Dispatch, DispatchOther, runVars, poolVars, linkVars,
    mainVars
<1>5. ASSUME CodegenFunc PROVE SingleLinkThread'
  BY <1>5, KeepRunner DEF CodegenFunc, DispatchFunc, TypeOK, WorkerType,
    LeftFresh, runVars, poolVars, linkVars, mainVars
<1>6. ASSUME EnqueueZcu \/ AirWake PROVE SingleLinkThread'
  <2>1. UNCHANGED <<flush_jobs, lpc, item, cg>> /\ mpc # "spawn"
    BY <1>6 DEF EnqueueZcu, AirWake, EnqueueSection, poolVars, linkVars
  <2>2. \/ mpc' = "spawn" /\ state = "finished" /\ state' = "running"
        \/ mpc' # "spawn" /\ state' = state
        \/ mpc' # "spawn" /\ state = "finished" /\ state' = "wait_for_mir"
    BY <1>6 DEF EnqueueZcu, AirWake, EnqueueSection, SleepForAir, AppendZcu,
       AppendFails, Restarts, SetRunning, runVars
  <2>3. CASE mpc' = "spawn"
    <3>1. \A a \in Agents : Runs(a)' <=> Runs(a) \/ a = <<"main", NoTask>>
      BY <2>1, <2>3, AgentFacts, RunsFacts, RunsFactsNext
    <3>2. flush_jobs' = 0 \/ flush_jobs' = 1
      BY <2>1 DEF SingleLinkThread, TypeOK, RunType
    <3> QED
      BY <2>2, <2>3, <3>1, <3>2, AgentFacts, BeginRunner
  <2>4. CASE mpc' # "spawn"
    BY <2>1, <2>2, <2>4, KeepRunner
  <2> QED
    BY <2>3, <2>4
<1>7. ASSUME DeinitTask PROVE SingleLinkThread'
  BY <1>7, KeepRunner DEF DeinitTask, IsPending, runVars, poolVars, linkVars,
    mainVars
<1>8. ASSUME MainSpawn PROVE SingleLinkThread'
  <2>1. Runs(<<"main", NoTask>>) /\ state' = state
    BY <1>8, RunsFacts DEF MainSpawn, SpawnFlush, runVars
  <2>2. flush_jobs = 0
    BY <1>8, <2>1, AgentFacts, RunsFacts
    DEF MainSpawn, SpawnFlush, SingleLinkThread, TypeOK, RunType
  <2>3. \A a \in Agents : Runs(a)' <=> (Runs(a) /\ a # <<"main", NoTask>>) \/ a = <<"pool", NoTask>>
    BY <1>8, <2>2, AgentFacts, RunsFacts, RunsFactsNext
    DEF MainSpawn, SpawnFlush, linkVars, mainVars, TypeOK, WorkerType
  <2>4. flush_jobs' = 0 \/ flush_jobs' = 1
    BY <1>8, <2>2 DEF MainSpawn, SpawnFlush
  <2> QED
    BY <2>1, <2>3, <2>4, AgentFacts, MoveRunner
<1>9. ASSUME EndWork PROVE SingleLinkThread'
  BY <1>9, KeepRunner DEF EndWork, runVars, poolVars, linkVars, mainVars
<1>10. ASSUME Wait PROVE SingleLinkThread'
  BY <1>10, KeepRunner DEF Wait, runVars, poolVars, linkVars, mainVars
<1>11. ASSUME Flush PROVE SingleLinkThread'
  BY <1>11, KeepRunner DEF Flush, runVars, poolVars, linkVars, mainVars
<1>12. ASSUME NEW p \in PrelinkItems, StartPrelinkItem(p) PROVE SingleLinkThread'
  BY <1>12, KeepRunner DEF StartPrelinkItem, TypeOK, WorkerType, runVars,
    poolVars, linkVars, mainVars
<1>13. ASSUME NEW p \in PrelinkItems, EnqueuePrelink(p) PROVE SingleLinkThread'
  <2>1. CASE state = "finished"
    <3>1. state # "running" /\ state' = "running" /\ flush_jobs' = flush_jobs
      BY <1>13, <2>1 DEF EnqueuePrelink, SetRunning, runVars, poolVars, linkVars,
         mainVars, TypeOK, WorkerType
    <3>2. \A a \in Agents : Runs(a)' <=> Runs(a) \/ a = <<"item", p>>
      BY <1>13, <2>1, AgentFacts, RunsFacts, RunsFactsNext
      DEF EnqueuePrelink, SetRunning, runVars, poolVars, linkVars, mainVars, TypeOK, WorkerType
    <3>3. flush_jobs' = 0 \/ flush_jobs' = 1
      BY <3>1 DEF SingleLinkThread, TypeOK, RunType
    <3> QED
      BY <3>1, <3>2, <3>3, AgentFacts, BeginRunner
  <2>2. CASE ~(state = "finished")
    BY <1>13, <2>2, KeepRunner DEF EnqueuePrelink, SetRunning, runVars, poolVars,
       linkVars, mainVars, TypeOK, WorkerType
  <2> QED
    BY <2>1, <2>2
<1>14. ASSUME NEW p \in PrelinkItems, NoPrelinkOutput(p) PROVE SingleLinkThread'
  BY <1>14, KeepRunner DEF NoPrelinkOutput, TypeOK, WorkerType, runVars, poolVars,
    linkVars, mainVars
<1>15. ASSUME NEW p \in PrelinkItems, ItemSpawn(p) PROVE SingleLinkThread'
  <2>1. Runs(<<"item", p>>) /\ state' = state
    BY <1>15, RunsFacts DEF ItemSpawn, SpawnFlush, runVars
  <2>2. flush_jobs = 0
    BY <1>15, <2>1, AgentFacts, RunsFacts
    DEF ItemSpawn, SpawnFlush, SingleLinkThread, TypeOK, RunType
  <2>3. \A a \in Agents : Runs(a)' <=> (Runs(a) /\ a # <<"item", p>>) \/ a = <<"pool", NoTask>>
    BY <1>15, <2>2, AgentFacts, RunsFacts, RunsFactsNext
    DEF ItemSpawn, SpawnFlush, linkVars, mainVars, TypeOK, WorkerType
  <2>4. flush_jobs' = 0 \/ flush_jobs' = 1
    BY <1>15, <2>2 DEF ItemSpawn, SpawnFlush
  <2> QED
    BY <2>1, <2>3, <2>4, AgentFacts, MoveRunner
<1>16. ASSUME NEW p \in PrelinkItems, ItemFinish(p) PROVE SingleLinkThread'
  <2>1. CASE item'[p] = "spawn_finish"
    <3>1. state # "running" /\ state' = "running" /\ flush_jobs' = flush_jobs
      BY <1>16, <2>1 DEF ItemFinish, FinishPrelinkItem, SetRunning,
        runVars, poolVars, linkVars, mainVars, TypeOK, WorkerType
    <3>2. \A a \in Agents : Runs(a)' <=> Runs(a) \/ a = <<"item", p>>
      BY <1>16, <2>1, AgentFacts, RunsFacts, RunsFactsNext
      DEF ItemFinish, FinishPrelinkItem, SetRunning,
        runVars, poolVars, linkVars, mainVars, TypeOK, WorkerType
    <3>3. flush_jobs' = 0 \/ flush_jobs' = 1
      BY <3>1 DEF SingleLinkThread, TypeOK, RunType
    <3> QED
      BY <3>1, <3>2, <3>3, AgentFacts, BeginRunner
  <2>2. CASE ~(item'[p] = "spawn_finish")
    BY <1>16, <2>2, KeepRunner DEF ItemFinish, FinishPrelinkItem, SetRunning,
        runVars, poolVars, linkVars, mainVars, TypeOK, WorkerType
  <2> QED
    BY <2>1, <2>2
<1>17. ASSUME NEW p \in PrelinkItems, ItemExit(p) PROVE SingleLinkThread'
  BY <1>17, KeepRunner DEF ItemExit, TypeOK, WorkerType, runVars, poolVars,
    linkVars, mainVars
<1>18. ASSUME NEW f \in LinkFuncs, CodegenStore(f) PROVE SingleLinkThread'
  BY <1>18, KeepRunner DEF CodegenStore, TypeOK, WorkerType, runVars, poolVars,
    linkVars, mainVars
<1>19. ASSUME NEW f \in LinkFuncs, MirReady(f) PROVE SingleLinkThread'
  <2>1. CASE state = "wait_for_mir" /\ wait_for = f
    <3>1. state # "running" /\ state' = "running" /\ flush_jobs' = flush_jobs
      BY <1>19, <2>1 DEF MirReady, SetRunning, runVars, poolVars, linkVars, mainVars,
         TypeOK, WorkerType
    <3>2. \A a \in Agents : Runs(a)' <=> Runs(a) \/ a = <<"codegen", f>>
      BY <1>19, <2>1, AgentFacts, RunsFacts, RunsFactsNext
      DEF MirReady, SetRunning, runVars, poolVars, linkVars, mainVars, TypeOK, WorkerType
    <3>3. flush_jobs' = 0 \/ flush_jobs' = 1
      BY <3>1 DEF SingleLinkThread, TypeOK, RunType
    <3> QED
      BY <3>1, <3>2, <3>3, AgentFacts, BeginRunner
  <2>2. CASE ~(state = "wait_for_mir" /\ wait_for = f)
    BY <1>19, <2>2, KeepRunner DEF MirReady, SetRunning, runVars, poolVars, linkVars,
       mainVars, TypeOK, WorkerType
  <2> QED
    BY <2>1, <2>2
<1>20. ASSUME NEW f \in LinkFuncs, CodegenSpawn(f) PROVE SingleLinkThread'
  <2>1. Runs(<<"codegen", f>>) /\ state' = state
    BY <1>20, RunsFacts DEF CodegenSpawn, SpawnFlush, runVars
  <2>2. flush_jobs = 0
    BY <1>20, <2>1, AgentFacts, RunsFacts
    DEF CodegenSpawn, SpawnFlush, SingleLinkThread, TypeOK, RunType
  <2>3. \A a \in Agents : Runs(a)' <=> (Runs(a) /\ a # <<"codegen", f>>) \/ a = <<"pool", NoTask>>
    BY <1>20, <2>2, AgentFacts, RunsFacts, RunsFactsNext
    DEF CodegenSpawn, SpawnFlush, linkVars, mainVars, TypeOK, WorkerType
  <2>4. flush_jobs' = 0 \/ flush_jobs' = 1
    BY <1>20, <2>2 DEF CodegenSpawn, SpawnFlush
  <2> QED
    BY <2>1, <2>3, <2>4, AgentFacts, MoveRunner
<1>21. ASSUME NEW f \in LinkFuncs, CodegenExit(f) PROVE SingleLinkThread'
  BY <1>21, KeepRunner DEF CodegenExit, TypeOK, WorkerType, runVars, poolVars,
    linkVars, mainVars
<1>22. ASSUME FlushStart PROVE SingleLinkThread'
  <2>1. Runs(<<"pool", NoTask>>) /\ state' = state
    BY <1>22, RunsFacts DEF FlushStart, runVars
  <2>2. flush_jobs = 1
    BY <1>22, <2>1, AgentFacts, RunsFacts
    DEF FlushStart, SingleLinkThread, TypeOK, RunType
  <2>3. \A a \in Agents : Runs(a)' <=> (Runs(a) /\ a # <<"pool", NoTask>>) \/ a = <<"link", NoTask>>
    BY <1>22, <2>2, AgentFacts, RunsFacts, RunsFactsNext
    DEF FlushStart, linkVars, mainVars, TypeOK, WorkerType
  <2>4. flush_jobs' = 0 \/ flush_jobs' = 1
    BY <1>22, <2>2 DEF FlushStart
  <2> QED
    BY <2>1, <2>3, <2>4, AgentFacts, MoveRunner
<1>23. ASSUME PrelinkSwap PROVE SingleLinkThread'
  <2>1. CASE lpc' = "idle"
    <3>1. Runs(<<"link", NoTask>>) /\ state' # "running" /\ flush_jobs' = flush_jobs
      BY <1>23, <2>1, RunsFacts DEF PrelinkSwap, LinkReturn
    <3>2. \A a \in Agents : Runs(a)' <=> Runs(a) /\ a # <<"link", NoTask>>
      BY <1>23, <2>1, <3>1, AgentFacts, RunsFacts, RunsFactsNext
      DEF PrelinkSwap, LinkReturn, mainVars
    <3> QED
      BY <3>1, <3>2, AgentFacts, EndRunner
  <2>2. CASE lpc' # "idle"
    BY <1>23, <2>2, KeepRunner DEF PrelinkSwap, LinkReturn, runVars, mainVars
  <2> QED
    BY <2>1, <2>2
<1>24. ASSUME PrelinkRun PROVE SingleLinkThread'
  BY <1>24, KeepRunner DEF PrelinkRun, runVars, poolVars, linkVars, mainVars
<1>25. ASSUME PrelinkCall PROVE SingleLinkThread'
  BY <1>25, KeepRunner DEF PrelinkCall, NextZcu, runVars, poolVars, linkVars,
    mainVars
<1>26. ASSUME ZcuSwap PROVE SingleLinkThread'
  <2>1. CASE lpc' = "idle"
    <3>1. Runs(<<"link", NoTask>>) /\ state' # "running" /\ flush_jobs' = flush_jobs
      BY <1>26, <2>1, RunsFacts DEF ZcuSwap, LinkReturn
    <3>2. \A a \in Agents : Runs(a)' <=> Runs(a) /\ a # <<"link", NoTask>>
      BY <1>26, <2>1, <3>1, AgentFacts, RunsFacts, RunsFactsNext
      DEF ZcuSwap, LinkReturn, mainVars
    <3> QED
      BY <3>1, <3>2, AgentFacts, EndRunner
  <2>2. CASE lpc' # "idle"
    BY <1>26, <2>2, KeepRunner DEF ZcuSwap, LinkReturn, runVars, mainVars
  <2> QED
    BY <2>1, <2>2
<1>27. ASSUME ZcuTask PROVE SingleLinkThread'
  BY <1>27, KeepRunner DEF ZcuTask, IsPending, runVars, poolVars, linkVars,
    mainVars
<1>28. ASSUME ZcuLock PROVE SingleLinkThread'
  <2>1. CASE lpc' = "idle"
    <3>1. Runs(<<"link", NoTask>>) /\ state' # "running" /\ flush_jobs' = flush_jobs
      BY <1>28, <2>1, RunsFacts DEF ZcuLock, LinkReturn
    <3>2. \A a \in Agents : Runs(a)' <=> Runs(a) /\ a # <<"link", NoTask>>
      BY <1>28, <2>1, <3>1, AgentFacts, RunsFacts, RunsFactsNext
      DEF ZcuLock, LinkReturn, mainVars
    <3> QED
      BY <3>1, <3>2, AgentFacts, EndRunner
  <2>2. CASE lpc' # "idle"
    BY <1>28, <2>2, KeepRunner DEF ZcuLock, LinkReturn, runVars, mainVars
  <2> QED
    BY <2>1, <2>2
<1>29. ASSUME ZcuRun PROVE SingleLinkThread'
  BY <1>29, KeepRunner DEF ZcuRun, Advance, NextZcu, runVars, poolVars, linkVars,
    mainVars
<1>30. ASSUME ZcuDec PROVE SingleLinkThread'
  BY <1>30, KeepRunner DEF ZcuDec, Advance, NextZcu, SignalsAir, runVars,
    poolVars, linkVars, mainVars
<1>31. ASSUME NEW more \in BOOLEAN, DoIdleTask(more) PROVE SingleLinkThread'
  BY <1>31, KeepRunner DEF DoIdleTask, runVars, poolVars, linkVars, mainVars
<1>32. CASE UNCHANGED <<state, flush_jobs, lpc, mpc, item, cg>>
  BY <1>32, KeepRunner
<1>33. UNCHANGED vars => UNCHANGED <<state, flush_jobs, lpc, mpc, item, cg>>
  BY DEF vars, preVars, zcuVars, airVars, runVars, poolVars, linkVars, mainVars
<1>34. QED
  BY <1>1, <1>2, <1>3, <1>4, <1>5, <1>6, <1>7, <1>8, <1>9, <1>10, <1>11,
    <1>12, <1>13, <1>14, <1>15, <1>16, <1>17, <1>18, <1>19, <1>20, <1>21,
    <1>22, <1>23, <1>24, <1>25, <1>26, <1>27, <1>28, <1>29, <1>30, <1>31,
    <1>32, <1>33
  DEF Next, MainNext, ItemNext, CodegenNext, LinkNext
\* WaitGroupExact when the sets of live jobs stay as they are: what changes in
\* the count is then the queue's own job.
LinkBusy == IF lpc = "idle" THEN 0 ELSE 1

LEMMA WaitGroupForm ==
    WaitGroupExact <=>
        wg = flush_jobs + LinkBusy + Cardinality(LiveItems) + Cardinality(LiveCodegen)
BY DEF WaitGroupExact, LinkBusy

LEMMA KeepCount ==
    ASSUME TypeOK, TypeOK', WaitGroupExact,
           LiveItems' = LiveItems, LiveCodegen' = LiveCodegen,
           wg' = wg + (flush_jobs' - flush_jobs) + (LinkBusy' - LinkBusy)
    PROVE  WaitGroupExact'
<1>1. /\ wg \in Int /\ wg' \in Int /\ flush_jobs \in Int /\ flush_jobs' \in Int
      /\ LinkBusy \in Int /\ LinkBusy' \in Int
  BY DEF TypeOK, RunType, LinkBusy
<1>2. PICK n, m \in Int : n = Cardinality(LiveItems) /\ m = Cardinality(LiveCodegen)
  BY LiveFinite
<1>3. wg = flush_jobs + LinkBusy + n + m
  BY <1>2, WaitGroupForm
<1>4. wg' = flush_jobs' + LinkBusy' + n + m
  BY <1>1, <1>3
<1> QED
  BY <1>2, <1>4 DEF WaitGroupExact, LinkBusy

\* One job more, or one less, and the wait group with it.
LEMMA StepCount ==
    ASSUME TypeOK, TypeOK', WaitGroupExact, UNCHANGED <<flush_jobs, lpc>>,
           NEW n1 \in Int, NEW m1 \in Int,
           n1 = Cardinality(LiveItems)', m1 = Cardinality(LiveCodegen)',
           n1 + m1 = Cardinality(LiveItems) + Cardinality(LiveCodegen) + (wg' - wg)
    PROVE  WaitGroupExact'
<1>1. /\ wg \in Int /\ wg' \in Int /\ flush_jobs \in Int
      /\ LinkBusy \in Int /\ LinkBusy' = LinkBusy
  BY DEF TypeOK, RunType, LinkBusy
<1>2. PICK n, m \in Int : n = Cardinality(LiveItems) /\ m = Cardinality(LiveCodegen)
  BY LiveFinite
<1>3. wg = flush_jobs + LinkBusy + n + m
  BY <1>2, WaitGroupForm
<1>4. n1 + m1 = n + m + (wg' - wg)
  BY <1>2
<1>5. wg' = flush_jobs + LinkBusy + n1 + m1
  BY <1>1, <1>3, <1>4
<1> QED
  BY <1>1, <1>5 DEF WaitGroupExact, LinkBusy

LEMMA WaitGroupNext == RunInv /\ TypeOK' /\ [Next]_vars => WaitGroupExact'
<1> SUFFICES ASSUME TypeOK, TypeOK', WaitGroupExact, IdleQuiet, LeftFresh,
             [Next]_vars PROVE WaitGroupExact'
  BY DEF RunInv
<1>1. ASSUME Start PROVE WaitGroupExact'
  <2>1. wg = 0 /\ mpc = "idle"
    BY <1>1 DEF Start, IdleQuiet
  <2>2. flush_jobs = 0 /\ lpc = "idle"
    BY <2>1, Quiet
  <2>3. LiveItems' = {} /\ LiveCodegen' = {}
    BY <1>1 DEF Start, LiveItems, LiveCodegen
  <2>4. Cardinality(LiveItems)' = 0 /\ Cardinality(LiveCodegen)' = 0
    BY <2>3, FS_EmptySet
  <2>5. wg' = flush_jobs' + LinkBusy'
    BY <1>1, <2>2 DEF Start, linkVars, LinkBusy
  <2>6. wg' \in Int /\ flush_jobs' \in Int /\ LinkBusy' \in Int
    BY DEF TypeOK, RunType, LinkBusy
  <2>7. wg' = flush_jobs' + LinkBusy' + Cardinality(LiveItems)' + Cardinality(LiveCodegen)'
    BY <2>4, <2>5, <2>6
  <2> QED
    BY <2>7 DEF WaitGroupExact, LinkBusy
<1>2. ASSUME CodegenFunc PROVE WaitGroupExact'
  <2>0. PICK f \in LinkFuncs : DispatchFunc(f)
    BY <1>2 DEF CodegenFunc
  <2>1. LiveCodegen' = LiveCodegen \cup {f} /\ f \notin LiveCodegen /\ LiveItems' = LiveItems
    BY <2>0 DEF DispatchFunc, LiveItems, LiveCodegen, TypeOK, WorkerType, LeftFresh
  <2>2. wg' = wg + 1 /\ UNCHANGED <<flush_jobs, lpc>>
    BY <2>0 DEF DispatchFunc, linkVars, poolVars
  <2>3. Cardinality(LiveCodegen)' = Cardinality(LiveCodegen) + (1)
    BY <2>1, LiveFinite, CountAdd
  <2>4. PICK n, m \in Int : n = Cardinality(LiveCodegen) /\ m = Cardinality(LiveItems)
    BY LiveFinite
  <2>5. Cardinality(LiveCodegen)' = n + (1) /\ Cardinality(LiveItems)' = m
    BY <2>1, <2>3, <2>4
  <2>6. wg' - wg = 1
    BY <2>2 DEF TypeOK, RunType
  <2> QED
    BY <2>2, <2>4, <2>5, <2>6, StepCount
<1>3. ASSUME MainSpawn PROVE WaitGroupExact'
  <2>1. LiveItems' = LiveItems /\ LiveCodegen' = LiveCodegen
    BY <1>3 DEF MainSpawn, SpawnFlush, LiveItems, LiveCodegen, TypeOK, WorkerType
  <2>2. wg' = wg + (flush_jobs' - flush_jobs) + (LinkBusy' - LinkBusy)
    BY <1>3 DEF MainSpawn, SpawnFlush, poolVars, linkVars, mainVars, runVars, LinkBusy,
       TypeOK, RunType
  <2> QED
    BY <2>1, <2>2, KeepCount
<1>4. ASSUME NEW p \in PrelinkItems, StartPrelinkItem(p) PROVE WaitGroupExact'
  <2>1. LiveItems' = LiveItems \cup {p} /\ p \notin LiveItems /\ LiveCodegen' = LiveCodegen
    BY <1>4 DEF StartPrelinkItem, LiveItems, LiveCodegen, TypeOK, WorkerType, LeftFresh
  <2>2. wg' = wg + 1 /\ UNCHANGED <<flush_jobs, lpc>>
    BY <1>4 DEF StartPrelinkItem, linkVars, poolVars
  <2>3. Cardinality(LiveItems)' = Cardinality(LiveItems) + (1)
    BY <2>1, LiveFinite, CountAdd
  <2>4. PICK n, m \in Int : n = Cardinality(LiveItems) /\ m = Cardinality(LiveCodegen)
    BY LiveFinite
  <2>5. Cardinality(LiveItems)' = n + (1) /\ Cardinality(LiveCodegen)' = m
    BY <2>1, <2>3, <2>4
  <2>6. wg' - wg = 1
    BY <2>2 DEF TypeOK, RunType
  <2> QED
    BY <2>2, <2>4, <2>5, <2>6, StepCount
<1>5. ASSUME NEW p \in PrelinkItems, EnqueuePrelink(p) PROVE WaitGroupExact'
  <2>1. LiveItems' = LiveItems /\ LiveCodegen' = LiveCodegen
    BY <1>5 DEF EnqueuePrelink, SetRunning, LiveItems, LiveCodegen, TypeOK, WorkerType
  <2>2. wg' = wg + (flush_jobs' - flush_jobs) + (LinkBusy' - LinkBusy)
    BY <1>5 DEF EnqueuePrelink, SetRunning, poolVars, linkVars, mainVars, runVars,
       LinkBusy, TypeOK, RunType
  <2> QED
    BY <2>1, <2>2, KeepCount
<1>6. ASSUME NEW p \in PrelinkItems, NoPrelinkOutput(p) PROVE WaitGroupExact'
  <2>1. LiveItems' = LiveItems /\ LiveCodegen' = LiveCodegen
    BY <1>6 DEF NoPrelinkOutput, LiveItems, LiveCodegen, TypeOK, WorkerType
  <2>2. wg' = wg + (flush_jobs' - flush_jobs) + (LinkBusy' - LinkBusy)
    BY <1>6 DEF NoPrelinkOutput, poolVars, linkVars, mainVars, runVars, LinkBusy,
       TypeOK, RunType
  <2> QED
    BY <2>1, <2>2, KeepCount
<1>7. ASSUME NEW p \in PrelinkItems, ItemSpawn(p) PROVE WaitGroupExact'
  <2>1. LiveItems' = LiveItems /\ LiveCodegen' = LiveCodegen
    BY <1>7 DEF ItemSpawn, SpawnFlush, LiveItems, LiveCodegen, TypeOK, WorkerType
  <2>2. wg' = wg + (flush_jobs' - flush_jobs) + (LinkBusy' - LinkBusy)
    BY <1>7 DEF ItemSpawn, SpawnFlush, poolVars, linkVars, mainVars, runVars, LinkBusy,
       TypeOK, RunType
  <2> QED
    BY <2>1, <2>2, KeepCount
<1>8. ASSUME NEW p \in PrelinkItems, ItemFinish(p) PROVE WaitGroupExact'
  <2>1. LiveItems' = LiveItems /\ LiveCodegen' = LiveCodegen
    BY <1>8 DEF ItemFinish, FinishPrelinkItem, SetRunning, LiveItems, LiveCodegen,
       TypeOK, WorkerType
  <2>2. wg' = wg + (flush_jobs' - flush_jobs) + (LinkBusy' - LinkBusy)
    BY <1>8 DEF ItemFinish, FinishPrelinkItem, SetRunning, poolVars, linkVars, mainVars,
       runVars, LinkBusy, TypeOK, RunType
  <2> QED
    BY <2>1, <2>2, KeepCount
<1>9. ASSUME NEW p \in PrelinkItems, ItemExit(p) PROVE WaitGroupExact'
  <2>1. LiveItems' = LiveItems \ {p} /\ p \in LiveItems /\ LiveCodegen' = LiveCodegen
    BY <1>9 DEF ItemExit, LiveItems, LiveCodegen, TypeOK, WorkerType, LeftFresh
  <2>2. wg' = wg - 1 /\ UNCHANGED <<flush_jobs, lpc>>
    BY <1>9 DEF ItemExit, linkVars, poolVars
  <2>3. Cardinality(LiveItems)' = Cardinality(LiveItems) + (-1)
    BY <2>1, LiveFinite, CountRemove
  <2>4. PICK n, m \in Int : n = Cardinality(LiveItems) /\ m = Cardinality(LiveCodegen)
    BY LiveFinite
  <2>5. Cardinality(LiveItems)' = n + (-1) /\ Cardinality(LiveCodegen)' = m
    BY <2>1, <2>3, <2>4
  <2>6. wg' - wg = -1
    BY <2>2 DEF TypeOK, RunType
  <2> QED
    BY <2>2, <2>4, <2>5, <2>6, StepCount
<1>10. ASSUME NEW f \in LinkFuncs, CodegenStore(f) PROVE WaitGroupExact'
  <2>1. LiveItems' = LiveItems /\ LiveCodegen' = LiveCodegen
    BY <1>10 DEF CodegenStore, LiveItems, LiveCodegen, TypeOK, WorkerType
  <2>2. wg' = wg + (flush_jobs' - flush_jobs) + (LinkBusy' - LinkBusy)
    BY <1>10 DEF CodegenStore, poolVars, linkVars, mainVars, runVars, LinkBusy, TypeOK,
       RunType
  <2> QED
    BY <2>1, <2>2, KeepCount
<1>11. ASSUME NEW f \in LinkFuncs, MirReady(f) PROVE WaitGroupExact'
  <2>1. LiveItems' = LiveItems /\ LiveCodegen' = LiveCodegen
    BY <1>11 DEF MirReady, SetRunning, LiveItems, LiveCodegen, TypeOK, WorkerType
  <2>2. wg' = wg + (flush_jobs' - flush_jobs) + (LinkBusy' - LinkBusy)
    BY <1>11 DEF MirReady, SetRunning, poolVars, linkVars, mainVars, runVars, LinkBusy,
       TypeOK, RunType
  <2> QED
    BY <2>1, <2>2, KeepCount
<1>12. ASSUME NEW f \in LinkFuncs, CodegenSpawn(f) PROVE WaitGroupExact'
  <2>1. LiveItems' = LiveItems /\ LiveCodegen' = LiveCodegen
    BY <1>12 DEF CodegenSpawn, SpawnFlush, LiveItems, LiveCodegen, TypeOK, WorkerType
  <2>2. wg' = wg + (flush_jobs' - flush_jobs) + (LinkBusy' - LinkBusy)
    BY <1>12 DEF CodegenSpawn, SpawnFlush, poolVars, linkVars, mainVars, runVars,
       LinkBusy, TypeOK, RunType
  <2> QED
    BY <2>1, <2>2, KeepCount
<1>13. ASSUME NEW f \in LinkFuncs, CodegenExit(f) PROVE WaitGroupExact'
  <2>1. LiveCodegen' = LiveCodegen \ {f} /\ f \in LiveCodegen /\ LiveItems' = LiveItems
    BY <1>13 DEF CodegenExit, LiveItems, LiveCodegen, TypeOK, WorkerType, LeftFresh
  <2>2. wg' = wg - 1 /\ UNCHANGED <<flush_jobs, lpc>>
    BY <1>13 DEF CodegenExit, linkVars, poolVars
  <2>3. Cardinality(LiveCodegen)' = Cardinality(LiveCodegen) + (-1)
    BY <2>1, LiveFinite, CountRemove
  <2>4. PICK n, m \in Int : n = Cardinality(LiveCodegen) /\ m = Cardinality(LiveItems)
    BY LiveFinite
  <2>5. Cardinality(LiveCodegen)' = n + (-1) /\ Cardinality(LiveItems)' = m
    BY <2>1, <2>3, <2>4
  <2>6. wg' - wg = -1
    BY <2>2 DEF TypeOK, RunType
  <2> QED
    BY <2>2, <2>4, <2>5, <2>6, StepCount
<1>14. ASSUME FlushStart PROVE WaitGroupExact'
  <2>1. LiveItems' = LiveItems /\ LiveCodegen' = LiveCodegen
    BY <1>14 DEF FlushStart, LiveItems, LiveCodegen, TypeOK, WorkerType
  <2>2. wg' = wg + (flush_jobs' - flush_jobs) + (LinkBusy' - LinkBusy)
    BY <1>14 DEF FlushStart, poolVars, linkVars, mainVars, runVars, LinkBusy, TypeOK,
       RunType
  <2> QED
    BY <2>1, <2>2, KeepCount
<1>15. ASSUME PrelinkSwap PROVE WaitGroupExact'
  <2>1. LiveItems' = LiveItems /\ LiveCodegen' = LiveCodegen
    BY <1>15 DEF PrelinkSwap, LinkReturn, LiveItems, LiveCodegen, TypeOK, WorkerType
  <2>2. wg' = wg + (flush_jobs' - flush_jobs) + (LinkBusy' - LinkBusy)
    BY <1>15 DEF PrelinkSwap, LinkReturn, poolVars, linkVars, mainVars, runVars,
       LinkBusy, TypeOK, RunType
  <2> QED
    BY <2>1, <2>2, KeepCount
<1>16. ASSUME PrelinkRun PROVE WaitGroupExact'
  <2>1. LiveItems' = LiveItems /\ LiveCodegen' = LiveCodegen
    BY <1>16 DEF PrelinkRun, LiveItems, LiveCodegen, TypeOK, WorkerType
  <2>2. wg' = wg + (flush_jobs' - flush_jobs) + (LinkBusy' - LinkBusy)
    BY <1>16 DEF PrelinkRun, poolVars, linkVars, mainVars, runVars, LinkBusy, TypeOK,
       RunType
  <2> QED
    BY <2>1, <2>2, KeepCount
<1>17. ASSUME PrelinkCall PROVE WaitGroupExact'
  <2>1. LiveItems' = LiveItems /\ LiveCodegen' = LiveCodegen
    BY <1>17 DEF PrelinkCall, NextZcu, LiveItems, LiveCodegen, TypeOK, WorkerType
  <2>2. wg' = wg + (flush_jobs' - flush_jobs) + (LinkBusy' - LinkBusy)
    BY <1>17 DEF PrelinkCall, NextZcu, poolVars, linkVars, mainVars, runVars, LinkBusy,
       TypeOK, RunType
  <2> QED
    BY <2>1, <2>2, KeepCount
<1>18. ASSUME ZcuSwap PROVE WaitGroupExact'
  <2>1. LiveItems' = LiveItems /\ LiveCodegen' = LiveCodegen
    BY <1>18 DEF ZcuSwap, LinkReturn, LiveItems, LiveCodegen, TypeOK, WorkerType
  <2>2. wg' = wg + (flush_jobs' - flush_jobs) + (LinkBusy' - LinkBusy)
    BY <1>18 DEF ZcuSwap, LinkReturn, poolVars, linkVars, mainVars, runVars, LinkBusy,
       TypeOK, RunType
  <2> QED
    BY <2>1, <2>2, KeepCount
<1>19. ASSUME ZcuTask PROVE WaitGroupExact'
  <2>1. LiveItems' = LiveItems /\ LiveCodegen' = LiveCodegen
    BY <1>19 DEF ZcuTask, IsPending, LiveItems, LiveCodegen, TypeOK, WorkerType
  <2>2. wg' = wg + (flush_jobs' - flush_jobs) + (LinkBusy' - LinkBusy)
    BY <1>19 DEF ZcuTask, IsPending, poolVars, linkVars, mainVars, runVars, LinkBusy,
       TypeOK, RunType
  <2> QED
    BY <2>1, <2>2, KeepCount
<1>20. ASSUME ZcuLock PROVE WaitGroupExact'
  <2>1. LiveItems' = LiveItems /\ LiveCodegen' = LiveCodegen
    BY <1>20 DEF ZcuLock, LinkReturn, IsPending, LiveItems, LiveCodegen, TypeOK, WorkerType
  <2>2. wg' = wg + (flush_jobs' - flush_jobs) + (LinkBusy' - LinkBusy)
    BY <1>20 DEF ZcuLock, LinkReturn, IsPending, poolVars, linkVars, mainVars, runVars,
       LinkBusy, TypeOK, RunType
  <2> QED
    BY <2>1, <2>2, KeepCount
<1>21. ASSUME ZcuRun PROVE WaitGroupExact'
  <2>1. LiveItems' = LiveItems /\ LiveCodegen' = LiveCodegen
    BY <1>21 DEF ZcuRun, Advance, NextZcu, LiveItems, LiveCodegen, TypeOK, WorkerType
  <2>2. wg' = wg + (flush_jobs' - flush_jobs) + (LinkBusy' - LinkBusy)
    BY <1>21 DEF ZcuRun, Advance, NextZcu, poolVars, linkVars, mainVars, runVars,
       LinkBusy, TypeOK, RunType
  <2> QED
    BY <2>1, <2>2, KeepCount
<1>22. ASSUME ZcuDec PROVE WaitGroupExact'
  <2>1. LiveItems' = LiveItems /\ LiveCodegen' = LiveCodegen
    BY <1>22 DEF ZcuDec, Advance, NextZcu, SignalsAir, LiveItems, LiveCodegen, TypeOK,
       WorkerType
  <2>2. wg' = wg + (flush_jobs' - flush_jobs) + (LinkBusy' - LinkBusy)
    BY <1>22 DEF ZcuDec, Advance, NextZcu, SignalsAir, poolVars, linkVars, mainVars,
       runVars, LinkBusy, TypeOK, RunType
  <2> QED
    BY <2>1, <2>2, KeepCount
<1>23. ASSUME NEW more \in BOOLEAN, DoIdleTask(more) PROVE WaitGroupExact'
  <2>1. LiveItems' = LiveItems /\ LiveCodegen' = LiveCodegen
    BY <1>23 DEF DoIdleTask, LiveItems, LiveCodegen, TypeOK, WorkerType
  <2>2. wg' = wg + (flush_jobs' - flush_jobs) + (LinkBusy' - LinkBusy)
    BY <1>23 DEF DoIdleTask, poolVars, linkVars, mainVars, runVars, LinkBusy, TypeOK,
       RunType
  <2> QED
    BY <2>1, <2>2, KeepCount
<1>24. CASE UNCHANGED <<wg, flush_jobs, lpc, item, cg>>
  <2>1. LiveItems' = LiveItems /\ LiveCodegen' = LiveCodegen /\ LinkBusy' = LinkBusy
    BY <1>24 DEF LiveItems, LiveCodegen, LinkBusy
  <2>2. wg' = wg + (flush_jobs' - flush_jobs) + (LinkBusy' - LinkBusy)
    BY <1>24, <2>1 DEF TypeOK, RunType, LinkBusy
  <2> QED
    BY <2>1, <2>2, KeepCount
<1>25. FinishItems \/ GiveUp \/ Dispatch \/ EnqueueZcu \/ AirWake \/
      DeinitTask \/ EndWork \/ Wait \/ Flush => UNCHANGED <<wg, flush_jobs,
      lpc, item, cg>>
  BY DEF FinishItems, FinishPrelinkItem, SetRunning, GiveUp, Dispatch,
    DispatchOther, EnqueueZcu, EnqueueSection, SleepForAir, AppendZcu,
    AppendFails, MustWait, CountAir, Restarts, IsPending, AirWake, DeinitTask,
    EndWork, Wait, Flush, preVars, zcuVars, airVars, runVars, poolVars,
    linkVars, mainVars
<1>26. UNCHANGED vars => UNCHANGED <<wg, flush_jobs, lpc, item, cg>>
  BY DEF vars, preVars, zcuVars, airVars, runVars, poolVars, linkVars, mainVars
<1>27. QED
  BY <1>1, <1>2, <1>3, <1>4, <1>5, <1>6, <1>7, <1>8, <1>9, <1>10, <1>11,
    <1>12, <1>13, <1>14, <1>15, <1>16, <1>17, <1>18, <1>19, <1>20, <1>21,
    <1>22, <1>23, <1>24, <1>25, <1>26
  DEF Next, MainNext, ItemNext, CodegenNext, LinkNext
LEMMA RunInvInit == Init => RunInv
<1> SUFFICES ASSUME Init PROVE RunInv
  OBVIOUS
<1>1. LiveItems = {} /\ LiveCodegen = {}
  BY DEF Init, LiveItems, LiveCodegen
<1>2. Cardinality(LiveItems) = 0 /\ Cardinality(LiveCodegen) = 0
  BY <1>1, FS_EmptySet
<1>3. WaitGroupExact
  BY <1>2 DEF Init, WaitGroupExact
<1>4. \A a \in Agents : ~Runs(a)
  BY AgentFacts, RunsFacts DEF Init
<1>5. SingleLinkThread
  BY <1>4 DEF Init, SingleLinkThread
<1>6. IdleQuiet /\ LeftFresh
  BY DEF Init, IdleQuiet, LeftFresh
<1> QED
  BY <1>3, <1>5, <1>6, TypeInit DEF RunInv

LEMMA RunInvNext == RunInv /\ [Next]_vars => RunInv'
<1> SUFFICES ASSUME RunInv, [Next]_vars PROVE RunInv'
  OBVIOUS
<1>1. TypeOK'
  BY TypeNext DEF RunInv
<1> QED
  BY <1>1, WaitGroupNext, SingleNext, IdleQuietNext, LeftFreshNext DEF RunInv

\* Spec => []RunInv: the invariant the theorems below read off
LEMMA RunInvAlways == Spec => []RunInv
BY RunInvInit, RunInvNext, PTL DEF Spec

\* "There must be at most one link thread active at a time" (Queue.zig): the
\* thread is queued, running, or owed by exactly one thread while `state` says
\* running, for any number of jobs, functions and updates (SingleLinkThread).
THEOREM OneLinkThread == Spec => []SingleLinkThread
<1>1. RunInv => SingleLinkThread
  BY DEF RunInv
<1> QED
  BY <1>1, RunInvAlways, PTL

\* link_task_wait_group counts exactly the live work, so the main thread's wait
\* returns only when no job and no link thread is left (WaitGroupExact).
THEOREM WaitGroupCorrect == Spec => []WaitGroupExact
<1>1. RunInv => WaitGroupExact
  BY DEF RunInv
<1> QED
  BY <1>1, RunInvAlways, PTL
-----------------------------------------------------------------------------

(***************************************************************************)
(* Prelink.  The count of prelink items is exact; once it is down to zero  *)
(* the link thread goes on to ZCU tasks and no input comes any more; and   *)
(* when the link thread is stopped, nothing it could do is left.           *)
(***************************************************************************)
Unfinished == {p \in PrelinkItems : item[p] \in {"running", "spawn_enqueue", "finish"}}

\* what the main thread itself holds of prelink_wait_count
Extra == prelink_wait_count - Cardinality(Unfinished)

\* no ZCU task is left to link
NoZcu == queued_zcu = <<>> /\ wip_zcu_idx = Len(wip_zcu)

ExtraInv ==
    /\ Extra \in {0, 1}
    /\ mpc = "items" => Extra = 1
    /\ Extra = 1 => mpc \in {"items", "wait", "flush", "idle"}

\* ZCU tasks wait neither before prelink is over nor when the link thread has stopped.
Drained == Extra = 1 \/ (state = "finished" /\ prelink_wait_count = 0) => NoZcu

PrelinkOver == prelink_wait_count = 0 /\ queued_prelink = <<>>
PrelinkDone ==
    lpc \in ZcuPcs \cup {"prelink_call"} \/ state = "wait_for_mir" => PrelinkOver

\* The link thread does not stop with inputs queued, nor drop those it has taken.
Delivered == state = "finished" /\ mpc # "idle" => queued_prelink = <<>>
WipHeld == wip_prelink # <<>> => lpc = "prelink_run"

\* A MIR that is pending has a worker, and so has the one that is waited for.
MirAwaited ==
    /\ state = "wait_for_mir" =>
          wait_for \in LinkFuncs /\ cg[wait_for] \in {"running", "stored"}
    /\ \A f \in LinkFuncs : mir[f] = "pending" => cg[f] = "running"

PreInv == ExtraInv /\ Drained /\ PrelinkDone /\ Delivered /\ WipHeld /\ MirAwaited

-----------------------------------------------------------------------------
LEMMA UnfinishedFinite ==
    /\ IsFiniteSet(Unfinished) /\ Cardinality(Unfinished) \in Nat
    /\ Cardinality(Unfinished) = 0 <=> Unfinished = {}
<1>1. IsFiniteSet(PrelinkItems)
  BY ConstantsAssumption DEF ConstantsAssumption
<1>2. IsFiniteSet(Unfinished)
  BY <1>1, FS_Subset DEF Unfinished
<1> QED
  BY <1>2, FS_CardinalityType, FS_EmptySet

LEMMA ExtraFacts ==
    ASSUME TypeOK
    PROVE  /\ Extra \in Int /\ prelink_wait_count \in Int /\ prelink_wait_count >= Extra
           /\ prelink_wait_count = Extra <=> Unfinished = {}
<1>1. prelink_wait_count \in Int
  BY DEF TypeOK, PrelinkType
<1>2. PICK n \in Nat : n = Cardinality(Unfinished)
  BY UnfinishedFinite
<1>3. Extra = prelink_wait_count - n
  BY <1>2 DEF Extra
<1>4. n = 0 <=> Unfinished = {}
  BY <1>2, UnfinishedFinite
<1> QED
  BY <1>1, <1>3, <1>4

LEMMA ExtraSame ==
    ASSUME Unfinished' = Unfinished, prelink_wait_count' = prelink_wait_count
    PROVE  Extra' = Extra
BY DEF Extra

\* While an item is unfinished, or the main thread may start one, prelink is not over.
LEMMA CountPositive ==
    ASSUME TypeOK, ExtraInv
    PROVE  /\ prelink_wait_count \in Int /\ prelink_wait_count >= 0
           /\ mpc = "items" => prelink_wait_count > 0
           /\ \A p \in Unfinished : prelink_wait_count > 0
           /\ mpc = "items" /\ prelink_wait_count = 1 => Unfinished = {}
BY ExtraFacts DEF ExtraInv

\* What SingleLinkThread says of the program counters.
LEMMA RunnerFacts ==
    ASSUME SingleLinkThread
    PROVE  /\ lpc # "idle" => state = "running" /\ mpc # "spawn" /\ ~(flush_jobs > 0)
                              /\ \A f \in LinkFuncs : cg[f] # "spawn"
           /\ flush_jobs > 0 => state = "running" /\ lpc = "idle"
           /\ mpc = "spawn" => state = "running" /\ lpc = "idle"
           /\ \A f \in LinkFuncs : cg[f] = "spawn" => state = "running" /\ lpc = "idle"
           /\ state = "running" => \E a \in Agents : Runs(a)
<1>1. \A f \in LinkFuncs : Runs(<<"codegen", f>>) => ~Runs(<<"link", NoTask>>)
  BY AgentFacts DEF SingleLinkThread
<1>2. ~(Runs(<<"pool", NoTask>>) /\ Runs(<<"link", NoTask>>))
  BY AgentFacts DEF SingleLinkThread
<1>3. ~(Runs(<<"main", NoTask>>) /\ Runs(<<"link", NoTask>>))
  BY AgentFacts DEF SingleLinkThread
<1>4. \A a \in Agents : Runs(a) => state = "running"
  BY DEF SingleLinkThread
<1> QED
  BY <1>1, <1>2, <1>3, <1>4, AgentFacts, RunsFacts DEF SingleLinkThread

\* Between updates nothing runs, and nothing is left to do.
LEMMA Rested ==
    ASSUME RunInv, ExtraInv, Drained, MirAwaited, mpc \in {"idle", "flush"}
    PROVE  /\ state = "finished" /\ NoZcu /\ Unfinished = {}
           /\ flush_jobs = 0 /\ lpc = "idle"
           /\ \A f \in LinkFuncs : cg[f] \in {"none", "done"}
<1>1. flush_jobs = 0 /\ lpc = "idle" /\ LiveItems = {} /\ LiveCodegen = {}
  BY Quiet DEF RunInv, IdleQuiet
<1>2. \A p \in PrelinkItems : item[p] \in {"none", "done"}
  BY <1>1 DEF LiveItems
<1>3. \A f \in LinkFuncs : cg[f] \in {"none", "done"}
  BY <1>1 DEF LiveCodegen
<1>4. Unfinished = {}
  BY <1>2 DEF Unfinished
<1>5. \A a \in Agents : ~Runs(a)
  BY <1>1, <1>2, <1>3, AgentFacts, RunsFacts
<1>6. state # "running"
  BY <1>5 DEF RunInv, SingleLinkThread
<1>7. state # "wait_for_mir"
  BY <1>3 DEF MirAwaited
<1>8. state = "finished"
  BY <1>6, <1>7 DEF RunInv, TypeOK, RunType
<1>9. Extra = 1 \/ prelink_wait_count = 0
  BY <1>4, ExtraFacts DEF RunInv, ExtraInv
<1> QED
  BY <1>1, <1>3, <1>4, <1>8, <1>9 DEF Drained

-----------------------------------------------------------------------------
\* The main thread holds one of the count from start until finishPrelinkItem.
LEMMA StartExtra == ASSUME RunInv, Start PROVE Extra' = 1
<1>1. item' = [p \in PrelinkItems |-> "none"] /\ prelink_wait_count' = 1
  BY DEF Start
<1>2. Unfinished' = {}
  BY <1>1 DEF Unfinished
<1>3. Cardinality(Unfinished') = 0
  BY <1>2, FS_EmptySet
<1> QED
  BY <1>1, <1>3 DEF Extra

LEMMA FinishItemsExtra == ASSUME RunInv, FinishItems PROVE Extra' = Extra - 1
<1>1. item' = item /\ prelink_wait_count' = prelink_wait_count - 1
  BY DEF FinishItems, FinishPrelinkItem
<1>2. Unfinished' = Unfinished
  BY <1>1 DEF Unfinished
<1>3. PICK n \in Nat : n = Cardinality(Unfinished)
  BY UnfinishedFinite
<1>4. prelink_wait_count \in Int
  BY DEF RunInv, TypeOK, PrelinkType
<1>5. Extra = prelink_wait_count - n /\ Extra' = prelink_wait_count - 1 - n
  BY <1>1, <1>2, <1>3 DEF Extra
<1> QED
  BY <1>4, <1>5

LEMMA StartItemExtra ==
    ASSUME RunInv, NEW p \in PrelinkItems, StartPrelinkItem(p) PROVE Extra' = Extra
<1>1. item' = [item EXCEPT ![p] = "running"] /\ item[p] = "none"
  BY DEF StartPrelinkItem
<1>2. prelink_wait_count' = prelink_wait_count + 1 /\ prelink_wait_count \in Int
  BY DEF StartPrelinkItem, RunInv, TypeOK, PrelinkType
<1>3. Unfinished' = Unfinished \cup {p} /\ p \notin Unfinished
  BY <1>1 DEF Unfinished, RunInv, TypeOK, WorkerType
<1>4. PICK n \in Nat : n = Cardinality(Unfinished)
  BY UnfinishedFinite
<1>5. Cardinality(Unfinished') = n + 1
  BY <1>3, <1>4, UnfinishedFinite, CountAdd
<1>6. Extra = prelink_wait_count - n /\ Extra' = prelink_wait_count' - (n + 1)
  BY <1>4, <1>5 DEF Extra
<1> QED
  BY <1>2, <1>6

LEMMA ItemFinishExtra ==
    ASSUME RunInv, NEW p \in PrelinkItems, ItemFinish(p) PROVE Extra' = Extra
<1>1. PICK to \in {"spawn_finish", "exit"} :
         item' = [item EXCEPT ![p] = to] /\ item[p] = "finish"
  BY DEF ItemFinish
<1>2. prelink_wait_count' = prelink_wait_count - 1 /\ prelink_wait_count \in Int
  BY DEF ItemFinish, FinishPrelinkItem, RunInv, TypeOK, PrelinkType
<1>3. Unfinished' = Unfinished \ {p} /\ p \in Unfinished
  BY <1>1 DEF Unfinished, RunInv, TypeOK, WorkerType
<1>4. PICK n \in Nat : n = Cardinality(Unfinished)
  BY UnfinishedFinite
<1>5. Cardinality(Unfinished') = n - 1
  BY <1>3, <1>4, UnfinishedFinite, CountRemove
<1>6. Extra = prelink_wait_count - n /\ Extra' = prelink_wait_count' - (n - 1)
  BY <1>4, <1>5 DEF Extra
<1> QED
  BY <1>2, <1>6


LEMMA ExtraNext == RunInv /\ [Next]_vars => (Start \/ FinishItems \/ Extra' = Extra)
<1> SUFFICES ASSUME RunInv, [Next]_vars PROVE (Start \/ FinishItems \/ Extra' = Extra)
  OBVIOUS
<1>1. ASSUME Start PROVE (Start \/ FinishItems \/ Extra' = Extra)
  BY <1>1
<1>2. ASSUME FinishItems PROVE (Start \/ FinishItems \/ Extra' = Extra)
  BY <1>2
<1>3. ASSUME NEW p \in PrelinkItems, StartPrelinkItem(p) PROVE (Start \/ FinishItems \/ Extra' = Extra)
  BY <1>3, StartItemExtra
<1>4. ASSUME NEW p \in PrelinkItems, EnqueuePrelink(p) PROVE (Start \/ FinishItems \/ Extra' = Extra)
  <2>1. prelink_wait_count' = prelink_wait_count
    BY <1>4 DEF EnqueuePrelink, preVars
  <2>2. Unfinished' = Unfinished
    BY <1>4 DEF EnqueuePrelink, SetRunning, Unfinished, RunInv, TypeOK, WorkerType
  <2> QED
    BY <2>1, <2>2, ExtraSame
<1>5. ASSUME NEW p \in PrelinkItems, NoPrelinkOutput(p) PROVE (Start \/ FinishItems \/ Extra' = Extra)
  <2>1. prelink_wait_count' = prelink_wait_count
    BY <1>5 DEF NoPrelinkOutput, preVars
  <2>2. Unfinished' = Unfinished
    BY <1>5 DEF NoPrelinkOutput, Unfinished, RunInv, TypeOK, WorkerType
  <2> QED
    BY <2>1, <2>2, ExtraSame
<1>6. ASSUME NEW p \in PrelinkItems, ItemSpawn(p) PROVE (Start \/ FinishItems \/ Extra' = Extra)
  <2>1. prelink_wait_count' = prelink_wait_count
    BY <1>6 DEF ItemSpawn, preVars
  <2>2. Unfinished' = Unfinished
    BY <1>6 DEF ItemSpawn, SpawnFlush, Unfinished, RunInv, TypeOK, WorkerType
  <2> QED
    BY <2>1, <2>2, ExtraSame
<1>7. ASSUME NEW p \in PrelinkItems, ItemFinish(p) PROVE (Start \/ FinishItems \/ Extra' = Extra)
  BY <1>7, ItemFinishExtra
<1>8. ASSUME NEW p \in PrelinkItems, ItemExit(p) PROVE (Start \/ FinishItems \/ Extra' = Extra)
  <2>1. prelink_wait_count' = prelink_wait_count
    BY <1>8 DEF ItemExit, preVars
  <2>2. Unfinished' = Unfinished
    BY <1>8 DEF ItemExit, Unfinished, RunInv, TypeOK, WorkerType
  <2> QED
    BY <2>1, <2>2, ExtraSame
<1>9. CASE UNCHANGED <<prelink_wait_count, item>>
  BY <1>9, ExtraSame DEF Unfinished
<1>10. GiveUp \/ Dispatch \/ CodegenFunc \/ EnqueueZcu \/ AirWake \/
      DeinitTask \/ MainSpawn \/ EndWork \/ Wait => UNCHANGED
      <<prelink_wait_count, item>>
  BY DEF GiveUp, Dispatch, DispatchOther, CodegenFunc, DispatchFunc,
    EnqueueZcu, EnqueueSection, SleepForAir, AppendZcu, AppendFails, MustWait,
    CountAir, Restarts, SetRunning, IsPending, AirWake, DeinitTask, MainSpawn,
    SpawnFlush, EndWork, Wait, preVars, zcuVars, airVars, runVars, poolVars,
    linkVars, mainVars
<1>11. Flush \/ (\E f \in LinkFuncs : CodegenStore(f)) \/
      (\E f \in LinkFuncs : MirReady(f)) \/
      (\E f \in LinkFuncs : CodegenSpawn(f)) \/
      (\E f \in LinkFuncs : CodegenExit(f)) \/ FlushStart \/ PrelinkSwap \/
      PrelinkRun \/ PrelinkCall => UNCHANGED <<prelink_wait_count, item>>
  BY DEF Flush, CodegenStore, MirReady, SetRunning, CodegenSpawn, SpawnFlush,
    CodegenExit, FlushStart, PrelinkSwap, LinkReturn, PrelinkRun, PrelinkCall,
    NextZcu, preVars, zcuVars, airVars, runVars, poolVars, linkVars, mainVars
<1>12. ZcuSwap \/ ZcuTask \/ ZcuLock \/ ZcuRun \/ ZcuDec \/
      (\E more \in BOOLEAN : DoIdleTask(more)) => UNCHANGED
      <<prelink_wait_count, item>>
  BY DEF ZcuSwap, LinkReturn, ZcuTask, IsPending, ZcuLock, ZcuRun, Advance,
    NextZcu, ZcuDec, SignalsAir, DoIdleTask, preVars, zcuVars, airVars,
    runVars, poolVars, linkVars, mainVars
<1>13. UNCHANGED vars => UNCHANGED <<prelink_wait_count, item>>
  BY DEF vars, preVars, zcuVars, airVars, runVars, poolVars, linkVars, mainVars
<1>14. QED
  BY <1>1, <1>2, <1>3, <1>4, <1>5, <1>6, <1>7, <1>8, <1>9, <1>10, <1>11,
    <1>12, <1>13
  DEF Next, MainNext, ItemNext, CodegenNext, LinkNext

LEMMA ExtraInvNext == RunInv /\ ExtraInv /\ [Next]_vars => ExtraInv'
<1> SUFFICES ASSUME RunInv, ExtraInv, [Next]_vars PROVE ExtraInv'
  OBVIOUS
<1> USE DEF ExtraInv
<1>1. ASSUME Start PROVE ExtraInv'
  BY <1>1, StartExtra DEF Start
<1>2. ASSUME FinishItems PROVE ExtraInv'
  BY <1>2, FinishItemsExtra DEF FinishItems
<1>3. ASSUME GiveUp PROVE ExtraInv'
  <2>1. ~Start /\ ~FinishItems
    BY <1>3 DEF Start, FinishItems, GiveUp
  <2> QED
    BY <1>3, <2>1, ExtraNext DEF GiveUp
<1>4. ASSUME Dispatch PROVE ExtraInv'
  <2>1. ~Start /\ ~FinishItems
    BY <1>4 DEF Start, FinishItems, Dispatch, DispatchOther
  <2> QED
    BY <1>4, <2>1, ExtraNext DEF Dispatch, DispatchOther
<1>5. ASSUME CodegenFunc PROVE ExtraInv'
  <2>1. ~Start /\ ~FinishItems
    BY <1>5 DEF Start, FinishItems, CodegenFunc, DispatchFunc
  <2> QED
    BY <1>5, <2>1, ExtraNext DEF CodegenFunc, DispatchFunc
<1>6. ASSUME EnqueueZcu \/ AirWake PROVE ExtraInv'
  <2>1. ~Start /\ ~FinishItems
    BY <1>6 DEF Start, FinishItems, EnqueueZcu, EnqueueSection, SleepForAir, AppendZcu,
       AppendFails, MustWait, CountAir, Restarts, SetRunning, IsPending, AirWake
  <2> QED
    BY <1>6, <2>1, ExtraNext DEF EnqueueZcu, EnqueueSection, SleepForAir, AppendZcu,
       AppendFails, MustWait, CountAir, Restarts, SetRunning, IsPending, AirWake
<1>7. ASSUME DeinitTask PROVE ExtraInv'
  <2>1. ~Start /\ ~FinishItems
    BY <1>7 DEF Start, FinishItems, DeinitTask, IsPending
  <2> QED
    BY <1>7, <2>1, ExtraNext DEF DeinitTask, IsPending
<1>8. ASSUME MainSpawn PROVE ExtraInv'
  <2>1. ~Start /\ ~FinishItems
    BY <1>8 DEF Start, FinishItems, MainSpawn, SpawnFlush
  <2> QED
    BY <1>8, <2>1, ExtraNext DEF MainSpawn, SpawnFlush
<1>9. ASSUME EndWork PROVE ExtraInv'
  <2>1. ~Start /\ ~FinishItems
    BY <1>9 DEF Start, FinishItems, EndWork
  <2> QED
    BY <1>9, <2>1, ExtraNext DEF EndWork
<1>10. ASSUME Wait PROVE ExtraInv'
  <2>1. ~Start /\ ~FinishItems
    BY <1>10 DEF Start, FinishItems, Wait
  <2> QED
    BY <1>10, <2>1, ExtraNext DEF Wait
<1>11. ASSUME Flush PROVE ExtraInv'
  <2>1. ~Start /\ ~FinishItems
    BY <1>11 DEF Start, FinishItems, Flush
  <2> QED
    BY <1>11, <2>1, ExtraNext DEF Flush
<1>12. CASE UNCHANGED <<mpc>>
  BY <1>12, ExtraNext DEF Start, FinishItems
<1>13. (\E p \in PrelinkItems : StartPrelinkItem(p)) \/
      (\E p \in PrelinkItems : EnqueuePrelink(p)) \/
      (\E p \in PrelinkItems : NoPrelinkOutput(p)) \/
      (\E p \in PrelinkItems : ItemSpawn(p)) \/
      (\E p \in PrelinkItems : ItemFinish(p)) \/
      (\E p \in PrelinkItems : ItemExit(p)) \/
      (\E f \in LinkFuncs : CodegenStore(f)) \/
      (\E f \in LinkFuncs : MirReady(f)) \/
      (\E f \in LinkFuncs : CodegenSpawn(f)) => UNCHANGED <<mpc>>
  BY DEF StartPrelinkItem, EnqueuePrelink, SetRunning, NoPrelinkOutput,
    ItemSpawn, SpawnFlush, ItemFinish, FinishPrelinkItem, ItemExit,
    CodegenStore, MirReady, CodegenSpawn, preVars, zcuVars, airVars, runVars,
    poolVars, linkVars, mainVars
<1>14. (\E f \in LinkFuncs : CodegenExit(f)) \/ FlushStart \/ PrelinkSwap \/
      PrelinkRun \/ PrelinkCall \/ ZcuSwap \/ ZcuTask \/ ZcuLock \/ ZcuRun =>
      UNCHANGED <<mpc>>
  BY DEF CodegenExit, FlushStart, PrelinkSwap, LinkReturn, PrelinkRun,
    PrelinkCall, NextZcu, ZcuSwap, ZcuTask, IsPending, ZcuLock, ZcuRun,
    Advance, preVars, zcuVars, airVars, runVars, poolVars, linkVars, mainVars
<1>15. ZcuDec \/ (\E more \in BOOLEAN : DoIdleTask(more)) => UNCHANGED <<mpc>>
  BY DEF ZcuDec, Advance, NextZcu, SignalsAir, DoIdleTask, preVars, zcuVars,
    airVars, runVars, poolVars, linkVars, mainVars
<1>16. UNCHANGED vars => UNCHANGED <<mpc>>
  BY DEF vars, preVars, zcuVars, airVars, runVars, poolVars, linkVars, mainVars
<1>17. QED
  BY <1>1, <1>2, <1>3, <1>4, <1>5, <1>6, <1>7, <1>8, <1>9, <1>10, <1>11,
    <1>12, <1>13, <1>14, <1>15, <1>16
  DEF Next, MainNext, ItemNext, CodegenNext, LinkNext

LEMMA DrainedNext == RunInv /\ PreInv /\ [Next]_vars => Drained'
<1> SUFFICES ASSUME RunInv, PreInv, [Next]_vars PROVE Drained'
  OBVIOUS
<1> USE DEF PreInv
<1>1. ASSUME Start PROVE Drained'
  <2>1. NoZcu
    BY <1>1, Rested DEF Start
  <2> QED
    BY <1>1, <2>1 DEF Start, NoZcu, Drained
<1>2. ASSUME FinishItems PROVE Drained'
  <2>1. ~NoZcu => Extra # 1
    BY DEF Drained
  <2>2. Extra = 1 /\ NoZcu
    BY <1>2, <2>1 DEF FinishItems, ExtraInv
  <2> QED
    BY <1>2, <2>2 DEF FinishItems, NoZcu, zcuVars, Drained
<1>3. ASSUME NEW p \in PrelinkItems, StartPrelinkItem(p) PROVE Drained'
  <2>1. Extra = 1 /\ NoZcu
    BY <1>3 DEF StartPrelinkItem, ExtraInv, Drained
  <2> QED
    BY <1>3, <2>1 DEF StartPrelinkItem, NoZcu, zcuVars, Drained
<1>4. ASSUME EnqueueZcu \/ AirWake PROVE Drained'
  <2>1. Extra # 1 /\ Extra' = Extra
    BY <1>4, ExtraNext DEF EnqueueZcu, AirWake, Start, FinishItems, ExtraInv
  <2>2. CASE AppendZcu(cur)
    <3>1. prelink_wait_count' = prelink_wait_count
      BY <1>4 DEF EnqueueZcu, AirWake, EnqueueSection, SleepForAir, AppendZcu,
         AppendFails, Restarts, SetRunning, runVars, zcuVars, preVars, linkVars
    <3>2. state = "finished" /\ prelink_wait_count = 0 => state' # "finished"
      BY <2>2 DEF AppendZcu, Restarts, SetRunning
    <3>3. state # "finished" \/ prelink_wait_count # 0 => state' = state
      BY <2>2 DEF AppendZcu, Restarts, runVars
    <3> QED
      BY <2>1, <3>1, <3>2, <3>3 DEF Drained
  <2>3. CASE ~AppendZcu(cur)
    BY <1>4, <2>1, <2>3 DEF EnqueueZcu, AirWake, EnqueueSection, SleepForAir, AppendZcu,
       AppendFails, Restarts, SetRunning, runVars, zcuVars, preVars, linkVars, Drained,
       NoZcu
  <2> QED
    BY <2>2, <2>3
<1>5. ASSUME NEW p \in PrelinkItems, EnqueuePrelink(p) PROVE Drained'
  <2>1. Extra' = Extra
    BY <1>5, ExtraNext DEF EnqueuePrelink, Start, FinishItems, mainVars
  <2> QED
    BY <1>5, <2>1 DEF EnqueuePrelink, SetRunning, runVars, Drained, NoZcu, zcuVars
<1>6. ASSUME NEW p \in PrelinkItems, ItemFinish(p) PROVE Drained'
  <2>1. Extra' = Extra
    BY <1>6, ItemFinishExtra
  <2>2. prelink_wait_count' = 0 => state' # "finished"
    BY <1>6 DEF ItemFinish, FinishPrelinkItem, SetRunning, runVars
  <2>3. NoZcu' <=> NoZcu
    BY <1>6 DEF ItemFinish, NoZcu, zcuVars
  <2> QED
    BY <2>1, <2>2, <2>3 DEF Drained
<1>7. ASSUME NEW f \in LinkFuncs, MirReady(f) PROVE Drained'
  <2>1. Extra' = Extra
    BY <1>7, ExtraNext DEF MirReady, Start, FinishItems, mainVars
  <2> QED
    BY <1>7, <2>1 DEF MirReady, SetRunning, runVars, Drained, NoZcu, zcuVars, preVars
<1>8. ASSUME PrelinkSwap PROVE Drained'
  <2>1. Extra' = Extra
    BY <1>8, ExtraNext DEF PrelinkSwap, Start, FinishItems, mainVars
  <2>2. prelink_wait_count' = prelink_wait_count /\ (NoZcu' <=> NoZcu)
    BY <1>8 DEF PrelinkSwap, NoZcu, zcuVars
  <2>3. state' = "finished" => prelink_wait_count > 0 \/ state = "finished"
    BY <1>8 DEF PrelinkSwap, LinkReturn, runVars
  <2> QED
    BY <2>1, <2>2, <2>3, CountPositive DEF Drained, RunInv
<1>9. ASSUME ZcuSwap PROVE Drained'
  <2>1. Extra' = Extra
    BY <1>9, ExtraNext DEF ZcuSwap, Start, FinishItems, mainVars
  <2>2. prelink_wait_count' = prelink_wait_count
    BY <1>9 DEF ZcuSwap, preVars
  <2>3. state' = "finished" => state = "finished" \/ queued_zcu = <<>>
    BY <1>9 DEF ZcuSwap, LinkReturn, runVars
  <2>4. queued_zcu = <<>> => NoZcu'
    BY <1>9 DEF ZcuSwap, NoZcu
  <2>5. NoZcu => queued_zcu = <<>>
    BY DEF NoZcu
  <2> QED
    BY <2>1, <2>2, <2>3, <2>4, <2>5 DEF Drained
<1>10. ASSUME ZcuLock PROVE Drained'
  <2>1. Extra' = Extra
    BY <1>10, ExtraNext DEF ZcuLock, Start, FinishItems, mainVars
  <2> QED
    BY <1>10, <2>1 DEF ZcuLock, LinkReturn, runVars, Drained, NoZcu, zcuVars, preVars
<1>11. ASSUME ZcuRun PROVE Drained'
  <2>1. Extra' = Extra
    BY <1>11, ExtraNext DEF ZcuRun, Start, FinishItems, mainVars
  <2>2. wip_zcu_idx < Len(wip_zcu)
    BY <1>11 DEF ZcuRun, RunInv, TypeOK, LinkType, TaskPcs
  <2>3. ~NoZcu
    BY <2>2 DEF NoZcu, RunInv, TypeOK, ZcuType
  <2> QED
    BY <1>11, <2>1, <2>3 DEF ZcuRun, Drained, runVars, preVars
<1>12. ASSUME ZcuDec PROVE Drained'
  <2>1. Extra' = Extra
    BY <1>12, ExtraNext DEF ZcuDec, Start, FinishItems, mainVars
  <2>2. wip_zcu_idx < Len(wip_zcu)
    BY <1>12 DEF ZcuDec, RunInv, TypeOK, LinkType, TaskPcs
  <2>3. ~NoZcu
    BY <2>2 DEF NoZcu, RunInv, TypeOK, ZcuType
  <2> QED
    BY <1>12, <2>1, <2>3 DEF ZcuDec, Drained, runVars, preVars
<1>13. CASE UNCHANGED <<prelink_wait_count, queued_zcu, wip_zcu, wip_zcu_idx, state>>
  <2>1. Extra' = Extra \/ Start \/ FinishItems
    BY ExtraNext
  <2> QED
    BY <1>13, <2>1, <1>1, <1>2 DEF Drained, NoZcu
<1>14. GiveUp \/ Dispatch \/ CodegenFunc \/ DeinitTask \/ MainSpawn \/ EndWork
      \/ Wait \/ Flush \/ (\E p \in PrelinkItems : NoPrelinkOutput(p)) =>
      UNCHANGED <<prelink_wait_count, queued_zcu, wip_zcu, wip_zcu_idx,
      state>>
  BY DEF GiveUp, Dispatch, DispatchOther, CodegenFunc, DispatchFunc,
    DeinitTask, IsPending, MainSpawn, SpawnFlush, EndWork, Wait, Flush,
    NoPrelinkOutput, preVars, zcuVars, airVars, runVars, poolVars, linkVars,
    mainVars
<1>15. (\E p \in PrelinkItems : ItemSpawn(p)) \/
      (\E p \in PrelinkItems : ItemExit(p)) \/
      (\E f \in LinkFuncs : CodegenStore(f)) \/
      (\E f \in LinkFuncs : CodegenSpawn(f)) \/
      (\E f \in LinkFuncs : CodegenExit(f)) \/ FlushStart \/ PrelinkRun \/
      PrelinkCall \/ ZcuTask => UNCHANGED <<prelink_wait_count, queued_zcu,
      wip_zcu, wip_zcu_idx, state>>
  BY DEF ItemSpawn, SpawnFlush, ItemExit, CodegenStore, CodegenSpawn,
    CodegenExit, FlushStart, PrelinkRun, PrelinkCall, NextZcu, ZcuTask,
    IsPending, preVars, zcuVars, airVars, runVars, poolVars, linkVars,
    mainVars
<1>16. (\E more \in BOOLEAN : DoIdleTask(more)) => UNCHANGED
      <<prelink_wait_count, queued_zcu, wip_zcu, wip_zcu_idx, state>>
  BY DEF DoIdleTask, preVars, zcuVars, airVars, runVars, poolVars, linkVars,
    mainVars
<1>17. UNCHANGED vars => UNCHANGED <<prelink_wait_count, queued_zcu, wip_zcu, wip_zcu_idx, state>>
  BY DEF vars, preVars, zcuVars, airVars, runVars, poolVars, linkVars, mainVars
<1>18. QED
  BY <1>1, <1>2, <1>3, <1>4, <1>5, <1>6, <1>7, <1>8, <1>9, <1>10, <1>11,
    <1>12, <1>13, <1>14, <1>15, <1>16, <1>17
  DEF Next, MainNext, ItemNext, CodegenNext, LinkNext

LEMMA PrelinkDoneNext == RunInv /\ PreInv /\ [Next]_vars => PrelinkDone'
<1> SUFFICES ASSUME RunInv, PreInv, [Next]_vars PROVE PrelinkDone'
  OBVIOUS
<1> USE DEF PreInv, PrelinkDone
<1>1. ASSUME Start PROVE PrelinkDone'
  <2>1. state = "finished" /\ lpc = "idle"
    BY <1>1, Rested DEF Start
  <2> QED
    BY <1>1, <2>1 DEF Start, SetRunning, runVars, linkVars, ZcuPcs
<1>2. ASSUME FinishItems PROVE PrelinkDone'
  <2>1. prelink_wait_count > 0
    BY <1>2, CountPositive DEF FinishItems, RunInv
  <2>2. lpc \notin ZcuPcs \cup {"prelink_call"} /\ state # "wait_for_mir"
    BY <2>1 DEF PrelinkDone, PrelinkOver
  <2> QED
    BY <1>2, <2>2 DEF FinishItems, FinishPrelinkItem, SetRunning, runVars, linkVars
<1>3. ASSUME NEW p \in PrelinkItems, StartPrelinkItem(p) PROVE PrelinkDone'
  <2>1. prelink_wait_count > 0
    BY <1>3, CountPositive DEF StartPrelinkItem, RunInv
  <2>2. lpc \notin ZcuPcs \cup {"prelink_call"} /\ state # "wait_for_mir"
    BY <2>1 DEF PrelinkDone, PrelinkOver
  <2> QED
    BY <1>3, <2>2 DEF StartPrelinkItem, runVars, linkVars
<1>4. ASSUME NEW p \in PrelinkItems, EnqueuePrelink(p) PROVE PrelinkDone'
  <2>1. p \in Unfinished
    BY <1>4 DEF EnqueuePrelink, Unfinished
  <2>2. prelink_wait_count > 0
    BY <2>1, CountPositive DEF RunInv
  <2>3. lpc \notin ZcuPcs \cup {"prelink_call"} /\ state # "wait_for_mir"
    BY <2>2 DEF PrelinkDone, PrelinkOver
  <2> QED
    BY <1>4, <2>3 DEF EnqueuePrelink, SetRunning, runVars, linkVars
<1>5. ASSUME NEW p \in PrelinkItems, ItemFinish(p) PROVE PrelinkDone'
  <2>1. p \in Unfinished
    BY <1>5 DEF ItemFinish, Unfinished
  <2>2. prelink_wait_count > 0
    BY <2>1, CountPositive DEF RunInv
  <2>3. lpc \notin ZcuPcs \cup {"prelink_call"} /\ state # "wait_for_mir"
    BY <2>2 DEF PrelinkDone, PrelinkOver
  <2> QED
    BY <1>5, <2>3 DEF ItemFinish, FinishPrelinkItem, SetRunning, runVars, linkVars
<1>6. ASSUME EnqueueZcu \/ AirWake PROVE PrelinkDone'
  <2>1. lpc' = lpc /\ UNCHANGED preVars /\ mpc # "idle"
    BY <1>6 DEF EnqueueZcu, AirWake, EnqueueSection, SleepForAir, AppendZcu,
       AppendFails, Restarts, SetRunning, runVars, zcuVars, preVars, linkVars
  <2>2. state' = "wait_for_mir" /\ state # "wait_for_mir" =>
           state = "finished" /\ prelink_wait_count = 0
    BY <1>6 DEF EnqueueZcu, AirWake, EnqueueSection, SleepForAir, AppendZcu,
       AppendFails, Restarts, SetRunning, runVars, zcuVars, preVars, linkVars
  <2>3. PrelinkOver' <=> PrelinkOver
    BY <2>1 DEF PrelinkOver, preVars
  <2> QED
    BY <2>1, <2>2, <2>3 DEF PrelinkOver, Delivered
<1>7. ASSUME NEW f \in LinkFuncs, MirReady(f) PROVE PrelinkDone'
  BY <1>7 DEF MirReady, SetRunning, runVars, preVars, linkVars, PrelinkOver
<1>8. ASSUME FlushStart PROVE PrelinkDone'
  BY <1>8 DEF FlushStart, runVars, preVars, PrelinkOver, ZcuPcs
<1>9. ASSUME PrelinkSwap PROVE PrelinkDone'
  <2>1. wip_prelink = <<>> /\ state = "running"
    BY <1>9, RunnerFacts DEF PrelinkSwap, WipHeld, RunInv
  <2>2. lpc' = "prelink_call" => PrelinkOver'
    BY <1>9, <2>1 DEF PrelinkSwap, LinkReturn, PrelinkOver
  <2> QED
    BY <1>9, <2>1, <2>2 DEF PrelinkSwap, LinkReturn, runVars, ZcuPcs
<1>10. ASSUME PrelinkRun PROVE PrelinkDone'
  <2>1. state = "running"
    BY <1>10, RunnerFacts DEF PrelinkRun, RunInv
  <2> QED
    BY <1>10, <2>1 DEF PrelinkRun, runVars, ZcuPcs
<1>11. ASSUME PrelinkCall PROVE PrelinkDone'
  <2>1. PrelinkOver
    BY <1>11 DEF PrelinkCall, ZcuPcs
  <2> QED
    BY <1>11, <2>1 DEF PrelinkCall, preVars, PrelinkOver
<1>12. ASSUME ZcuSwap PROVE PrelinkDone'
  <2>1. PrelinkOver
    BY <1>12 DEF ZcuSwap, ZcuPcs
  <2> QED
    BY <1>12, <2>1 DEF ZcuSwap, preVars, PrelinkOver
<1>13. ASSUME ZcuTask PROVE PrelinkDone'
  <2>1. PrelinkOver
    BY <1>13 DEF ZcuTask, ZcuPcs
  <2> QED
    BY <1>13, <2>1 DEF ZcuTask, preVars, PrelinkOver
<1>14. ASSUME ZcuLock PROVE PrelinkDone'
  <2>1. PrelinkOver
    BY <1>14 DEF ZcuLock, ZcuPcs
  <2> QED
    BY <1>14, <2>1 DEF ZcuLock, preVars, PrelinkOver
<1>15. ASSUME ZcuRun PROVE PrelinkDone'
  <2>1. PrelinkOver
    BY <1>15 DEF ZcuRun, ZcuPcs
  <2> QED
    BY <1>15, <2>1 DEF ZcuRun, preVars, PrelinkOver
<1>16. ASSUME ZcuDec PROVE PrelinkDone'
  <2>1. PrelinkOver
    BY <1>16 DEF ZcuDec, ZcuPcs
  <2> QED
    BY <1>16, <2>1 DEF ZcuDec, preVars, PrelinkOver
<1>17. ASSUME NEW more \in BOOLEAN, DoIdleTask(more) PROVE PrelinkDone'
  <2>1. lpc' = "prelink_swap" \/ lpc = "zcu_idle"
    BY <1>17 DEF DoIdleTask
  <2>2. PrelinkOver' <=> PrelinkOver
    BY <1>17 DEF DoIdleTask, preVars, PrelinkOver
  <2> QED
    BY <1>17, <2>1, <2>2 DEF DoIdleTask, runVars, ZcuPcs
<1>18. CASE UNCHANGED <<preVars, state, lpc>>
  BY <1>18 DEF PrelinkOver, preVars
<1>19. GiveUp \/ Dispatch \/ CodegenFunc \/ DeinitTask \/ MainSpawn \/ EndWork
      \/ Wait \/ Flush \/ (\E p \in PrelinkItems : NoPrelinkOutput(p)) =>
      UNCHANGED <<preVars, state, lpc>>
  BY DEF GiveUp, Dispatch, DispatchOther, CodegenFunc, DispatchFunc,
    DeinitTask, IsPending, MainSpawn, SpawnFlush, EndWork, Wait, Flush,
    NoPrelinkOutput, preVars, zcuVars, airVars, runVars, poolVars, linkVars,
    mainVars
<1>20. (\E p \in PrelinkItems : ItemSpawn(p)) \/
      (\E p \in PrelinkItems : ItemExit(p)) \/
      (\E f \in LinkFuncs : CodegenStore(f)) \/
      (\E f \in LinkFuncs : CodegenSpawn(f)) \/
      (\E f \in LinkFuncs : CodegenExit(f)) => UNCHANGED <<preVars, state,
      lpc>>
  BY DEF ItemSpawn, SpawnFlush, ItemExit, CodegenStore, CodegenSpawn,
    CodegenExit, preVars, zcuVars, airVars, runVars, poolVars, linkVars,
    mainVars
<1>21. UNCHANGED vars => UNCHANGED <<preVars, state, lpc>>
  BY DEF vars, preVars, zcuVars, airVars, runVars, poolVars, linkVars, mainVars
<1>22. QED
  BY <1>1, <1>2, <1>3, <1>4, <1>5, <1>6, <1>7, <1>8, <1>9, <1>10, <1>11,
    <1>12, <1>13, <1>14, <1>15, <1>16, <1>17, <1>18, <1>19, <1>20, <1>21
  DEF Next, MainNext, ItemNext, CodegenNext, LinkNext

LEMMA DeliveredNext == RunInv /\ PreInv /\ [Next]_vars => Delivered'
<1> SUFFICES ASSUME RunInv, PreInv, [Next]_vars PROVE Delivered'
  OBVIOUS
<1> USE DEF PreInv, Delivered
<1>1. ASSUME Start PROVE Delivered'
  <2>1. state = "finished"
    BY <1>1, Rested DEF Start
  <2> QED
    BY <1>1, <2>1 DEF Start, SetRunning, runVars
<1>2. ASSUME FinishItems PROVE Delivered'
  BY <1>2 DEF FinishItems, FinishPrelinkItem, SetRunning, runVars, mainVars,
    preVars
<1>3. ASSUME GiveUp PROVE Delivered'
  BY <1>3 DEF GiveUp, runVars, mainVars, preVars
<1>4. ASSUME Dispatch PROVE Delivered'
  BY <1>4 DEF Dispatch, DispatchOther, runVars, mainVars, preVars
<1>5. ASSUME CodegenFunc PROVE Delivered'
  BY <1>5 DEF CodegenFunc, DispatchFunc, runVars, mainVars, preVars
<1>6. ASSUME EnqueueZcu \/ AirWake PROVE Delivered'
  BY <1>6 DEF EnqueueZcu, EnqueueSection, SleepForAir, AppendZcu, AppendFails,
    MustWait, CountAir, Restarts, SetRunning, IsPending, AirWake, runVars,
    mainVars, preVars
<1>7. ASSUME DeinitTask PROVE Delivered'
  BY <1>7 DEF DeinitTask, IsPending, runVars, mainVars, preVars
<1>8. ASSUME MainSpawn PROVE Delivered'
  BY <1>8 DEF MainSpawn, SpawnFlush, runVars, mainVars, preVars
<1>9. ASSUME EndWork PROVE Delivered'
  BY <1>9 DEF EndWork, runVars, mainVars, preVars
<1>10. ASSUME Wait PROVE Delivered'
  BY <1>10 DEF Wait, runVars, mainVars, preVars
<1>11. ASSUME Flush PROVE Delivered'
  BY <1>11 DEF Flush, runVars, mainVars, preVars
<1>12. ASSUME NEW p \in PrelinkItems, EnqueuePrelink(p) PROVE Delivered'
  BY <1>12 DEF EnqueuePrelink, SetRunning, runVars, mainVars
<1>13. ASSUME NEW p \in PrelinkItems, ItemFinish(p) PROVE Delivered'
  BY <1>13 DEF ItemFinish, FinishPrelinkItem, SetRunning, runVars, mainVars,
    preVars
<1>14. ASSUME NEW f \in LinkFuncs, MirReady(f) PROVE Delivered'
  BY <1>14 DEF MirReady, SetRunning, runVars, mainVars, preVars
<1>15. ASSUME PrelinkSwap PROVE Delivered'
  <2>1. wip_prelink = <<>> /\ state = "running"
    BY <1>15, RunnerFacts DEF PrelinkSwap, WipHeld, RunInv
  <2> QED
    BY <1>15, <2>1 DEF PrelinkSwap
<1>16. ASSUME ZcuSwap PROVE Delivered'
  <2>1. PrelinkOver
    BY <1>16 DEF ZcuSwap, PrelinkDone, ZcuPcs
  <2> QED
    BY <1>16, <2>1 DEF ZcuSwap, preVars, PrelinkOver
<1>17. ASSUME ZcuLock PROVE Delivered'
  <2>1. PrelinkOver
    BY <1>17 DEF ZcuLock, PrelinkDone, ZcuPcs
  <2> QED
    BY <1>17, <2>1 DEF ZcuLock, preVars, PrelinkOver
<1>18. CASE UNCHANGED <<queued_prelink, state, mpc>>
  BY <1>18
<1>19. (\E p \in PrelinkItems : StartPrelinkItem(p)) \/
      (\E p \in PrelinkItems : NoPrelinkOutput(p)) \/
      (\E p \in PrelinkItems : ItemSpawn(p)) \/
      (\E p \in PrelinkItems : ItemExit(p)) \/
      (\E f \in LinkFuncs : CodegenStore(f)) \/
      (\E f \in LinkFuncs : CodegenSpawn(f)) \/
      (\E f \in LinkFuncs : CodegenExit(f)) \/ FlushStart \/ PrelinkRun =>
      UNCHANGED <<queued_prelink, state, mpc>>
  BY DEF StartPrelinkItem, NoPrelinkOutput, ItemSpawn, SpawnFlush, ItemExit,
    CodegenStore, CodegenSpawn, CodegenExit, FlushStart, PrelinkRun, preVars,
    zcuVars, airVars, runVars, poolVars, linkVars, mainVars
<1>20. PrelinkCall \/ ZcuTask \/ ZcuRun \/ ZcuDec \/
      (\E more \in BOOLEAN : DoIdleTask(more)) => UNCHANGED <<queued_prelink,
      state, mpc>>
  BY DEF PrelinkCall, NextZcu, ZcuTask, IsPending, ZcuRun, Advance, ZcuDec,
    SignalsAir, DoIdleTask, preVars, zcuVars, airVars, runVars, poolVars,
    linkVars, mainVars
<1>21. UNCHANGED vars => UNCHANGED <<queued_prelink, state, mpc>>
  BY DEF vars, preVars, zcuVars, airVars, runVars, poolVars, linkVars, mainVars
<1>22. QED
  BY <1>1, <1>2, <1>3, <1>4, <1>5, <1>6, <1>7, <1>8, <1>9, <1>10, <1>11,
    <1>12, <1>13, <1>14, <1>15, <1>16, <1>17, <1>18, <1>19, <1>20, <1>21
  DEF Next, MainNext, ItemNext, CodegenNext, LinkNext

LEMMA WipHeldNext == RunInv /\ PreInv /\ [Next]_vars => WipHeld'
<1> SUFFICES ASSUME RunInv, PreInv, [Next]_vars PROVE WipHeld'
  OBVIOUS
<1> USE DEF PreInv, WipHeld
<1>1. ASSUME FlushStart PROVE WipHeld'
  BY <1>1 DEF FlushStart, preVars
<1>2. ASSUME PrelinkSwap PROVE WipHeld'
  BY <1>2 DEF PrelinkSwap, LinkReturn
<1>3. ASSUME PrelinkRun PROVE WipHeld'
  BY <1>3 DEF PrelinkRun
<1>4. ASSUME PrelinkCall PROVE WipHeld'
  BY <1>4 DEF PrelinkCall, preVars
<1>5. ASSUME ZcuSwap PROVE WipHeld'
  BY <1>5 DEF ZcuSwap, preVars
<1>6. ASSUME ZcuTask PROVE WipHeld'
  BY <1>6 DEF ZcuTask, preVars
<1>7. ASSUME ZcuLock PROVE WipHeld'
  BY <1>7 DEF ZcuLock, preVars
<1>8. ASSUME ZcuRun PROVE WipHeld'
  BY <1>8 DEF ZcuRun, preVars
<1>9. ASSUME ZcuDec PROVE WipHeld'
  BY <1>9 DEF ZcuDec, preVars
<1>10. ASSUME NEW more \in BOOLEAN, DoIdleTask(more) PROVE WipHeld'
  BY <1>10 DEF DoIdleTask, preVars
<1>11. CASE UNCHANGED <<wip_prelink, lpc>>
  BY <1>11
<1>12. Start \/ FinishItems \/ GiveUp \/ Dispatch \/ CodegenFunc \/ EnqueueZcu
      \/ AirWake \/ DeinitTask \/ MainSpawn => UNCHANGED <<wip_prelink, lpc>>
  BY DEF Start, SetRunning, FinishItems, FinishPrelinkItem, GiveUp, Dispatch,
    DispatchOther, CodegenFunc, DispatchFunc, EnqueueZcu, EnqueueSection,
    SleepForAir, AppendZcu, AppendFails, MustWait, CountAir, Restarts,
    IsPending, AirWake, DeinitTask, MainSpawn, SpawnFlush, preVars, zcuVars,
    airVars, runVars, poolVars, linkVars, mainVars
<1>13. EndWork \/ Wait \/ Flush \/
      (\E p \in PrelinkItems : StartPrelinkItem(p)) \/
      (\E p \in PrelinkItems : EnqueuePrelink(p)) \/
      (\E p \in PrelinkItems : NoPrelinkOutput(p)) \/
      (\E p \in PrelinkItems : ItemSpawn(p)) \/
      (\E p \in PrelinkItems : ItemFinish(p)) \/
      (\E p \in PrelinkItems : ItemExit(p)) => UNCHANGED <<wip_prelink, lpc>>
  BY DEF EndWork, Wait, Flush, StartPrelinkItem, EnqueuePrelink, SetRunning,
    NoPrelinkOutput, ItemSpawn, SpawnFlush, ItemFinish, FinishPrelinkItem,
    ItemExit, preVars, zcuVars, airVars, runVars, poolVars, linkVars, mainVars
<1>14. (\E f \in LinkFuncs : CodegenStore(f)) \/
      (\E f \in LinkFuncs : MirReady(f)) \/
      (\E f \in LinkFuncs : CodegenSpawn(f)) \/
      (\E f \in LinkFuncs : CodegenExit(f)) => UNCHANGED <<wip_prelink, lpc>>
  BY DEF CodegenStore, MirReady, SetRunning, CodegenSpawn, SpawnFlush,
    CodegenExit, preVars, zcuVars, airVars, runVars, poolVars, linkVars,
    mainVars
<1>15. UNCHANGED vars => UNCHANGED <<wip_prelink, lpc>>
  BY DEF vars, preVars, zcuVars, airVars, runVars, poolVars, linkVars, mainVars
<1>16. QED
  BY <1>1, <1>2, <1>3, <1>4, <1>5, <1>6, <1>7, <1>8, <1>9, <1>10, <1>11,
    <1>12, <1>13, <1>14, <1>15
  DEF Next, MainNext, ItemNext, CodegenNext, LinkNext

LEMMA MirAwaitedNext == RunInv /\ PreInv /\ [Next]_vars => MirAwaited'
<1> SUFFICES ASSUME RunInv, PreInv, [Next]_vars PROVE MirAwaited'
  OBVIOUS
<1> USE DEF PreInv, MirAwaited
<1>1. ASSUME Start PROVE MirAwaited'
  <2>1. state = "finished"
    BY <1>1, Rested DEF Start
  <2> QED
    BY <1>1, <2>1 DEF Start, SetRunning, runVars
<1>2. ASSUME FinishItems PROVE MirAwaited'
  BY <1>2 DEF FinishItems, FinishPrelinkItem, SetRunning, runVars
<1>3. ASSUME CodegenFunc PROVE MirAwaited'
  <2>1. PICK f \in LinkFuncs : DispatchFunc(f)
    BY <1>3 DEF CodegenFunc
  <2> QED
    BY <2>1 DEF DispatchFunc, runVars, RunInv, TypeOK, WorkerType
<1>4. ASSUME EnqueueZcu \/ AirWake PROVE MirAwaited'
  BY <1>4 DEF EnqueueZcu, AirWake, EnqueueSection, SleepForAir, AppendZcu, AppendFails,
     Restarts, SetRunning, runVars, zcuVars, preVars, linkVars, IsPending
<1>5. ASSUME DeinitTask PROVE MirAwaited'
  BY <1>5 DEF DeinitTask, runVars, RunInv, TypeOK, WorkerType
<1>6. ASSUME NEW p \in PrelinkItems, EnqueuePrelink(p) PROVE MirAwaited'
  BY <1>6 DEF EnqueuePrelink, SetRunning, runVars
<1>7. ASSUME NEW p \in PrelinkItems, ItemFinish(p) PROVE MirAwaited'
  BY <1>7 DEF ItemFinish, FinishPrelinkItem, SetRunning, runVars
<1>8. ASSUME NEW f \in LinkFuncs, CodegenStore(f) PROVE MirAwaited'
  BY <1>8 DEF CodegenStore, runVars, RunInv, TypeOK, WorkerType
<1>9. ASSUME NEW f \in LinkFuncs, MirReady(f) PROVE MirAwaited'
  BY <1>9 DEF MirReady, SetRunning, runVars, RunInv, TypeOK, WorkerType
<1>10. ASSUME NEW f \in LinkFuncs, CodegenSpawn(f) PROVE MirAwaited'
  BY <1>10 DEF CodegenSpawn, runVars, RunInv, TypeOK, WorkerType
<1>11. ASSUME NEW f \in LinkFuncs, CodegenExit(f) PROVE MirAwaited'
  BY <1>11 DEF CodegenExit, runVars, RunInv, TypeOK, WorkerType
<1>12. ASSUME PrelinkSwap PROVE MirAwaited'
  BY <1>12 DEF PrelinkSwap, LinkReturn, runVars
<1>13. ASSUME ZcuSwap PROVE MirAwaited'
  BY <1>13 DEF ZcuSwap, LinkReturn, runVars
<1>14. ASSUME ZcuLock PROVE MirAwaited'
  BY <1>14 DEF ZcuLock, LinkReturn, IsPending, runVars
<1>15. ASSUME ZcuRun PROVE MirAwaited'
  BY <1>15 DEF ZcuRun, runVars, RunInv, TypeOK, WorkerType
<1>16. CASE UNCHANGED <<state, wait_for, mir, cg>>
  BY <1>16
<1>17. GiveUp \/ Dispatch \/ MainSpawn \/ EndWork \/ Wait \/ Flush \/
      (\E p \in PrelinkItems : StartPrelinkItem(p)) \/
      (\E p \in PrelinkItems : NoPrelinkOutput(p)) \/
      (\E p \in PrelinkItems : ItemSpawn(p)) => UNCHANGED <<state, wait_for,
      mir, cg>>
  BY DEF GiveUp, Dispatch, DispatchOther, MainSpawn, SpawnFlush, EndWork,
    Wait, Flush, StartPrelinkItem, NoPrelinkOutput, ItemSpawn, preVars,
    zcuVars, airVars, runVars, poolVars, linkVars, mainVars
<1>18. (\E p \in PrelinkItems : ItemExit(p)) \/ FlushStart \/ PrelinkRun \/
      PrelinkCall \/ ZcuTask \/ ZcuDec \/
      (\E more \in BOOLEAN : DoIdleTask(more)) => UNCHANGED <<state, wait_for,
      mir, cg>>
  BY DEF ItemExit, FlushStart, PrelinkRun, PrelinkCall, NextZcu, ZcuTask,
    IsPending, ZcuDec, Advance, SignalsAir, DoIdleTask, preVars, zcuVars,
    airVars, runVars, poolVars, linkVars, mainVars
<1>19. UNCHANGED vars => UNCHANGED <<state, wait_for, mir, cg>>
  BY DEF vars, preVars, zcuVars, airVars, runVars, poolVars, linkVars, mainVars
<1>20. QED
  BY <1>1, <1>2, <1>3, <1>4, <1>5, <1>6, <1>7, <1>8, <1>9, <1>10, <1>11,
    <1>12, <1>13, <1>14, <1>15, <1>16, <1>17, <1>18, <1>19
  DEF Next, MainNext, ItemNext, CodegenNext, LinkNext

LEMMA PreInvInit == Init => PreInv
<1> SUFFICES ASSUME Init PROVE PreInv
  OBVIOUS
<1>1. Unfinished = {}
  BY DEF Init, Unfinished
<1>2. Extra = 0
  BY <1>1, FS_EmptySet DEF Init, Extra
<1> QED
  BY <1>2 DEF Init, PreInv, ExtraInv, Drained, NoZcu, PrelinkDone, ZcuPcs, Delivered,
              WipHeld, MirAwaited

LEMMA PreInvNext == RunInv /\ PreInv /\ [Next]_vars => PreInv'
<1> SUFFICES ASSUME RunInv, PreInv, [Next]_vars PROVE PreInv'
  OBVIOUS
<1>1. ExtraInv'
  BY ExtraInvNext DEF PreInv
<1> QED
  BY <1>1, DrainedNext, PrelinkDoneNext, DeliveredNext, WipHeldNext, MirAwaitedNext
     DEF PreInv

\* The asserts and unreachables of Queue.zig hold at each place that reaches them
\* (QueueAsserts), for any number of prelink jobs and updates.
THEOREM AssertsHold == Spec => []QueueAsserts
<1>1. RunInv /\ PreInv => QueueAsserts
  <2> SUFFICES ASSUME RunInv, PreInv PROVE QueueAsserts
    OBVIOUS
  <2> USE DEF PreInv
  <2>1. mpc = "idle" => state = "finished" /\ queued_zcu = <<>>
    BY Rested DEF NoZcu
  <2>2. mpc = "items" => prelink_wait_count > 0
    BY CountPositive DEF RunInv
  <2>3. \A p \in PrelinkItems : item[p] \in {"running", "finish"} =>
           prelink_wait_count > 0 /\ mpc # "idle"
    <3>1. \A p \in PrelinkItems : item[p] \in {"running", "finish"} => p \in Unfinished
      BY DEF Unfinished
    <3>2. \A p \in Unfinished : prelink_wait_count > 0 /\ mpc # "idle"
      BY CountPositive, Rested DEF RunInv
    <3> QED
      BY <3>1, <3>2
  <2>4. prelink_wait_count > 0 => state # "wait_for_mir"
    BY DEF PrelinkDone, PrelinkOver
  <2>5. mpc # "idle" /\ state = "finished" => queued_prelink = <<>>
    BY DEF Delivered
  <2>6. flush_jobs > 0 => state = "running" /\ wip_prelink = <<>>
    BY RunnerFacts DEF WipHeld, RunInv
  <2> QED
    BY <2>1, <2>2, <2>3, <2>4, <2>5, <2>6 DEF QueueAsserts
<1> QED
  BY <1>1, RunInvInit, RunInvNext, PreInvInit, PreInvNext, PTL DEF Spec
-----------------------------------------------------------------------------
(***************************************************************************)
(* MIR.  A task that is still to be linked is never dispatched again nor   *)
(* freed; the one the link thread stopped for is the next, and stays so    *)
(* until its worker has restarted the link thread.                         *)
(***************************************************************************)
\* the tasks of wip_zcu and of queued_zcu that the link thread has not begun to link
First == wip_zcu_idx + (IF lpc = "zcu_dec" THEN 2 ELSE 1)
InWip(t) == \E i \in First .. Len(wip_zcu) : wip_zcu[i] = t
InQueue(t) == \E j \in 1 .. Len(queued_zcu) : queued_zcu[j] = t
Todo(t) == InWip(t) \/ InQueue(t)

Distinct ==
    /\ \A i, j \in First .. Len(wip_zcu) : wip_zcu[i] = wip_zcu[j] => i = j
    /\ \A i, j \in 1 .. Len(queued_zcu) : queued_zcu[i] = queued_zcu[j] => i = j
    /\ \A t \in Tasks : ~(InWip(t) /\ InQueue(t))

\* its MIR was dispatched and is not freed
Live(t) == t \in LinkFuncs => mir[t] \in {"pending", "ready", "failed"}

TodoLive == \A t \in Tasks : Todo(t) => t \notin left /\ Live(t)
CurLive ==
    mpc \in {"enqueue", "air_wait", "deinit"} => cur \notin left /\ ~Todo(cur) /\ Live(cur)
WorkersWrite == \A f \in LinkFuncs : cg[f] = "running" => mir[f] = "pending"
RunsStored == lpc = "zcu_run" /\ WipTask \in LinkFuncs => mir[WipTask] # "pending"

\* the next task of the queue
NextIs(f) ==
    IF wip_zcu_idx < Len(wip_zcu) THEN WipTask = f ELSE queued_zcu # <<>> /\ queued_zcu[1] = f
NextAwaited ==
    \A f \in LinkFuncs :
        (state = "wait_for_mir" /\ wait_for = f) \/ cg[f] = "spawn" => NextIs(f)

MirInv == Distinct /\ TodoLive /\ CurLive /\ WorkersWrite /\ RunsStored /\ NextAwaited

LEMMA QueueFacts ==
    ASSUME TypeOK
    PROVE  /\ wip_zcu_idx \in Nat /\ wip_zcu_idx <= Len(wip_zcu) /\ Len(wip_zcu) \in Nat
           /\ Len(queued_zcu) \in Nat /\ First \in Nat /\ First > wip_zcu_idx
           /\ \A i \in 1 .. Len(wip_zcu) : wip_zcu[i] \in Tasks
           /\ \A j \in 1 .. Len(queued_zcu) : queued_zcu[j] \in Tasks
BY DEF TypeOK, ZcuType, First

\* The task at the index is still to be linked, unless only its bytes are to be given back.
LEMMA WipTaskTodo ==
    ASSUME TypeOK, wip_zcu_idx < Len(wip_zcu), lpc # "zcu_dec"
    PROVE  WipTask \in Tasks /\ Todo(WipTask)
BY QueueFacts DEF Todo, InWip, WipTask, First

LEMMA NextTodo ==
    ASSUME TypeOK, lpc # "zcu_dec", NEW f \in LinkFuncs, NextIs(f)
    PROVE  Todo(f)
<1>1. CASE wip_zcu_idx < Len(wip_zcu)
  BY <1>1, WipTaskTodo DEF NextIs
<1>2. CASE ~(wip_zcu_idx < Len(wip_zcu))
  <2>1. queued_zcu # <<>> /\ queued_zcu[1] = f
    BY <1>2 DEF NextIs
  <2>2. Len(queued_zcu) >= 1
    BY <2>1, QueueFacts DEF TypeOK, ZcuType
  <2> QED
    BY <2>1, <2>2 DEF Todo, InQueue
<1> QED
  BY <1>1, <1>2

LEMMA TodoSame ==
    ASSUME UNCHANGED <<queued_zcu, wip_zcu>>, First' = First
    PROVE  (\A t : Todo(t)' <=> Todo(t)) /\ (Distinct' <=> Distinct)
<1>1. \A t : (InWip(t)' <=> InWip(t)) /\ (InQueue(t)' <=> InQueue(t))
  BY DEF InWip, InQueue
<1> QED
  BY <1>1 DEF Todo, Distinct

\* One more task at the end of the queue
LEMMA TodoAppend ==
    ASSUME TypeOK, Distinct, NEW t \in Tasks, ~Todo(t),
           queued_zcu' = Append(queued_zcu, t), wip_zcu' = wip_zcu, First' = First
    PROVE  (\A u \in Tasks : Todo(u)' => Todo(u) \/ u = t) /\ Distinct'
<1>1. /\ Len(queued_zcu') = Len(queued_zcu) + 1 /\ queued_zcu'[Len(queued_zcu) + 1] = t
      /\ \A j \in 1 .. Len(queued_zcu) : queued_zcu'[j] = queued_zcu[j]
  BY DEF TypeOK, ZcuType
<1>2. \A u : InWip(u)' <=> InWip(u)
  BY DEF InWip
<1>3. \A u : InQueue(u)' => InQueue(u) \/ u = t
  BY <1>1, QueueFacts DEF InQueue
<1>4. \A j \in 1 .. Len(queued_zcu) : queued_zcu[j] # t
  BY DEF Todo, InQueue
<1>5. \A i, j \in 1 .. Len(queued_zcu') : queued_zcu'[i] = queued_zcu'[j] => i = j
  BY <1>1, <1>4, QueueFacts DEF Distinct
<1>6. \A i, j \in First' .. Len(wip_zcu') : wip_zcu'[i] = wip_zcu'[j] => i = j
  BY DEF Distinct
<1>7. \A u \in Tasks : ~(InWip(u)' /\ InQueue(u)')
  BY <1>2, <1>3 DEF Distinct, Todo
<1> QED
  BY <1>2, <1>3, <1>5, <1>6, <1>7 DEF Todo, Distinct

\* The link thread takes the queue over.
LEMMA TodoSwap ==
    ASSUME TypeOK, Distinct, wip_zcu' = queued_zcu, queued_zcu' = <<>>, First' = 1
    PROVE  (\A u : Todo(u)' => Todo(u)) /\ Distinct'
<1>1. \A u : ~InQueue(u)'
  BY DEF InQueue
<1>2. \A u : InWip(u)' => InQueue(u)
  BY DEF InWip, InQueue
<1> QED
  BY <1>1, <1>2 DEF Todo, Distinct

\* The first task is done, whether or not its bytes are to be given back.
LEMMA TodoDone ==
    ASSUME TypeOK, Distinct, UNCHANGED <<queued_zcu, wip_zcu>>, First' = First + 1,
           First = wip_zcu_idx + 1, wip_zcu_idx < Len(wip_zcu), NEW w, w = WipTask
    PROVE  (\A u : Todo(u)' => Todo(u)) /\ ~Todo(w)' /\ Distinct'
<1>1. \A u : (InWip(u)' => InWip(u)) /\ (InQueue(u)' <=> InQueue(u))
  BY QueueFacts DEF InWip, InQueue
<1>2. w \in Tasks /\ InWip(w)
  BY QueueFacts DEF InWip, WipTask
<1>3. ~InQueue(w)
  BY <1>2 DEF Distinct
<1>4. \A i \in First + 1 .. Len(wip_zcu) : wip_zcu[i] # w
  BY QueueFacts DEF Distinct, WipTask
<1>5. ~Todo(w)'
  BY <1>3, <1>4 DEF Todo, InWip, InQueue
<1>6. Distinct'
  BY <1>1, QueueFacts DEF Distinct
<1> QED
  BY <1>1, <1>5, <1>6 DEF Todo

Enqueues == mpc \in {"enqueue", "air_wait"} /\ mpc' \in {"work", "spawn"}

\* What a step adds to the tasks to be linked: nothing, or the one being enqueued.
TodoGrows ==
    /\ \A t \in Tasks : Todo(t)' => Todo(t) \/ (t = cur /\ Enqueues)
    /\ Distinct'

LEMMA ZcuRunTodo ==
    ASSUME RunInv, Distinct, ZcuRun
    PROVE  \E w \in Tasks : /\ w = WipTask /\ Todo(w) /\ ~Todo(w)'
                            /\ \A u : Todo(u)' => Todo(u)
                            /\ Distinct'
<1>1. lpc = "zcu_run" /\ wip_zcu_idx < Len(wip_zcu) /\ wip_zcu_idx \in Nat
  BY QueueFacts DEF ZcuRun, RunInv, TypeOK, LinkType, TaskPcs
<1>2. First = wip_zcu_idx + 1
  BY <1>1 DEF First
<1>3. First' = wip_zcu_idx + 2
  <2>1. CASE WipTask \in LinkFuncs
    BY <1>1, <2>1 DEF ZcuRun, First
  <2>2. CASE WipTask \notin LinkFuncs
    BY <1>1, <2>2 DEF ZcuRun, Advance, NextZcu, First
  <2> QED
    BY <2>1, <2>2
<1>4. WipTask \in Tasks /\ Todo(WipTask)
  BY <1>1, WipTaskTodo DEF RunInv
<1>5. PICK w \in Tasks : w = WipTask /\ Todo(w)
  BY <1>4
<1>6. UNCHANGED <<queued_zcu, wip_zcu>>
  BY DEF ZcuRun
<1>7. First' = First + 1
  BY <1>1, <1>2, <1>3
<1> QED
  BY <1>1, <1>2, <1>5, <1>6, <1>7, TodoDone DEF RunInv

LEMMA TodoNext == RunInv /\ PreInv /\ MirInv /\ [Next]_vars => TodoGrows
<1> SUFFICES ASSUME RunInv, PreInv, MirInv, [Next]_vars PROVE TodoGrows
  OBVIOUS
<1> USE DEF MirInv, TodoGrows
<1>1. ASSUME Start PROVE TodoGrows
  <2>1. NoZcu /\ lpc = "idle"
    BY <1>1, Rested DEF Start, PreInv
  <2>2. First' = First
    BY <1>1 DEF Start, First, linkVars
  <2> QED
    BY <1>1, <2>2, TodoSame DEF Start
<1>2. ASSUME EnqueueZcu \/ AirWake PROVE TodoGrows
  <2>1. First' = First /\ cur \in Tasks /\ ~Todo(cur)
    BY <1>2 DEF EnqueueZcu, AirWake, EnqueueSection, SleepForAir, AppendZcu,
       AppendFails, Restarts, SetRunning, runVars, zcuVars, preVars, linkVars, First,
       CurLive, RunInv, TypeOK, MainType
  <2>2. CASE AppendZcu(cur)
    <3>1. Enqueues
      BY <1>2, <2>2 DEF EnqueueZcu, AirWake, AppendZcu, Enqueues
    <3> QED
      BY <2>1, <2>2, <3>1, TodoAppend DEF AppendZcu, RunInv
  <2>3. CASE ~AppendZcu(cur)
    <3>1. UNCHANGED <<queued_zcu, wip_zcu>>
      BY <1>2, <2>3 DEF EnqueueZcu, AirWake, EnqueueSection, SleepForAir, AppendZcu,
         AppendFails, Restarts, SetRunning, runVars, zcuVars, preVars, linkVars
    <3> QED
      BY <2>1, <3>1, TodoSame
  <2> QED
    BY <2>2, <2>3
<1>3. ASSUME FlushStart PROVE TodoGrows
  <2>1. First' = First
    BY <1>3 DEF FlushStart, First, zcuVars
  <2> QED
    BY <1>3, <2>1, TodoSame DEF FlushStart, zcuVars
<1>4. ASSUME PrelinkSwap PROVE TodoGrows
  <2>1. First' = First
    BY <1>4 DEF PrelinkSwap, First, LinkReturn, zcuVars
  <2> QED
    BY <1>4, <2>1, TodoSame DEF PrelinkSwap, LinkReturn, zcuVars
<1>5. ASSUME PrelinkRun PROVE TodoGrows
  <2>1. First' = First
    BY <1>5 DEF PrelinkRun, First, zcuVars
  <2> QED
    BY <1>5, <2>1, TodoSame DEF PrelinkRun, zcuVars
<1>6. ASSUME PrelinkCall PROVE TodoGrows
  <2>1. First' = First
    BY <1>6 DEF PrelinkCall, First, NextZcu, zcuVars
  <2> QED
    BY <1>6, <2>1, TodoSame DEF PrelinkCall, NextZcu, zcuVars
<1>7. ASSUME ZcuSwap PROVE TodoGrows
  <2>1. First' = 1 /\ wip_zcu' = queued_zcu /\ queued_zcu' = <<>>
    BY <1>7 DEF ZcuSwap, LinkReturn, First
  <2> QED
    BY <2>1, TodoSwap DEF RunInv
<1>8. ASSUME ZcuTask PROVE TodoGrows
  <2>1. First' = First
    BY <1>8 DEF ZcuTask, First, zcuVars
  <2> QED
    BY <1>8, <2>1, TodoSame DEF ZcuTask, IsPending, zcuVars
<1>9. ASSUME ZcuLock PROVE TodoGrows
  <2>1. First' = First
    BY <1>9 DEF ZcuLock, First, LinkReturn, zcuVars
  <2> QED
    BY <1>9, <2>1, TodoSame DEF ZcuLock, LinkReturn, IsPending, zcuVars
<1>10. ASSUME ZcuRun PROVE TodoGrows
  BY <1>10, ZcuRunTodo
<1>11. ASSUME ZcuDec PROVE TodoGrows
  <2>1. lpc = "zcu_dec" /\ wip_zcu_idx \in Nat
    BY <1>11, QueueFacts DEF ZcuDec, RunInv
  <2>2. First' = First
    BY <1>11, <2>1 DEF ZcuDec, Advance, NextZcu, First
  <2> QED
    BY <1>11, <2>2, TodoSame DEF ZcuDec
<1>12. ASSUME NEW more \in BOOLEAN, DoIdleTask(more) PROVE TodoGrows
  <2>1. First' = First
    BY <1>12 DEF DoIdleTask, First, zcuVars
  <2> QED
    BY <1>12, <2>1, TodoSame DEF DoIdleTask, zcuVars
<1>13. CASE UNCHANGED <<queued_zcu, wip_zcu, wip_zcu_idx, lpc>>
  <2>1. First' = First
    BY <1>13 DEF First
  <2> QED
    BY <1>13, <2>1, TodoSame
<1>14. FinishItems \/ GiveUp \/ Dispatch \/ CodegenFunc \/ DeinitTask \/
      MainSpawn \/ EndWork \/ Wait \/ Flush => UNCHANGED <<queued_zcu,
      wip_zcu, wip_zcu_idx, lpc>>
  BY DEF FinishItems, FinishPrelinkItem, SetRunning, GiveUp, Dispatch,
    DispatchOther, CodegenFunc, DispatchFunc, DeinitTask, IsPending,
    MainSpawn, SpawnFlush, EndWork, Wait, Flush, preVars, zcuVars, airVars,
    runVars, poolVars, linkVars, mainVars
<1>15. (\E p \in PrelinkItems : StartPrelinkItem(p)) \/
      (\E p \in PrelinkItems : EnqueuePrelink(p)) \/
      (\E p \in PrelinkItems : NoPrelinkOutput(p)) \/
      (\E p \in PrelinkItems : ItemSpawn(p)) \/
      (\E p \in PrelinkItems : ItemFinish(p)) \/
      (\E p \in PrelinkItems : ItemExit(p)) \/
      (\E f \in LinkFuncs : CodegenStore(f)) \/
      (\E f \in LinkFuncs : MirReady(f)) \/
      (\E f \in LinkFuncs : CodegenSpawn(f)) => UNCHANGED <<queued_zcu,
      wip_zcu, wip_zcu_idx, lpc>>
  BY DEF StartPrelinkItem, EnqueuePrelink, SetRunning, NoPrelinkOutput,
    ItemSpawn, SpawnFlush, ItemFinish, FinishPrelinkItem, ItemExit,
    CodegenStore, MirReady, CodegenSpawn, preVars, zcuVars, airVars, runVars,
    poolVars, linkVars, mainVars
<1>16. (\E f \in LinkFuncs : CodegenExit(f)) => UNCHANGED <<queued_zcu,
      wip_zcu, wip_zcu_idx, lpc>>
  BY DEF CodegenExit, preVars, zcuVars, airVars, runVars, poolVars, linkVars,
    mainVars
<1>17. UNCHANGED vars => UNCHANGED <<queued_zcu, wip_zcu, wip_zcu_idx, lpc>>
  BY DEF vars, preVars, zcuVars, airVars, runVars, poolVars, linkVars, mainVars
<1>18. QED
  BY <1>1, <1>2, <1>3, <1>4, <1>5, <1>6, <1>7, <1>8, <1>9, <1>10, <1>11,
    <1>12, <1>13, <1>14, <1>15, <1>16, <1>17
  DEF Next, MainNext, ItemNext, CodegenNext, LinkNext

LEMMA TodoLiveNext == RunInv /\ PreInv /\ MirInv /\ [Next]_vars => TodoLive'
<1> SUFFICES ASSUME RunInv, PreInv, MirInv, [Next]_vars PROVE TodoLive'
  OBVIOUS
<1> USE DEF MirInv
<1>1. ASSUME Start PROVE TodoLive'
  <2>1. NoZcu /\ lpc = "idle"
    BY <1>1, Rested DEF Start, PreInv
  <2>2. \A t : ~Todo(t)
    BY <2>1, QueueFacts DEF NoZcu, Todo, InWip, InQueue, First, RunInv
  <2>3. \A t \in Tasks : ~Todo(t)'
    BY <1>1, <2>2, TodoNext DEF TodoGrows, Enqueues, Start
  <2> QED
    BY <2>3 DEF TodoLive
<1>2. ASSUME Dispatch PROVE TodoLive'
  <2>1. \A t \in Tasks : Todo(t)' => Todo(t)
    BY <1>2, TodoNext DEF TodoGrows, Enqueues, Dispatch, DispatchOther
  <2> QED
    BY <1>2, <2>1 DEF Dispatch, DispatchOther, Live, TodoLive
<1>3. ASSUME CodegenFunc PROVE TodoLive'
  <2>1. PICK f \in LinkFuncs : DispatchFunc(f)
    BY <1>3 DEF CodegenFunc
  <2>2. \A t \in Tasks : Todo(t)' => Todo(t)
    BY <2>1, TodoNext DEF TodoGrows, Enqueues, DispatchFunc
  <2> QED
    BY <2>1, <2>2 DEF DispatchFunc, Live, TodoLive, RunInv, TypeOK, MainType, WorkerType
<1>4. ASSUME EnqueueZcu \/ AirWake PROVE TodoLive'
  <2>1. cur \in Tasks /\ left' = left /\ mir' = mir
    BY <1>4 DEF EnqueueZcu, AirWake, EnqueueSection, SleepForAir, AppendZcu,
       AppendFails, Restarts, SetRunning, runVars, zcuVars, preVars, linkVars, RunInv,
       TypeOK, MainType, WorkerType
  <2>2. cur \notin left /\ Live(cur)
    BY <1>4 DEF EnqueueZcu, AirWake, CurLive
  <2>3. \A t \in Tasks : Todo(t)' => Todo(t) \/ t = cur
    BY TodoNext DEF TodoGrows
  <2> QED
    BY <2>1, <2>2, <2>3 DEF TodoLive, Live
<1>5. ASSUME DeinitTask PROVE TodoLive'
  <2>1. \A t \in Tasks : Todo(t)' => Todo(t) /\ t # cur
    BY <1>5, TodoNext DEF TodoGrows, Enqueues, DeinitTask, zcuVars, CurLive
  <2> QED
    BY <1>5, <2>1 DEF DeinitTask, TodoLive, Live, RunInv, TypeOK, MainType, WorkerType
<1>6. ASSUME NEW f \in LinkFuncs, CodegenStore(f) PROVE TodoLive'
  <2>1. \A t \in Tasks : Todo(t)' => Todo(t)
    BY <1>6, TodoNext DEF TodoGrows, Enqueues, CodegenStore, mainVars, zcuVars
  <2> QED
    BY <1>6, <2>1 DEF CodegenStore, mainVars, TodoLive, Live, RunInv, TypeOK, MainType,
       WorkerType
<1>7. ASSUME ZcuRun PROVE TodoLive'
  <2>1. PICK w \in Tasks : w = WipTask /\ ~Todo(w)' /\ \A u : Todo(u)' => Todo(u)
    BY <1>7, ZcuRunTodo
  <2>2. left' = left /\ \A f \in LinkFuncs : f # w => mir'[f] = mir[f]
    BY <1>7, <2>1 DEF ZcuRun, mainVars, RunInv, TypeOK, MainType, WorkerType
  <2> QED
    BY <2>1, <2>2 DEF TodoLive, Live
<1>8. CASE UNCHANGED <<left, mir>>
  <2>1. (cur \notin left /\ Live(cur)) \/ ~Enqueues
    BY DEF CurLive, Enqueues
  <2>2. \A t \in Tasks : Todo(t)' => Todo(t) \/ (t = cur /\ Enqueues)
    BY TodoNext DEF TodoGrows
  <2> QED
    BY <1>8, <2>1, <2>2 DEF TodoLive, Live
<1>9. FinishItems \/ GiveUp \/ MainSpawn \/ EndWork \/ Wait \/ Flush \/
      (\E p \in PrelinkItems : StartPrelinkItem(p)) \/
      (\E p \in PrelinkItems : EnqueuePrelink(p)) \/
      (\E p \in PrelinkItems : NoPrelinkOutput(p)) => UNCHANGED <<left, mir>>
  BY DEF FinishItems, FinishPrelinkItem, SetRunning, GiveUp, MainSpawn,
    SpawnFlush, EndWork, Wait, Flush, StartPrelinkItem, EnqueuePrelink,
    NoPrelinkOutput, preVars, zcuVars, airVars, runVars, poolVars, linkVars,
    mainVars
<1>10. (\E p \in PrelinkItems : ItemSpawn(p)) \/
      (\E p \in PrelinkItems : ItemFinish(p)) \/
      (\E p \in PrelinkItems : ItemExit(p)) \/
      (\E f \in LinkFuncs : MirReady(f)) \/
      (\E f \in LinkFuncs : CodegenSpawn(f)) \/
      (\E f \in LinkFuncs : CodegenExit(f)) \/ FlushStart \/ PrelinkSwap \/
      PrelinkRun => UNCHANGED <<left, mir>>
  BY DEF ItemSpawn, SpawnFlush, ItemFinish, FinishPrelinkItem, SetRunning,
    ItemExit, MirReady, CodegenSpawn, CodegenExit, FlushStart, PrelinkSwap,
    LinkReturn, PrelinkRun, preVars, zcuVars, airVars, runVars, poolVars,
    linkVars, mainVars
<1>11. PrelinkCall \/ ZcuSwap \/ ZcuTask \/ ZcuLock \/ ZcuDec \/
      (\E more \in BOOLEAN : DoIdleTask(more)) => UNCHANGED <<left, mir>>
  BY DEF PrelinkCall, NextZcu, ZcuSwap, LinkReturn, ZcuTask, IsPending,
    ZcuLock, ZcuDec, Advance, SignalsAir, DoIdleTask, preVars, zcuVars,
    airVars, runVars, poolVars, linkVars, mainVars
<1>12. UNCHANGED vars => UNCHANGED <<left, mir>>
  BY DEF vars, preVars, zcuVars, airVars, runVars, poolVars, linkVars, mainVars
<1>13. QED
  BY <1>1, <1>2, <1>3, <1>4, <1>5, <1>6, <1>7, <1>8, <1>9, <1>10, <1>11, <1>12
  DEF Next, MainNext, ItemNext, CodegenNext, LinkNext

\* The task being enqueued is in the queue only once it is appended.
LEMMA TodoSameCur ==
    ASSUME RunInv, PreInv, MirInv, [Next]_vars, cur' = cur, ~Enqueues,
           mpc \in {"enqueue", "air_wait", "deinit"}
    PROVE  ~Todo(cur)'
<1>1. cur \in Tasks
  BY DEF RunInv, TypeOK, MainType
<1>2. ~Todo(cur)
  BY DEF MirInv, CurLive
<1>3. PICK c \in Tasks : c = cur
  BY <1>1
<1>4. ~Todo(c)'
  BY <1>2, <1>3, TodoNext DEF TodoGrows
<1> QED
  BY <1>3, <1>4 DEF Todo, InWip, InQueue

LEMMA CurLiveNext == RunInv /\ PreInv /\ MirInv /\ [Next]_vars => CurLive'
<1> SUFFICES ASSUME RunInv, PreInv, MirInv, [Next]_vars PROVE CurLive'
  OBVIOUS
<1> USE DEF MirInv
<1>1. ASSUME Start PROVE CurLive'
  BY <1>1 DEF Start, CurLive
<1>2. ASSUME FinishItems PROVE CurLive'
  BY <1>2 DEF FinishItems, CurLive
<1>3. ASSUME GiveUp PROVE CurLive'
  BY <1>3 DEF GiveUp, CurLive
<1>4. ASSUME Dispatch PROVE CurLive'
  <2>1. PICK t \in OtherTasks : DispatchOther(t)
    BY <1>4 DEF Dispatch
  <2>2. t \in left /\ t \in Tasks /\ t \notin LinkFuncs
    BY <2>1, ConstantsAssumption DEF DispatchOther, Tasks, ConstantsAssumption
  <2>3. ~Todo(t)
    BY <2>2 DEF TodoLive
  <2>4. ~Todo(t)'
    BY <2>1, <2>2, <2>3, TodoNext DEF TodoGrows, Enqueues, DispatchOther
  <2>5. cur' = t /\ left' = left \ {t}
    BY <2>1 DEF DispatchOther
  <2> QED
    BY <2>2, <2>4, <2>5 DEF CurLive, Live, Todo, InWip, InQueue
<1>5. ASSUME CodegenFunc PROVE CurLive'
  <2>1. PICK f \in LinkFuncs : DispatchFunc(f)
    BY <1>5 DEF CodegenFunc
  <2>2. f \in left /\ f \in Tasks
    BY <2>1 DEF DispatchFunc, Tasks
  <2>3. ~Todo(f)
    BY <2>2 DEF TodoLive
  <2>4. ~Todo(f)'
    BY <2>1, <2>2, <2>3, TodoNext DEF TodoGrows, Enqueues, DispatchFunc
  <2>5. cur' = f /\ left' = left \ {f} /\ mir'[f] = "pending"
    BY <2>1 DEF DispatchFunc, RunInv, TypeOK, MainType, WorkerType
  <2> QED
    BY <2>2, <2>4, <2>5 DEF CurLive, Live, Todo, InWip, InQueue
<1>6. ASSUME EnqueueZcu \/ AirWake PROVE CurLive'
  <2>1. CASE AppendZcu(cur)
    BY <2>1 DEF AppendZcu, CurLive
  <2>2. CASE ~AppendZcu(cur)
    <3>1. cur' = cur /\ left' = left /\ mir' = mir /\ cur \in Tasks
      BY <1>6, <2>2 DEF EnqueueZcu, AirWake, EnqueueSection, SleepForAir, AppendZcu,
         AppendFails, Restarts, SetRunning, runVars, zcuVars, preVars, linkVars, RunInv,
         TypeOK, MainType, WorkerType
    <3>2. ~Enqueues /\ mpc \in {"enqueue", "air_wait", "deinit"}
      BY <1>6, <2>2 DEF EnqueueZcu, AirWake, EnqueueSection, SleepForAir, AppendZcu,
         AppendFails, Restarts, SetRunning, runVars, zcuVars, preVars, linkVars,
         Enqueues
    <3>3. cur \notin left /\ ~Todo(cur) /\ Live(cur)
      BY <1>6 DEF EnqueueZcu, AirWake, CurLive
    <3>4. ~Todo(cur)'
      BY <3>1, <3>2, <3>3, TodoSameCur
    <3> QED
      BY <3>1, <3>3, <3>4 DEF CurLive, Live
  <2> QED
    BY <2>1, <2>2
<1>7. ASSUME DeinitTask PROVE CurLive'
  BY <1>7 DEF DeinitTask, CurLive
<1>8. ASSUME MainSpawn PROVE CurLive'
  BY <1>8 DEF MainSpawn, CurLive
<1>9. ASSUME EndWork PROVE CurLive'
  BY <1>9 DEF EndWork, CurLive
<1>10. ASSUME Wait PROVE CurLive'
  BY <1>10 DEF Wait, CurLive
<1>11. ASSUME Flush PROVE CurLive'
  BY <1>11 DEF Flush, CurLive
<1>12. ASSUME NEW f \in LinkFuncs, CodegenStore(f) PROVE CurLive'
  <2>1. mpc' = mpc /\ cur' = cur /\ left' = left
    BY <1>12 DEF CodegenStore, mainVars
  <2>2. \A g \in LinkFuncs : mir'[g] = mir[g] \/ mir'[g] \in {"ready", "failed"}
    BY <1>12 DEF CodegenStore, RunInv, TypeOK, MainType, WorkerType
  <2> QED
    BY <2>1, <2>2, TodoSameCur DEF CurLive, Live, Enqueues
<1>13. ASSUME ZcuRun PROVE CurLive'
  <2>1. PICK w \in Tasks : w = WipTask /\ Todo(w) /\ ~Todo(w)' /\ \A u : Todo(u)' => Todo(u)
    BY <1>13, ZcuRunTodo
  <2>2. mpc' = mpc /\ cur' = cur /\ left' = left
    BY <1>13 DEF ZcuRun, mainVars
  <2>3. \A f \in LinkFuncs : f # w => mir'[f] = mir[f]
    BY <1>13, <2>1 DEF ZcuRun, RunInv, TypeOK, MainType, WorkerType
  <2> QED
    BY <2>1, <2>2, <2>3, TodoSameCur DEF CurLive, Live, Enqueues
<1>14. CASE UNCHANGED <<mpc, cur, left, mir>>
  BY <1>14, TodoSameCur DEF CurLive, Live, Enqueues
<1>15. (\E p \in PrelinkItems : StartPrelinkItem(p)) \/
      (\E p \in PrelinkItems : EnqueuePrelink(p)) \/
      (\E p \in PrelinkItems : NoPrelinkOutput(p)) \/
      (\E p \in PrelinkItems : ItemSpawn(p)) \/
      (\E p \in PrelinkItems : ItemFinish(p)) \/
      (\E p \in PrelinkItems : ItemExit(p)) \/
      (\E f \in LinkFuncs : MirReady(f)) \/
      (\E f \in LinkFuncs : CodegenSpawn(f)) \/
      (\E f \in LinkFuncs : CodegenExit(f)) => UNCHANGED <<mpc, cur, left,
      mir>>
  BY DEF StartPrelinkItem, EnqueuePrelink, SetRunning, NoPrelinkOutput,
    ItemSpawn, SpawnFlush, ItemFinish, FinishPrelinkItem, ItemExit, MirReady,
    CodegenSpawn, CodegenExit, preVars, zcuVars, airVars, runVars, poolVars,
    linkVars, mainVars
<1>16. FlushStart \/ PrelinkSwap \/ PrelinkRun \/ PrelinkCall \/ ZcuSwap \/
      ZcuTask \/ ZcuLock \/ ZcuDec \/ (\E more \in BOOLEAN : DoIdleTask(more))
      => UNCHANGED <<mpc, cur, left, mir>>
  BY DEF FlushStart, PrelinkSwap, LinkReturn, PrelinkRun, PrelinkCall,
    NextZcu, ZcuSwap, ZcuTask, IsPending, ZcuLock, ZcuDec, Advance,
    SignalsAir, DoIdleTask, preVars, zcuVars, airVars, runVars, poolVars,
    linkVars, mainVars
<1>17. UNCHANGED vars => UNCHANGED <<mpc, cur, left, mir>>
  BY DEF vars, preVars, zcuVars, airVars, runVars, poolVars, linkVars, mainVars
<1>18. QED
  BY <1>1, <1>2, <1>3, <1>4, <1>5, <1>6, <1>7, <1>8, <1>9, <1>10, <1>11,
    <1>12, <1>13, <1>14, <1>15, <1>16, <1>17
  DEF Next, MainNext, ItemNext, CodegenNext, LinkNext
LEMMA WorkersWriteNext == RunInv /\ PreInv /\ MirInv /\ [Next]_vars => WorkersWrite'
<1> SUFFICES ASSUME RunInv, PreInv, MirInv, [Next]_vars PROVE WorkersWrite'
  OBVIOUS
<1> USE DEF MirInv
<1>1. ASSUME Start PROVE WorkersWrite'
  BY <1>1 DEF Start, WorkersWrite
<1>2. ASSUME CodegenFunc PROVE WorkersWrite'
  <2>1. PICK f \in LinkFuncs : DispatchFunc(f)
    BY <1>2 DEF CodegenFunc
  <2> QED
    BY <2>1 DEF DispatchFunc, WorkersWrite, RunInv, TypeOK, MainType, WorkerType
<1>3. ASSUME DeinitTask PROVE WorkersWrite'
  BY <1>3 DEF DeinitTask, IsPending, WorkersWrite, RunInv, TypeOK, MainType, WorkerType
<1>4. ASSUME NEW f \in LinkFuncs, CodegenStore(f) PROVE WorkersWrite'
  BY <1>4 DEF CodegenStore, WorkersWrite, RunInv, TypeOK, MainType, WorkerType
<1>5. ASSUME NEW f \in LinkFuncs, MirReady(f) PROVE WorkersWrite'
  BY <1>5 DEF MirReady, WorkersWrite, RunInv, TypeOK, MainType, WorkerType
<1>6. ASSUME NEW f \in LinkFuncs, CodegenSpawn(f) PROVE WorkersWrite'
  BY <1>6 DEF CodegenSpawn, WorkersWrite, RunInv, TypeOK, MainType, WorkerType
<1>7. ASSUME NEW f \in LinkFuncs, CodegenExit(f) PROVE WorkersWrite'
  BY <1>7 DEF CodegenExit, WorkersWrite, RunInv, TypeOK, MainType, WorkerType
<1>8. ASSUME ZcuRun PROVE WorkersWrite'
  BY <1>8 DEF ZcuRun, RunsStored, WorkersWrite, RunInv, TypeOK, MainType, WorkerType
<1>9. CASE UNCHANGED <<mir, cg>>
  BY <1>9 DEF WorkersWrite
<1>10. FinishItems \/ GiveUp \/ Dispatch \/ EnqueueZcu \/ AirWake \/ MainSpawn
      \/ EndWork \/ Wait \/ Flush => UNCHANGED <<mir, cg>>
  BY DEF FinishItems, FinishPrelinkItem, SetRunning, GiveUp, Dispatch,
    DispatchOther, EnqueueZcu, EnqueueSection, SleepForAir, AppendZcu,
    AppendFails, MustWait, CountAir, Restarts, IsPending, AirWake, MainSpawn,
    SpawnFlush, EndWork, Wait, Flush, preVars, zcuVars, airVars, runVars,
    poolVars, linkVars, mainVars
<1>11. (\E p \in PrelinkItems : StartPrelinkItem(p)) \/
      (\E p \in PrelinkItems : EnqueuePrelink(p)) \/
      (\E p \in PrelinkItems : NoPrelinkOutput(p)) \/
      (\E p \in PrelinkItems : ItemSpawn(p)) \/
      (\E p \in PrelinkItems : ItemFinish(p)) \/
      (\E p \in PrelinkItems : ItemExit(p)) \/ FlushStart \/ PrelinkSwap \/
      PrelinkRun => UNCHANGED <<mir, cg>>
  BY DEF StartPrelinkItem, EnqueuePrelink, SetRunning, NoPrelinkOutput,
    ItemSpawn, SpawnFlush, ItemFinish, FinishPrelinkItem, ItemExit,
    FlushStart, PrelinkSwap, LinkReturn, PrelinkRun, preVars, zcuVars,
    airVars, runVars, poolVars, linkVars, mainVars
<1>12. PrelinkCall \/ ZcuSwap \/ ZcuTask \/ ZcuLock \/ ZcuDec \/
      (\E more \in BOOLEAN : DoIdleTask(more)) => UNCHANGED <<mir, cg>>
  BY DEF PrelinkCall, NextZcu, ZcuSwap, LinkReturn, ZcuTask, IsPending,
    ZcuLock, ZcuDec, Advance, SignalsAir, DoIdleTask, preVars, zcuVars,
    airVars, runVars, poolVars, linkVars, mainVars
<1>13. UNCHANGED vars => UNCHANGED <<mir, cg>>
  BY DEF vars, preVars, zcuVars, airVars, runVars, poolVars, linkVars, mainVars
<1>14. QED
  BY <1>1, <1>2, <1>3, <1>4, <1>5, <1>6, <1>7, <1>8, <1>9, <1>10, <1>11,
    <1>12, <1>13
  DEF Next, MainNext, ItemNext, CodegenNext, LinkNext

LEMMA RunsStoredNext == RunInv /\ PreInv /\ MirInv /\ [Next]_vars => RunsStored'
<1> SUFFICES ASSUME RunInv, PreInv, MirInv, [Next]_vars PROVE RunsStored'
  OBVIOUS
<1> USE DEF MirInv
<1>1. ASSUME Start PROVE RunsStored'
  <2>1. lpc = "idle"
    BY <1>1, Rested DEF Start, PreInv
  <2> QED
    BY <1>1, <2>1 DEF Start, linkVars, RunsStored
<1>2. ASSUME CodegenFunc PROVE RunsStored'
  <2>1. PICK f \in LinkFuncs : DispatchFunc(f)
    BY <1>2 DEF CodegenFunc
  <2>2. lpc = "zcu_run" => WipTask \in Tasks /\ WipTask \notin left
    BY WipTaskTodo DEF TodoLive, RunInv, TypeOK, LinkType, TaskPcs
  <2>3. f \in left
    BY <2>1 DEF DispatchFunc
  <2>4. lpc' = lpc /\ WipTask' = WipTask
    BY <2>1 DEF DispatchFunc, linkVars, zcuVars, WipTask
  <2>5. \A g \in LinkFuncs : g # f => mir'[g] = mir[g]
    BY <2>1 DEF DispatchFunc, RunInv, TypeOK, MainType, WorkerType
  <2> QED
    BY <2>2, <2>3, <2>4, <2>5 DEF RunsStored
<1>3. ASSUME EnqueueZcu \/ AirWake PROVE RunsStored'
  BY <1>3 DEF EnqueueZcu, AirWake, EnqueueSection, SleepForAir, AppendZcu, AppendFails,
     Restarts, SetRunning, runVars, zcuVars, preVars, linkVars, WipTask, RunsStored
<1>4. ASSUME DeinitTask PROVE RunsStored'
  <2>1. \A g \in LinkFuncs : mir'[g] = mir[g] \/ mir'[g] = "freed"
    BY <1>4 DEF DeinitTask, RunInv, TypeOK, MainType, WorkerType
  <2> QED
    BY <1>4, <2>1 DEF DeinitTask, linkVars, zcuVars, WipTask, RunsStored
<1>5. ASSUME NEW f \in LinkFuncs, CodegenStore(f) PROVE RunsStored'
  <2>1. \A g \in LinkFuncs : mir'[g] = mir[g] \/ mir'[g] \in {"ready", "failed"}
    BY <1>5 DEF CodegenStore, RunInv, TypeOK, MainType, WorkerType
  <2> QED
    BY <1>5, <2>1 DEF CodegenStore, linkVars, zcuVars, WipTask, RunsStored
<1>6. ASSUME FlushStart PROVE RunsStored'
  BY <1>6 DEF FlushStart, RunsStored
<1>7. ASSUME PrelinkSwap PROVE RunsStored'
  BY <1>7 DEF PrelinkSwap, LinkReturn, RunsStored
<1>8. ASSUME PrelinkRun PROVE RunsStored'
  BY <1>8 DEF PrelinkRun, RunsStored
<1>9. ASSUME PrelinkCall PROVE RunsStored'
  BY <1>9 DEF PrelinkCall, NextZcu, RunsStored
<1>10. ASSUME ZcuSwap PROVE RunsStored'
  BY <1>10 DEF ZcuSwap, LinkReturn, RunsStored
<1>11. ASSUME ZcuTask PROVE RunsStored'
  BY <1>11 DEF ZcuTask, IsPending, zcuVars, WipTask, RunsStored
<1>12. ASSUME ZcuLock PROVE RunsStored'
  BY <1>12 DEF ZcuLock, LinkReturn, IsPending, zcuVars, WipTask, RunsStored
<1>13. ASSUME ZcuRun PROVE RunsStored'
  BY <1>13 DEF ZcuRun, Advance, NextZcu, RunsStored
<1>14. ASSUME ZcuDec PROVE RunsStored'
  BY <1>14 DEF ZcuDec, Advance, NextZcu, RunsStored
<1>15. ASSUME NEW more \in BOOLEAN, DoIdleTask(more) PROVE RunsStored'
  BY <1>15 DEF DoIdleTask, RunsStored
<1>16. CASE UNCHANGED <<lpc, wip_zcu, wip_zcu_idx, mir>>
  BY <1>16 DEF WipTask, RunsStored
<1>17. FinishItems \/ GiveUp \/ Dispatch \/ MainSpawn \/ EndWork \/ Wait \/
      Flush \/ (\E p \in PrelinkItems : StartPrelinkItem(p)) \/
      (\E p \in PrelinkItems : EnqueuePrelink(p)) => UNCHANGED <<lpc, wip_zcu,
      wip_zcu_idx, mir>>
  BY DEF FinishItems, FinishPrelinkItem, SetRunning, GiveUp, Dispatch,
    DispatchOther, MainSpawn, SpawnFlush, EndWork, Wait, Flush,
    StartPrelinkItem, EnqueuePrelink, preVars, zcuVars, airVars, runVars,
    poolVars, linkVars, mainVars
<1>18. (\E p \in PrelinkItems : NoPrelinkOutput(p)) \/
      (\E p \in PrelinkItems : ItemSpawn(p)) \/
      (\E p \in PrelinkItems : ItemFinish(p)) \/
      (\E p \in PrelinkItems : ItemExit(p)) \/
      (\E f \in LinkFuncs : MirReady(f)) \/
      (\E f \in LinkFuncs : CodegenSpawn(f)) \/
      (\E f \in LinkFuncs : CodegenExit(f)) => UNCHANGED <<lpc, wip_zcu,
      wip_zcu_idx, mir>>
  BY DEF NoPrelinkOutput, ItemSpawn, SpawnFlush, ItemFinish,
    FinishPrelinkItem, SetRunning, ItemExit, MirReady, CodegenSpawn,
    CodegenExit, preVars, zcuVars, airVars, runVars, poolVars, linkVars,
    mainVars
<1>19. UNCHANGED vars => UNCHANGED <<lpc, wip_zcu, wip_zcu_idx, mir>>
  BY DEF vars, preVars, zcuVars, airVars, runVars, poolVars, linkVars, mainVars
<1>20. QED
  BY <1>1, <1>2, <1>3, <1>4, <1>5, <1>6, <1>7, <1>8, <1>9, <1>10, <1>11,
    <1>12, <1>13, <1>14, <1>15, <1>16, <1>17, <1>18, <1>19
  DEF Next, MainNext, ItemNext, CodegenNext, LinkNext

\* The next task stays the next one while the link thread is stopped.
LEMMA NextSame ==
    ASSUME TypeOK, UNCHANGED <<wip_zcu, wip_zcu_idx>>,
           queued_zcu' = queued_zcu \/ \E t \in Tasks : queued_zcu' = Append(queued_zcu, t)
    PROVE  \A f : NextIs(f) => NextIs(f)'
<1>1. CASE queued_zcu' = queued_zcu
  BY <1>1 DEF NextIs, WipTask
<1>2. ASSUME NEW t \in Tasks, queued_zcu' = Append(queued_zcu, t)
      PROVE  queued_zcu # <<>> => queued_zcu' # <<>> /\ queued_zcu'[1] = queued_zcu[1]
  BY <1>2 DEF TypeOK, ZcuType
<1> QED
  BY <1>1, <1>2 DEF NextIs, WipTask

LEMMA NextAwaitedNext == RunInv /\ PreInv /\ MirInv /\ [Next]_vars => NextAwaited'
<1> SUFFICES ASSUME RunInv, PreInv, MirInv, [Next]_vars PROVE NextAwaited'
  OBVIOUS
<1> USE DEF MirInv
<1>1. ASSUME Start PROVE NextAwaited'
  <2>1. state = "finished"
    BY <1>1, Rested DEF Start, PreInv
  <2> QED
    BY <1>1, <2>1 DEF Start, SetRunning, runVars, NextAwaited
<1>2. ASSUME FinishItems PROVE NextAwaited'
  <2>1. \A g : NextIs(g) => NextIs(g)'
    BY <1>2, NextSame DEF FinishItems, zcuVars, RunInv
  <2> QED
    BY <1>2, <2>1 DEF FinishItems, FinishPrelinkItem, SetRunning, runVars, NextAwaited,
       RunInv, TypeOK, MainType, WorkerType
<1>3. ASSUME CodegenFunc PROVE NextAwaited'
  <2>1. PICK f \in LinkFuncs : DispatchFunc(f)
    BY <1>3 DEF CodegenFunc
  <2>2. \A g : NextIs(g) => NextIs(g)'
    BY <2>1, NextSame DEF DispatchFunc, zcuVars, RunInv
  <2> QED
    BY <2>1, <2>2 DEF DispatchFunc, runVars, NextAwaited, RunInv, TypeOK, MainType,
       WorkerType
<1>4. ASSUME EnqueueZcu \/ AirWake PROVE NextAwaited'
  <2>1. CASE AppendZcu(cur)
    <3>1. cur \in Tasks /\ cg' = cg
      BY <1>4 DEF EnqueueZcu, AirWake, EnqueueSection, RunInv, TypeOK, MainType, WorkerType
    <3>2. \A g : NextIs(g) => NextIs(g)'
      BY <2>1, <3>1, NextSame DEF AppendZcu, RunInv
    <3>3. CASE Restarts /\ IsPending(cur)
      <4>1. NoZcu
        BY <3>3 DEF Restarts, PreInv, Drained
      <4>2. ~(wip_zcu_idx' < Len(wip_zcu'))
        BY <2>1, <4>1, QueueFacts DEF AppendZcu, NoZcu, RunInv
      <4>3. queued_zcu' = <<cur>>
        BY <2>1, <4>1 DEF AppendZcu, NoZcu
      <4>4. wait_for' = cur /\ state = "finished"
        BY <2>1, <3>3 DEF AppendZcu, Restarts
      <4>5. \A g : g = cur => NextIs(g)'
        BY <4>2, <4>3 DEF NextIs
      <4> QED
        BY <3>1, <3>2, <4>4, <4>5 DEF NextAwaited
    <3>4. CASE ~(Restarts /\ IsPending(cur))
      <4>1. state' = "running" \/ (state' = state /\ wait_for' = wait_for)
        BY <2>1, <3>4 DEF AppendZcu, SetRunning, runVars
      <4> QED
        BY <3>1, <3>2, <4>1 DEF NextAwaited
    <3> QED
      BY <3>3, <3>4
  <2>2. CASE ~AppendZcu(cur)
    BY <1>4, <2>2 DEF EnqueueZcu, AirWake, EnqueueSection, SleepForAir, AppendZcu,
       AppendFails, Restarts, SetRunning, runVars, zcuVars, preVars, linkVars, NextIs,
       WipTask, NextAwaited
  <2> QED
    BY <2>1, <2>2
<1>5. ASSUME NEW p \in PrelinkItems, EnqueuePrelink(p) PROVE NextAwaited'
  <2>1. \A g : NextIs(g) => NextIs(g)'
    BY <1>5, NextSame DEF EnqueuePrelink, zcuVars, RunInv
  <2> QED
    BY <1>5, <2>1 DEF EnqueuePrelink, SetRunning, runVars, NextAwaited, RunInv, TypeOK,
       MainType, WorkerType
<1>6. ASSUME NEW p \in PrelinkItems, ItemFinish(p) PROVE NextAwaited'
  <2>1. \A g : NextIs(g) => NextIs(g)'
    BY <1>6, NextSame DEF ItemFinish, zcuVars, RunInv
  <2> QED
    BY <1>6, <2>1 DEF ItemFinish, FinishPrelinkItem, SetRunning, runVars, NextAwaited,
       RunInv, TypeOK, MainType, WorkerType
<1>7. ASSUME NEW f \in LinkFuncs, CodegenStore(f) PROVE NextAwaited'
  <2>1. \A g : NextIs(g) => NextIs(g)'
    BY <1>7, NextSame DEF CodegenStore, zcuVars, RunInv
  <2> QED
    BY <1>7, <2>1 DEF CodegenStore, runVars, NextAwaited, RunInv, TypeOK, MainType,
       WorkerType
<1>8. ASSUME NEW f \in LinkFuncs, MirReady(f) PROVE NextAwaited'
  <2>1. \A g : NextIs(g) => NextIs(g)'
    BY <1>8, NextSame DEF MirReady, zcuVars, RunInv
  <2> QED
    BY <1>8, <2>1 DEF MirReady, SetRunning, runVars, NextAwaited, RunInv, TypeOK,
       MainType, WorkerType
<1>9. ASSUME NEW f \in LinkFuncs, CodegenSpawn(f) PROVE NextAwaited'
  <2>1. \A g : NextIs(g) => NextIs(g)'
    BY <1>9, NextSame DEF CodegenSpawn, zcuVars, RunInv
  <2> QED
    BY <1>9, <2>1 DEF CodegenSpawn, SpawnFlush, runVars, NextAwaited, RunInv, TypeOK,
       MainType, WorkerType
<1>10. ASSUME NEW f \in LinkFuncs, CodegenExit(f) PROVE NextAwaited'
  <2>1. \A g : NextIs(g) => NextIs(g)'
    BY <1>10, NextSame DEF CodegenExit, zcuVars, RunInv
  <2> QED
    BY <1>10, <2>1 DEF CodegenExit, runVars, NextAwaited, RunInv, TypeOK, MainType,
       WorkerType
<1>11. ASSUME PrelinkSwap PROVE NextAwaited'
  <2>1. state = "running" /\ \A f \in LinkFuncs : cg[f] # "spawn"
    BY <1>11, RunnerFacts DEF PrelinkSwap, RunInv
  <2> QED
    BY <1>11, <2>1 DEF PrelinkSwap, LinkReturn, runVars, NextAwaited
<1>12. ASSUME ZcuSwap PROVE NextAwaited'
  <2>1. state = "running" /\ \A f \in LinkFuncs : cg[f] # "spawn"
    BY <1>12, RunnerFacts DEF ZcuSwap, RunInv
  <2> QED
    BY <1>12, <2>1 DEF ZcuSwap, LinkReturn, runVars, NextAwaited
<1>13. ASSUME ZcuLock PROVE NextAwaited'
  <2>1. state = "running" /\ \A f \in LinkFuncs : cg[f] # "spawn"
    BY <1>13, RunnerFacts DEF ZcuLock, RunInv
  <2> QED
    BY <1>13, <2>1 DEF ZcuLock, LinkReturn, runVars, NextAwaited, NextIs, WipTask,
       LinkType, TaskPcs, zcuVars, RunInv, TypeOK
<1>14. ASSUME ZcuRun PROVE NextAwaited'
  <2>1. state = "running" /\ \A f \in LinkFuncs : cg[f] # "spawn"
    BY <1>14, RunnerFacts DEF ZcuRun, RunInv
  <2> QED
    BY <1>14, <2>1 DEF ZcuRun, runVars, NextAwaited
<1>15. ASSUME ZcuDec PROVE NextAwaited'
  <2>1. state = "running" /\ \A f \in LinkFuncs : cg[f] # "spawn"
    BY <1>15, RunnerFacts DEF ZcuDec, RunInv
  <2> QED
    BY <1>15, <2>1 DEF ZcuDec, runVars, NextAwaited
<1>16. CASE UNCHANGED <<queued_zcu, wip_zcu, wip_zcu_idx, state, wait_for, cg>>
  BY <1>16 DEF NextIs, WipTask, NextAwaited
<1>17. GiveUp \/ Dispatch \/ DeinitTask \/ MainSpawn \/ EndWork \/ Wait \/
      Flush \/ (\E p \in PrelinkItems : StartPrelinkItem(p)) \/
      (\E p \in PrelinkItems : NoPrelinkOutput(p)) => UNCHANGED <<queued_zcu,
      wip_zcu, wip_zcu_idx, state, wait_for, cg>>
  BY DEF GiveUp, Dispatch, DispatchOther, DeinitTask, IsPending, MainSpawn,
    SpawnFlush, EndWork, Wait, Flush, StartPrelinkItem, NoPrelinkOutput,
    preVars, zcuVars, airVars, runVars, poolVars, linkVars, mainVars
<1>18. (\E p \in PrelinkItems : ItemSpawn(p)) \/
      (\E p \in PrelinkItems : ItemExit(p)) \/ FlushStart \/ PrelinkRun \/
      PrelinkCall \/ ZcuTask \/ (\E more \in BOOLEAN : DoIdleTask(more)) =>
      UNCHANGED <<queued_zcu, wip_zcu, wip_zcu_idx, state, wait_for, cg>>
  BY DEF ItemSpawn, SpawnFlush, ItemExit, FlushStart, PrelinkRun, PrelinkCall,
    NextZcu, ZcuTask, IsPending, DoIdleTask, preVars, zcuVars, airVars,
    runVars, poolVars, linkVars, mainVars
<1>19. UNCHANGED vars => UNCHANGED <<queued_zcu, wip_zcu, wip_zcu_idx, state, wait_for, cg>>
  BY DEF vars, preVars, zcuVars, airVars, runVars, poolVars, linkVars, mainVars
<1>20. QED
  BY <1>1, <1>2, <1>3, <1>4, <1>5, <1>6, <1>7, <1>8, <1>9, <1>10, <1>11,
    <1>12, <1>13, <1>14, <1>15, <1>16, <1>17, <1>18, <1>19
  DEF Next, MainNext, ItemNext, CodegenNext, LinkNext

LEMMA MirInvInit == Init => MirInv
<1> SUFFICES ASSUME Init PROVE MirInv
  OBVIOUS
<1>1. \A t : ~Todo(t)
  BY DEF Init, Todo, InWip, InQueue, First
<1>2. Distinct
  BY DEF Init, Distinct, InWip, InQueue, First
<1> QED
  BY <1>1, <1>2
  DEF Init, MirInv, TodoLive, CurLive, WorkersWrite, RunsStored, NextAwaited

LEMMA MirInvNext == RunInv /\ PreInv /\ MirInv /\ [Next]_vars => MirInv'
<1> SUFFICES ASSUME RunInv, PreInv, MirInv, [Next]_vars PROVE MirInv'
  OBVIOUS
<1>1. Distinct'
  BY TodoNext DEF TodoGrows
<1> QED
  BY <1>1, TodoLiveNext, CurLiveNext, WorkersWriteNext, RunsStoredNext, NextAwaitedNext
     DEF MirInv

LEMMA AllInvAlways == Spec => [](RunInv /\ PreInv /\ MirInv)
BY RunInvInit, RunInvNext, PreInvInit, PreInvNext, MirInvInit, MirInvNext, PTL DEF Spec

\* The link thread that stopped for a MIR is restarted: the worker of that function has
\* yet to take the mutex in mirReady, and the function is the next task (NoLostMir).
THEOREM MirNotLost == Spec => []NoLostMir
<1>1. RunInv /\ PreInv /\ MirInv => NoLostMir
  <2> SUFFICES ASSUME RunInv, PreInv, MirInv, state = "wait_for_mir"
               PROVE  /\ wait_for \in LinkFuncs /\ cg[wait_for] \in {"running", "stored"}
                      /\ LET rest == WipRest \o queued_zcu IN
                            rest # <<>> /\ Head(rest) = wait_for
    BY DEF NoLostMir
  <2>1. wait_for \in LinkFuncs /\ cg[wait_for] \in {"running", "stored"}
    BY DEF PreInv, MirAwaited
  <2>2. NextIs(wait_for)
    BY <2>1 DEF MirInv, NextAwaited
  <2>3. lpc = "idle"
    BY RunnerFacts DEF RunInv
  <2>4. wip_zcu \in Seq(Tasks) /\ queued_zcu \in Seq(Tasks) /\ wip_zcu_idx \in 0 .. Len(wip_zcu)
    BY DEF RunInv, TypeOK, ZcuType
  <2>5. WipRest = SubSeq(wip_zcu, wip_zcu_idx + 1, Len(wip_zcu))
    BY <2>3 DEF WipRest
  <2>6. CASE wip_zcu_idx < Len(wip_zcu)
    <3>1. wip_zcu[wip_zcu_idx + 1] = wait_for
      BY <2>2, <2>6 DEF NextIs, WipTask
    <3>2. WipRest \in Seq(Tasks) /\ Len(WipRest) >= 1 /\ WipRest[1] = wait_for
      BY <2>4, <2>5, <2>6, <3>1
    <3>3. WipRest \o queued_zcu \in Seq(Tasks) /\ Len(WipRest \o queued_zcu) >= 1
          /\ (WipRest \o queued_zcu)[1] = wait_for
      BY <2>4, <3>2
    <3> QED
      BY <2>1, <3>3
  <2>7. CASE ~(wip_zcu_idx < Len(wip_zcu))
    <3>1. queued_zcu # <<>> /\ queued_zcu[1] = wait_for
      BY <2>2, <2>7 DEF NextIs
    <3>2. WipRest \in Seq(Tasks) /\ Len(WipRest) = 0
      BY <2>4, <2>5, <2>7
    <3>3. WipRest \o queued_zcu \in Seq(Tasks) /\ Len(WipRest \o queued_zcu) >= 1
          /\ (WipRest \o queued_zcu)[1] = wait_for
      BY <2>4, <3>1, <3>2
    <3> QED
      BY <2>1, <3>3
  <2> QED
    BY <2>6, <2>7
<1> QED
  BY <1>1, AllInvAlways, PTL

\* A worker stores into a live pending MIR, mirReady reads one that is not freed, and the
\* link thread runs a task with its MIR in place (MirOwnership), whichever of
\* them comes first.
THEOREM MirOwned == Spec => []MirOwnership
<1>1. RunInv /\ PreInv /\ MirInv => MirOwnership
  <2> SUFFICES ASSUME RunInv, PreInv, MirInv PROVE MirOwnership
    OBVIOUS
  <2>1. \A f \in LinkFuncs : cg[f] = "running" => mir[f] = "pending"
    BY DEF MirInv, WorkersWrite
  <2>2. ASSUME NEW f \in LinkFuncs, cg[f] = "spawn" PROVE mir[f] \in {"ready", "failed"}
    <3>1. NextIs(f) /\ lpc = "idle"
      BY <2>2, RunnerFacts DEF MirInv, NextAwaited, RunInv
    <3>2. Todo(f) /\ f \in Tasks
      BY <3>1, NextTodo DEF RunInv, Tasks
    <3>3. mir[f] \in {"pending", "ready", "failed"}
      BY <3>2 DEF MirInv, TodoLive, Live
    <3> QED
      BY <2>2, <3>3 DEF PreInv, MirAwaited
  <2>3. ASSUME lpc \in {"zcu_task", "zcu_lock", "zcu_run"}, WipTask \in LinkFuncs
        PROVE  /\ mir[WipTask] \in {"pending", "ready", "failed"}
               /\ lpc = "zcu_run" => mir[WipTask] # "pending"
    <3>1. wip_zcu_idx < Len(wip_zcu)
      BY <2>3 DEF RunInv, TypeOK, LinkType, TaskPcs
    <3>2. WipTask \in Tasks /\ Todo(WipTask)
      BY <2>3, <3>1, WipTaskTodo DEF RunInv
    <3> QED
      BY <2>3, <3>2 DEF MirInv, TodoLive, Live, RunsStored
  <2> QED
    BY <2>1, <2>2, <2>3 DEF MirOwnership
<1> QED
  BY <1>1, AllInvAlways, PTL
-----------------------------------------------------------------------------
(***************************************************************************)
(* The order of the tasks: those linked, those of wip_zcu that the link    *)
(* thread has not begun and those of queued_zcu are, in this order, the    *)
(* tasks enqueued in this update.                                          *)
(***************************************************************************)
InOrder ==
    /\ Len(enqueued) = Len(linked) + (Len(wip_zcu) + 1 - First) + Len(queued_zcu)
    /\ \A i \in 1 .. Len(linked) : linked[i] = enqueued[i]
    /\ \A i \in First .. Len(wip_zcu) : wip_zcu[i] = enqueued[Len(linked) + 1 + i - First]
    /\ \A j \in 1 .. Len(queued_zcu) :
          queued_zcu[j] = enqueued[Len(enqueued) - Len(queued_zcu) + j]

LEMMA OrderFacts ==
    ASSUME TypeOK
    PROVE  /\ enqueued \in Seq(Tasks) /\ linked \in Seq(Tasks)
           /\ queued_zcu \in Seq(Tasks) /\ wip_zcu \in Seq(Tasks)
           /\ Len(enqueued) \in Nat /\ Len(linked) \in Nat
           /\ Len(queued_zcu) \in Nat /\ Len(wip_zcu) \in Nat
           /\ First \in Nat /\ First >= 1 /\ First <= Len(wip_zcu) + 1
<1>1. wip_zcu_idx \in 0 .. Len(wip_zcu)
      /\ (lpc = "zcu_dec" => wip_zcu_idx < Len(wip_zcu))
  BY DEF TypeOK, ZcuType, LinkType, TaskPcs
<1>2. /\ enqueued \in Seq(Tasks) /\ linked \in Seq(Tasks)
      /\ queued_zcu \in Seq(Tasks) /\ wip_zcu \in Seq(Tasks)
  BY DEF TypeOK, ZcuType
<1>3. First = wip_zcu_idx + 1 \/ (First = wip_zcu_idx + 2 /\ lpc = "zcu_dec")
  BY DEF First
<1>4. Len(wip_zcu) \in Nat
  BY <1>2
<1> QED
  BY <1>1, <1>2, <1>3, <1>4

LEMMA OrderSame ==
    ASSUME InOrder, UNCHANGED <<enqueued, linked, wip_zcu, queued_zcu>>, First' = First
    PROVE  InOrder'
BY DEF InOrder

\* A task goes to the end of the queue.
LEMMA OrderAppend ==
    ASSUME TypeOK, InOrder, NEW t \in Tasks, UNCHANGED <<linked, wip_zcu>>, First' = First,
           queued_zcu' = Append(queued_zcu, t), enqueued' = Append(enqueued, t)
    PROVE  InOrder'
<1> DEFINE e == Len(enqueued)  q == Len(queued_zcu)  l == Len(linked)  w == Len(wip_zcu)
<1>1. e \in Nat /\ q \in Nat /\ l \in Nat /\ w \in Nat /\ First \in Nat /\ First <= w + 1
      /\ First >= 1
  BY OrderFacts
<1>2. e = l + (w + 1 - First) + q
  BY DEF InOrder
<1>3. /\ Len(enqueued') = e + 1 /\ enqueued'[e + 1] = t
      /\ \A i \in 1 .. e : enqueued'[i] = enqueued[i]
  BY OrderFacts
<1>4. /\ Len(queued_zcu') = q + 1 /\ queued_zcu'[q + 1] = t
      /\ \A i \in 1 .. q : queued_zcu'[i] = queued_zcu[i]
  BY OrderFacts
<1>5. Len(linked') = l /\ Len(wip_zcu') = w
  OBVIOUS
<1>6. \A i \in 1 .. l : linked'[i] = enqueued'[i]
  BY <1>1, <1>2, <1>3 DEF InOrder
<1>7. \A i \in First .. w : wip_zcu'[i] = enqueued'[l + 1 + i - First]
  <2>1. SUFFICES ASSUME NEW i \in First .. w
                 PROVE  wip_zcu[i] = enqueued'[l + 1 + i - First]
    OBVIOUS
  <2>2. l + 1 + i - First \in 1 .. e
    BY <1>1, <1>2
  <2>3. wip_zcu[i] = enqueued[l + 1 + i - First]
    BY DEF InOrder
  <2> QED
    BY <1>3, <2>2, <2>3
<1>8. \A j \in 1 .. q + 1 : queued_zcu'[j] = enqueued'[e - q + j]
  <2>1. SUFFICES ASSUME NEW j \in 1 .. q + 1 PROVE queued_zcu'[j] = enqueued'[e - q + j]
    OBVIOUS
  <2>2. CASE j = q + 1
    <3>1. e - q + j = e + 1
      BY <1>1, <2>2
    <3> QED
      BY <1>3, <1>4, <2>2, <3>1
  <2>3. CASE j # q + 1
    <3>1. j \in 1 .. q /\ e - q + j \in 1 .. e
      BY <1>1, <1>2, <2>3
    <3>2. queued_zcu[j] = enqueued[e - q + j]
      BY <3>1 DEF InOrder
    <3> QED
      BY <1>3, <1>4, <3>1, <3>2
  <2> QED
    BY <2>2, <2>3
<1>9. Len(enqueued') = l + (w + 1 - First) + (q + 1)
  BY <1>1, <1>2, <1>3
<1>10. \A j \in 1 .. Len(queued_zcu') :
          queued_zcu'[j] = enqueued'[Len(enqueued') - Len(queued_zcu') + j]
  <2>1. SUFFICES ASSUME NEW j \in 1 .. q + 1
                 PROVE  queued_zcu'[j] = enqueued'[(e + 1) - (q + 1) + j]
    BY <1>3, <1>4
  <2>2. (e + 1) - (q + 1) + j = e - q + j
    BY <1>1
  <2> QED
    BY <1>8, <2>2
<1> QED
  BY <1>4, <1>5, <1>6, <1>7, <1>9, <1>10 DEF InOrder

\* The link thread, done with wip_zcu, takes the queue over.
LEMMA OrderSwap ==
    ASSUME TypeOK, InOrder, UNCHANGED <<enqueued, linked>>, First = Len(wip_zcu) + 1,
           First' = 1, wip_zcu' = queued_zcu, queued_zcu' = <<>>
    PROVE  InOrder'
<1> DEFINE e == Len(enqueued)  q == Len(queued_zcu)  l == Len(linked)
<1>1. e \in Nat /\ q \in Nat /\ l \in Nat /\ Len(wip_zcu) \in Nat
  BY OrderFacts
<1>2. e = l + q
  BY <1>1 DEF InOrder
<1>3. Len(queued_zcu') = 0 /\ Len(wip_zcu') = q /\ Len(enqueued') = e /\ Len(linked') = l
  OBVIOUS
<1>4. \A i \in 1 .. q : wip_zcu'[i] = enqueued'[l + 1 + i - 1]
  <2>1. SUFFICES ASSUME NEW i \in 1 .. q PROVE queued_zcu[i] = enqueued[l + 1 + i - 1]
    OBVIOUS
  <2>2. queued_zcu[i] = enqueued[e - q + i]
    BY DEF InOrder
  <2>3. e - q + i = l + 1 + i - 1
    BY <1>1, <1>2
  <2> QED
    BY <2>2, <2>3
<1>5. e = l + (q + 1 - 1) + 0
  BY <1>1, <1>2
<1> QED
  BY <1>3, <1>4, <1>5 DEF InOrder

\* The next task is linked.
LEMMA OrderLink ==
    ASSUME TypeOK, InOrder, UNCHANGED <<enqueued, wip_zcu, queued_zcu>>,
           First = wip_zcu_idx + 1, wip_zcu_idx < Len(wip_zcu), First' = First + 1,
           linked' = Append(linked, WipTask)
    PROVE  InOrder' /\ Len(linked) < Len(enqueued) /\ WipTask = enqueued[Len(linked) + 1]
<1> DEFINE e == Len(enqueued)  q == Len(queued_zcu)  l == Len(linked)  w == Len(wip_zcu)
<1>1. e \in Nat /\ q \in Nat /\ l \in Nat /\ w \in Nat /\ First \in Nat /\ First <= w
      /\ First >= 1 /\ wip_zcu_idx \in Nat
  BY OrderFacts, QueueFacts
<1>2. e = l + (w + 1 - First) + q
  BY DEF InOrder
<1>3. WipTask = wip_zcu[First]
  BY DEF WipTask
<1>4. First \in First .. w
  BY <1>1
<1>5. wip_zcu[First] = enqueued[l + 1 + First - First]
  BY <1>4 DEF InOrder
<1>6. WipTask = enqueued[l + 1] /\ l < e
  BY <1>1, <1>2, <1>3, <1>5
<1>7. /\ Len(linked') = l + 1 /\ linked'[l + 1] = WipTask
      /\ \A i \in 1 .. l : linked'[i] = linked[i]
  BY OrderFacts
<1>8. \A i \in 1 .. l + 1 : linked'[i] = enqueued[i]
  <2>1. SUFFICES ASSUME NEW i \in 1 .. l + 1 PROVE linked'[i] = enqueued[i]
    OBVIOUS
  <2>2. CASE i = l + 1
    BY <1>6, <1>7, <2>2
  <2>3. CASE i # l + 1
    <3>1. i \in 1 .. l
      BY <1>1, <2>3
    <3> QED
      BY <1>7, <3>1 DEF InOrder
  <2> QED
    BY <2>2, <2>3
<1>9. \A i \in First + 1 .. w : wip_zcu[i] = enqueued[(l + 1) + 1 + i - (First + 1)]
  <2>1. SUFFICES ASSUME NEW i \in First + 1 .. w
                 PROVE  wip_zcu[i] = enqueued[(l + 1) + 1 + i - (First + 1)]
    OBVIOUS
  <2>2. i \in First .. w /\ (l + 1) + 1 + i - (First + 1) = l + 1 + i - First
    BY <1>1
  <2> QED
    BY <2>2 DEF InOrder
<1>10. e = (l + 1) + (w + 1 - (First + 1)) + q
  BY <1>1, <1>2
<1>11. InOrder'
  BY <1>7, <1>8, <1>9, <1>10 DEF InOrder
<1> QED
  BY <1>6, <1>11

\* The step that links a task
LEMMA ZcuRunOrder ==
    ASSUME RunInv, InOrder, ZcuRun
    PROVE  /\ InOrder' /\ Len(linked) < Len(enqueued)
           /\ linked' = Append(linked, enqueued[Len(linked) + 1])
<1>1. lpc = "zcu_run" /\ wip_zcu_idx < Len(wip_zcu) /\ wip_zcu_idx \in Nat
  BY QueueFacts DEF ZcuRun, RunInv, TypeOK, LinkType, TaskPcs
<1>2. First = wip_zcu_idx + 1
  BY <1>1 DEF First
<1>3. First' = First + 1
  <2>1. CASE WipTask \in LinkFuncs
    BY <1>1, <1>2, <2>1 DEF ZcuRun, First
  <2>2. CASE WipTask \notin LinkFuncs
    BY <1>1, <1>2, <2>2 DEF ZcuRun, Advance, NextZcu, First
  <2> QED
    BY <2>1, <2>2
<1>4. UNCHANGED <<enqueued, wip_zcu, queued_zcu>> /\ linked' = Append(linked, WipTask)
  BY DEF ZcuRun
<1> QED
  BY <1>1, <1>2, <1>3, <1>4, OrderLink DEF RunInv

\* When nothing waits to be linked, everything enqueued was linked.
LEMMA AllLinked ==
    ASSUME TypeOK, InOrder, NoZcu, lpc # "zcu_dec"
    PROVE  linked = enqueued
<1>1. Len(queued_zcu) = 0 /\ First = Len(wip_zcu) + 1
  BY DEF NoZcu, First
<1>2. Len(linked) = Len(enqueued)
  BY <1>1, OrderFacts DEF InOrder
<1>3. \A i \in 1 .. Len(linked) : linked[i] = enqueued[i]
  BY DEF InOrder
<1> QED
  BY <1>2, <1>3, OrderFacts, SeqEqual

SwapAtEnd == lpc \in {"zcu_swap", "zcu_idle"} => wip_zcu_idx = Len(wip_zcu)

LEMMA SwapAtEndNext == RunInv /\ SwapAtEnd /\ [Next]_vars => SwapAtEnd'
<1> SUFFICES ASSUME RunInv, SwapAtEnd, [Next]_vars PROVE SwapAtEnd'
  OBVIOUS
<1> USE DEF SwapAtEnd
<1>1. ASSUME FlushStart \/ PrelinkSwap \/ PrelinkRun \/ ZcuTask \/ ZcuLock PROVE SwapAtEnd'
  BY <1>1 DEF FlushStart, PrelinkSwap, PrelinkRun, ZcuTask, ZcuLock, LinkReturn
<1>2. ASSUME PrelinkCall PROVE SwapAtEnd'
  BY <1>2 DEF PrelinkCall, NextZcu, zcuVars
<1>3. ASSUME ZcuSwap PROVE SwapAtEnd'
  <2>1. wip_zcu_idx' = 0 /\ (lpc' = "zcu_idle" => wip_zcu' = <<>>) /\ lpc' # "zcu_swap"
    BY <1>3 DEF ZcuSwap, LinkReturn
  <2> QED
    BY <2>1
<1>4. ASSUME ZcuRun PROVE SwapAtEnd'
  BY <1>4 DEF ZcuRun, Advance, NextZcu
<1>5. ASSUME ZcuDec PROVE SwapAtEnd'
  BY <1>5 DEF ZcuDec, Advance, NextZcu
<1>6. ASSUME NEW more \in BOOLEAN, DoIdleTask(more) PROVE SwapAtEnd'
  BY <1>6 DEF DoIdleTask, zcuVars
<1>7. ASSUME EnqueueZcu \/ AirWake PROVE SwapAtEnd'
  <2>1. UNCHANGED <<lpc, wip_zcu, wip_zcu_idx>>
    BY <1>7 DEF EnqueueZcu, AirWake, EnqueueSection, SleepForAir, AppendZcu,
      AppendFails, linkVars, zcuVars
  <2> QED
    BY <2>1
<1>8. CASE UNCHANGED <<lpc, wip_zcu, wip_zcu_idx>>
  BY <1>8
<1>9. Start \/ FinishItems \/ GiveUp \/ Dispatch \/ CodegenFunc \/ DeinitTask \/
      MainSpawn \/ EndWork \/ Wait \/ Flush => UNCHANGED <<lpc, wip_zcu, wip_zcu_idx>>
  BY DEF Start, FinishItems, FinishPrelinkItem, SetRunning, GiveUp, Dispatch,
    DispatchOther, CodegenFunc, DispatchFunc, DeinitTask, IsPending,
    MainSpawn, SpawnFlush, EndWork, Wait, Flush, preVars, zcuVars, airVars,
    runVars, poolVars, linkVars, mainVars
<1>10. (\E p \in PrelinkItems : StartPrelinkItem(p) \/ ItemNext(p)) \/
       (\E f \in LinkFuncs : CodegenNext(f)) => UNCHANGED <<lpc, wip_zcu, wip_zcu_idx>>
  BY DEF StartPrelinkItem, ItemNext, EnqueuePrelink, SetRunning, NoPrelinkOutput,
    ItemSpawn, SpawnFlush, ItemFinish, FinishPrelinkItem, ItemExit, CodegenNext,
    CodegenStore, MirReady, CodegenSpawn, CodegenExit, preVars, zcuVars, airVars,
    runVars, poolVars, linkVars, mainVars
<1>11. UNCHANGED vars => UNCHANGED <<lpc, wip_zcu, wip_zcu_idx>>
  BY DEF vars, zcuVars, linkVars
<1> QED
  BY <1>1, <1>2, <1>3, <1>4, <1>5, <1>6, <1>7, <1>8, <1>9, <1>10, <1>11
  DEF Next, MainNext, LinkNext

LEMMA InOrderNext == RunInv /\ PreInv /\ SwapAtEnd /\ InOrder /\ [Next]_vars => InOrder'
<1> SUFFICES ASSUME RunInv, PreInv, SwapAtEnd, InOrder, [Next]_vars PROVE InOrder'
  OBVIOUS
<1>1. ASSUME Start PROVE InOrder'
  <2>1. NoZcu /\ lpc = "idle"
    BY <1>1, Rested DEF Start, PreInv
  <2>2. /\ UNCHANGED <<queued_zcu, wip_zcu, wip_zcu_idx, lpc>>
        /\ enqueued' = <<>> /\ linked' = <<>>
    BY <1>1 DEF Start, linkVars
  <2>3. /\ First' = Len(wip_zcu) + 1 /\ Len(queued_zcu') = 0 /\ wip_zcu' = wip_zcu
        /\ Len(wip_zcu) \in Nat
    BY <2>1, <2>2, QueueFacts DEF NoZcu, First, RunInv
  <2>4. Len(enqueued') = 0 /\ Len(linked') = 0
    BY <2>2
  <2> QED
    BY <2>3, <2>4 DEF InOrder
<1>2. ASSUME EnqueueZcu \/ AirWake PROVE InOrder'
  <2>1. First' = First /\ cur \in Tasks /\ UNCHANGED <<linked, wip_zcu>>
    BY <1>2 DEF EnqueueZcu, AirWake, EnqueueSection, SleepForAir, AppendZcu,
       AppendFails, zcuVars, linkVars, First, RunInv, TypeOK, MainType
  <2>2. CASE AppendZcu(cur)
    BY <2>1, <2>2, OrderAppend DEF AppendZcu, RunInv
  <2>3. CASE ~AppendZcu(cur)
    <3>1. UNCHANGED <<queued_zcu, wip_zcu, enqueued, linked>>
      BY <1>2, <2>3 DEF EnqueueZcu, AirWake, EnqueueSection, SleepForAir, AppendFails,
         zcuVars
    <3> QED
      BY <2>1, <3>1, OrderSame
  <2> QED
    BY <2>2, <2>3
<1>3. ASSUME ZcuSwap PROVE InOrder'
  <2>1. /\ First' = 1 /\ wip_zcu' = queued_zcu /\ queued_zcu' = <<>>
        /\ UNCHANGED <<enqueued, linked>> /\ lpc = "zcu_swap"
    BY <1>3 DEF ZcuSwap, LinkReturn, First
  <2>2. First = Len(wip_zcu) + 1
    BY <2>1 DEF SwapAtEnd, First
  <2> QED
    BY <2>1, <2>2, OrderSwap DEF RunInv
<1>4. ASSUME ZcuRun PROVE InOrder'
  BY <1>4, ZcuRunOrder
<1>5. ASSUME ZcuDec PROVE InOrder'
  <2>1. lpc = "zcu_dec" /\ wip_zcu_idx \in Nat
    BY <1>5, QueueFacts DEF ZcuDec, RunInv
  <2>2. First' = First /\ UNCHANGED <<enqueued, linked, wip_zcu, queued_zcu>>
    BY <1>5, <2>1 DEF ZcuDec, Advance, NextZcu, First
  <2> QED
    BY <2>2, OrderSame
<1>6. CASE First' = First /\ UNCHANGED <<enqueued, linked, wip_zcu, queued_zcu>>
  BY <1>6, OrderSame
<1>7. FlushStart \/ PrelinkSwap \/ PrelinkRun \/ ZcuTask \/ ZcuLock \/ PrelinkCall
      => First' = First /\ UNCHANGED <<enqueued, linked, wip_zcu, queued_zcu>>
  BY DEF FlushStart, PrelinkSwap, PrelinkRun, ZcuTask, ZcuLock, PrelinkCall, NextZcu,
    LinkReturn, zcuVars, First
<1>8. ASSUME NEW more \in BOOLEAN, DoIdleTask(more)
      PROVE  First' = First /\ UNCHANGED <<enqueued, linked, wip_zcu, queued_zcu>>
  BY <1>8 DEF DoIdleTask, zcuVars, First
<1>9. FinishItems \/ GiveUp \/ Dispatch \/ CodegenFunc \/ DeinitTask \/
      MainSpawn \/ EndWork \/ Wait \/ Flush
      => First' = First /\ UNCHANGED <<enqueued, linked, wip_zcu, queued_zcu>>
  BY DEF FinishItems, FinishPrelinkItem, SetRunning, GiveUp, Dispatch,
    DispatchOther, CodegenFunc, DispatchFunc, DeinitTask, IsPending,
    MainSpawn, SpawnFlush, EndWork, Wait, Flush, preVars, zcuVars, airVars,
    runVars, poolVars, linkVars, mainVars, First
<1>10. (\E p \in PrelinkItems : StartPrelinkItem(p) \/ ItemNext(p)) \/
       (\E f \in LinkFuncs : CodegenNext(f))
       => First' = First /\ UNCHANGED <<enqueued, linked, wip_zcu, queued_zcu>>
  BY DEF StartPrelinkItem, ItemNext, EnqueuePrelink, SetRunning, NoPrelinkOutput,
    ItemSpawn, SpawnFlush, ItemFinish, FinishPrelinkItem, ItemExit, CodegenNext,
    CodegenStore, MirReady, CodegenSpawn, CodegenExit, preVars, zcuVars, airVars,
    runVars, poolVars, linkVars, mainVars, First
<1>11. UNCHANGED vars => First' = First /\ UNCHANGED <<enqueued, linked, wip_zcu, queued_zcu>>
  BY DEF vars, zcuVars, linkVars, First
<1> QED
  BY <1>1, <1>2, <1>3, <1>4, <1>5, <1>6, <1>7, <1>8, <1>9, <1>10, <1>11
  DEF Next, MainNext, LinkNext

LEMMA OrderInit == Init => SwapAtEnd /\ InOrder
<1> SUFFICES ASSUME Init PROVE SwapAtEnd /\ InOrder
  OBVIOUS
<1>1. /\ Len(enqueued) = 0 /\ Len(linked) = 0 /\ Len(queued_zcu) = 0 /\ Len(wip_zcu) = 0
      /\ First = 1 /\ lpc = "idle"
  BY DEF Init, First
<1> QED
  BY <1>1 DEF SwapAtEnd, InOrder

LEMMA OrderAlways == Spec => [](RunInv /\ PreInv /\ SwapAtEnd /\ InOrder)
BY RunInvInit, RunInvNext, PreInvInit, PreInvNext, OrderInit, SwapAtEndNext, InOrderNext,
   PTL DEF Spec

-----------------------------------------------------------------------------
(***************************************************************************)
(* The queue implements LinkPipeline.                                      *)
(***************************************************************************)
LEMMA PipelineInit == Init => Pipeline!Init
<1> SUFFICES ASSUME Init PROVE Pipeline!Init
  OBVIOUS
<1> DEFINE I == PrelinkItems \cup {CmdLine}
<1>1. <<>> \in Seq(I) /\ <<CmdLine>> \in Seq(I)
  OBVIOUS
<1>2. wip_prelink = <<>> /\ queued_prelink \in Seq(I)
  BY <1>1 DEF Init
<1>3. wip_prelink \o queued_prelink \in Seq(I)
  BY <1>2
<1> QED
  BY <1>3 DEF Init, Pipeline!Init


\* One item less: the pipeline closes when it was the last.
LEMMA FinishPipeline ==
    ASSUME RunInv, PreInv, mpc = "items" \/ Unfinished # {},
           prelink_wait_count' = prelink_wait_count - 1,
           UNCHANGED <<wip_prelink, queued_prelink, enqueued, linked>>
    PROVE  [Pipeline!Next]_(Pipeline!pipeVars)
<1>1. prelink_wait_count \in Int /\ prelink_wait_count > 0
  BY CountPositive DEF PreInv, RunInv
<1>2. CASE prelink_wait_count = 1
  BY <1>1, <1>2 DEF Pipeline!Next, Pipeline!Close
<1>3. CASE prelink_wait_count # 1
  <2>1. prelink_wait_count' > 0
    BY <1>1, <1>3
  <2> QED
    BY <1>1, <2>1 DEF Pipeline!pipeVars
<1> QED
  BY <1>2, <1>3

LEMMA StartPipeline ==
    ASSUME RunInv, PreInv, SwapAtEnd, InOrder, Start
    PROVE  Pipeline!Begin
<1>1. NoZcu /\ lpc = "idle"
  BY Rested DEF Start, PreInv
<1>2. linked = enqueued
  BY <1>1, AllLinked DEF RunInv
<1>3. prelink_wait_count' > 0
  BY DEF Start
<1> QED
  BY <1>2, <1>3 DEF Start, Pipeline!Begin

LEMMA EnqueuePipeline ==
    ASSUME RunInv, PreInv, NEW p \in PrelinkItems, EnqueuePrelink(p)
    PROVE  Pipeline!Deliver(p)
<1>1. p \in Unfinished
  BY DEF EnqueuePrelink, Unfinished
<1>2. prelink_wait_count > 0 /\ prelink_wait_count' = prelink_wait_count
  BY <1>1, CountPositive DEF PreInv, RunInv, EnqueuePrelink
<1>3. queued_prelink' = Append(queued_prelink, p) /\ wip_prelink' = wip_prelink
      /\ UNCHANGED <<enqueued, linked>>
  BY DEF EnqueuePrelink, zcuVars
<1>4. wip_prelink \o Append(queued_prelink, p) = Append(wip_prelink \o queued_prelink, p)
  <2>1. queued_prelink \in Seq(PrelinkItems \cup {CmdLine})
        /\ wip_prelink \in Seq(PrelinkItems \cup {CmdLine})
    BY DEF RunInv, TypeOK, PrelinkType
  <2> QED
    BY <2>1
<1> QED
  BY <1>2, <1>3, <1>4 DEF Pipeline!Deliver

LEMMA SwapPipeline ==
    ASSUME RunInv, PreInv, PrelinkSwap
    PROVE  UNCHANGED Pipeline!pipeVars
<1>1. wip_prelink = <<>> /\ queued_prelink \in Seq(PrelinkItems \cup {CmdLine})
  BY DEF PrelinkSwap, PreInv, WipHeld, RunInv, TypeOK, PrelinkType
<1>2. wip_prelink' = queued_prelink /\ queued_prelink' = <<>>
      /\ UNCHANGED <<prelink_wait_count, enqueued, linked>>
  BY <1>1 DEF PrelinkSwap, zcuVars
<1>3. wip_prelink' \o queued_prelink' = wip_prelink \o queued_prelink
  BY <1>1, <1>2
<1> QED
  BY <1>2, <1>3 DEF Pipeline!pipeVars

LEMMA RunPipeline ==
    ASSUME RunInv, PreInv, PrelinkRun
    PROVE  [Pipeline!Next]_(Pipeline!pipeVars)
<1> DEFINE w == Len(wip_prelink)  all == wip_prelink \o queued_prelink
<1>1. queued_prelink \in Seq(PrelinkItems \cup {CmdLine})
      /\ wip_prelink \in Seq(PrelinkItems \cup {CmdLine})
  BY DEF RunInv, TypeOK, PrelinkType
<1>2. wip_prelink' = <<>> /\ UNCHANGED <<prelink_wait_count, queued_prelink, enqueued, linked>>
  BY DEF PrelinkRun, zcuVars
<1>3. wip_prelink' \o queued_prelink' = queued_prelink
  BY <1>1, <1>2
<1>4. CASE wip_prelink = <<>>
  BY <1>2, <1>4 DEF Pipeline!pipeVars
<1>5. CASE wip_prelink # <<>>
  <2>1. w \in 1 .. Len(all) /\ Len(all) = w + Len(queued_prelink)
    BY <1>1, <1>5
  <2>2. SubSeq(all, w + 1, Len(all)) = queued_prelink
    <3>1. all \in Seq(PrelinkItems \cup {CmdLine})
      BY <1>1
    <3>2. SubSeq(all, w + 1, Len(all)) \in Seq(PrelinkItems \cup {CmdLine})
          /\ Len(SubSeq(all, w + 1, Len(all))) = Len(queued_prelink)
      BY <1>1, <2>1, <3>1
    <3>3. \A i \in 1 .. Len(queued_prelink) :
             SubSeq(all, w + 1, Len(all))[i] = queued_prelink[i]
      BY <1>1, <2>1
    <3> QED
      BY <1>1, <3>2, <3>3, SeqEqual
  <2>3. Pipeline!Load(w)
    BY <1>2, <1>3, <2>1, <2>2 DEF Pipeline!Load
  <2> QED
    BY <2>1, <2>3 DEF Pipeline!Next, Pipeline!LoadSome
<1> QED
  BY <1>4, <1>5

LEMMA LinkPipelineStep ==
    ASSUME RunInv, PreInv, InOrder, ZcuRun
    PROVE  Pipeline!Link
<1>1. lpc = "zcu_run" /\ UNCHANGED <<prelink_wait_count, queued_prelink, wip_prelink, enqueued>>
  BY DEF ZcuRun, preVars
<1>2. prelink_wait_count = 0 /\ queued_prelink = <<>>
  BY <1>1 DEF PreInv, PrelinkDone, PrelinkOver, ZcuPcs
<1>3. wip_prelink = <<>>
  BY <1>1 DEF PreInv, WipHeld
<1>4. wip_prelink \o queued_prelink = <<>>
  BY <1>2, <1>3
<1>5. Len(linked) < Len(enqueued) /\ linked' = Append(linked, enqueued[Len(linked) + 1])
  BY ZcuRunOrder
<1> QED
  BY <1>1, <1>2, <1>4, <1>5 DEF Pipeline!Link

LEMMA PipelineNext ==
    RunInv /\ PreInv /\ SwapAtEnd /\ InOrder /\ [Next]_vars
        => [Pipeline!Next]_(Pipeline!pipeVars)
<1> SUFFICES ASSUME RunInv, PreInv, SwapAtEnd, InOrder, [Next]_vars
             PROVE  [Pipeline!Next]_(Pipeline!pipeVars)
  OBVIOUS
<1>1. ASSUME Start PROVE Pipeline!Next
  BY <1>1, StartPipeline DEF Pipeline!Next
<1>2. ASSUME FinishItems PROVE [Pipeline!Next]_(Pipeline!pipeVars)
  BY <1>2, FinishPipeline DEF FinishItems, FinishPrelinkItem, zcuVars
<1>3. ASSUME NEW p \in PrelinkItems, ItemFinish(p) PROVE [Pipeline!Next]_(Pipeline!pipeVars)
  <2>1. Unfinished # {}
    BY <1>3 DEF ItemFinish, Unfinished
  <2> QED
    BY <1>3, <2>1, FinishPipeline DEF ItemFinish, FinishPrelinkItem, zcuVars
<1>4. ASSUME NEW p \in PrelinkItems, EnqueuePrelink(p) PROVE Pipeline!Next
  BY <1>4, EnqueuePipeline DEF Pipeline!Next
<1>5. ASSUME NEW p \in PrelinkItems, StartPrelinkItem(p) PROVE UNCHANGED Pipeline!pipeVars
  <2>1. prelink_wait_count > 0 /\ prelink_wait_count' > 0
    BY <1>5, CountPositive DEF StartPrelinkItem, PreInv, RunInv
  <2> QED
    BY <1>5, <2>1 DEF StartPrelinkItem, zcuVars, Pipeline!pipeVars
<1>6. ASSUME EnqueueZcu \/ AirWake PROVE [Pipeline!Next]_(Pipeline!pipeVars)
  <2>1. UNCHANGED <<preVars, linked>> /\ cur \in Tasks
    BY <1>6 DEF EnqueueZcu, AirWake, EnqueueSection, SleepForAir, AppendZcu,
       AppendFails, zcuVars, RunInv, TypeOK, MainType
  <2>2. CASE AppendZcu(cur)
    BY <2>1, <2>2 DEF AppendZcu, preVars, Pipeline!Next, Pipeline!Submit
  <2>3. CASE ~AppendZcu(cur)
    <3>1. enqueued' = enqueued
      BY <1>6, <2>3 DEF EnqueueZcu, AirWake, EnqueueSection, SleepForAir, AppendFails,
         zcuVars
    <3> QED
      BY <2>1, <3>1 DEF preVars, Pipeline!pipeVars
  <2> QED
    BY <2>2, <2>3
<1>7. ASSUME PrelinkSwap PROVE UNCHANGED Pipeline!pipeVars
  BY <1>7, SwapPipeline
<1>8. ASSUME PrelinkRun PROVE [Pipeline!Next]_(Pipeline!pipeVars)
  BY <1>8, RunPipeline
<1>9. ASSUME ZcuRun PROVE Pipeline!Next
  BY <1>9, LinkPipelineStep DEF Pipeline!Next
<1>10. CASE UNCHANGED <<preVars, enqueued, linked>>
  BY <1>10 DEF preVars, Pipeline!pipeVars
<1>11. FlushStart \/ PrelinkCall \/ ZcuSwap \/ ZcuTask \/ ZcuLock \/ ZcuDec
       => UNCHANGED <<preVars, enqueued, linked>>
  BY DEF FlushStart, PrelinkCall, ZcuSwap, ZcuTask, ZcuLock, ZcuDec, LinkReturn, zcuVars
<1>12. ASSUME NEW more \in BOOLEAN, DoIdleTask(more)
       PROVE  UNCHANGED <<preVars, enqueued, linked>>
  BY <1>12 DEF DoIdleTask, zcuVars
<1>13. GiveUp \/ Dispatch \/ CodegenFunc \/ DeinitTask \/ MainSpawn \/ EndWork \/ Wait \/ Flush
       => UNCHANGED <<preVars, enqueued, linked>>
  BY DEF GiveUp, Dispatch, DispatchOther, CodegenFunc, DispatchFunc, DeinitTask,
    IsPending, MainSpawn, SpawnFlush, EndWork, Wait, Flush, zcuVars
<1>14. (\E p \in PrelinkItems : NoPrelinkOutput(p) \/ ItemSpawn(p) \/ ItemExit(p)) \/
       (\E f \in LinkFuncs : CodegenNext(f)) => UNCHANGED <<preVars, enqueued, linked>>
  BY DEF NoPrelinkOutput, ItemSpawn, SpawnFlush, ItemExit, CodegenNext, CodegenStore,
    MirReady, CodegenSpawn, CodegenExit, zcuVars
<1>15. UNCHANGED vars => UNCHANGED <<preVars, enqueued, linked>>
  BY DEF vars, zcuVars
<1> QED
  BY <1>1, <1>2, <1>3, <1>4, <1>5, <1>6, <1>7, <1>8, <1>9, <1>10, <1>11, <1>12,
     <1>13, <1>14, <1>15
  DEF Next, MainNext, LinkNext, ItemNext

\* The doc comment at the head of Queue.zig holds (ImplementsPipeline): for any
\* number of jobs, tasks and updates, no input after the last is loaded, no task
\* linked before, none out of order.
THEOREM PipelineKept == Spec => ImplementsPipeline
BY PipelineInit, OrderAlways, PipelineNext, PTL DEF Spec, ImplementsPipeline, Pipeline!Spec
-----------------------------------------------------------------------------
(***************************************************************************)
(* What flush finds.  An update that reaches it closed prelink, called it  *)
(* and enqueued whatever analysis dispatched; a MIR that is not freed      *)
(* belongs to a task that is still to be linked, or being enqueued.        *)
(***************************************************************************)
\* the link thread called prelink before it went on to ZCU tasks
Prelinked ==
    mpc # "idle" /\ prelink_wait_count = 0 /\ ~failed
        /\ (state # "running" \/ lpc \in ZcuPcs) => post_prelink
Closed == Extra = 1 /\ mpc \in {"wait", "flush"} => failed
NotFailed == mpc = "flush" => ~failed
Dispatched ==
    /\ \A i \in 1 .. Len(enqueued) : enqueued[i] \notin left
    /\ mpc # "idle" /\ ~failed => \A t \in Tasks \ left :
          \/ mpc \in {"enqueue", "air_wait"} /\ t = cur
          \/ \E i \in 1 .. Len(enqueued) : enqueued[i] = t
MirHeld ==
    \A f \in LinkFuncs : mir[f] \in {"pending", "ready", "failed"} =>
        Todo(f) \/ (cur = f /\ mpc \in {"enqueue", "air_wait", "deinit"})

LEMMA ClosedNext == RunInv /\ PreInv /\ Closed /\ [Next]_vars => Closed'
<1> SUFFICES ASSUME RunInv, PreInv, Closed, [Next]_vars PROVE Closed'
  OBVIOUS
<1> USE DEF Closed
<1>1. ASSUME Start \/ FinishItems \/ MainSpawn \/ GiveUp \/ Flush PROVE Closed'
  BY <1>1 DEF Start, FinishItems, MainSpawn, GiveUp, Flush
<1>2. ASSUME Wait PROVE Closed'
  BY <1>2, ExtraNext DEF Wait, Start, FinishItems
<1>3. ASSUME EndWork PROVE Closed'
  <2>1. Extra # 1
    BY <1>3 DEF EndWork, PreInv, ExtraInv
  <2>2. Extra' = Extra
    BY <1>3, ExtraNext DEF EndWork, Start, FinishItems
  <2> QED
    BY <2>1, <2>2
<1>4. CASE Extra' = Extra /\ (mpc' = mpc \/ mpc' \notin {"wait", "flush"}) /\ (failed => failed')
  BY <1>4
<1>5. Extra' = Extra \/ Start \/ FinishItems
  BY ExtraNext
<1>6. Dispatch \/ CodegenFunc \/ EnqueueZcu \/ AirWake \/ DeinitTask
      => (mpc' = mpc \/ mpc' \notin {"wait", "flush"}) /\ (failed => failed')
  BY DEF Dispatch, DispatchOther, CodegenFunc, DispatchFunc, EnqueueZcu, AirWake,
    EnqueueSection, SleepForAir, AppendZcu, AppendFails, DeinitTask
<1>7. (\E p \in PrelinkItems : StartPrelinkItem(p) \/ ItemNext(p)) \/
      (\E f \in LinkFuncs : CodegenNext(f)) => mpc' = mpc /\ (failed => failed')
  BY DEF StartPrelinkItem, ItemNext, EnqueuePrelink, NoPrelinkOutput, ItemSpawn,
    ItemFinish, ItemExit, CodegenNext, CodegenStore, MirReady, CodegenSpawn,
    CodegenExit, mainVars
<1>8. LinkNext => mpc' = mpc /\ (failed => failed')
  BY DEF LinkNext, FlushStart, PrelinkSwap, PrelinkRun, PrelinkCall, ZcuSwap, ZcuTask,
    ZcuLock, ZcuRun, ZcuDec, DoIdleTask, mainVars
<1>9. UNCHANGED vars => mpc' = mpc /\ (failed => failed')
  BY DEF vars, mainVars
<1> QED
  BY <1>1, <1>2, <1>3, <1>4, <1>5, <1>6, <1>7, <1>8, <1>9 DEF Next, MainNext

LEMMA NotFailedNext == RunInv /\ PreInv /\ NotFailed /\ [Next]_vars => NotFailed'
<1> SUFFICES ASSUME RunInv, PreInv, NotFailed, [Next]_vars PROVE NotFailed'
  OBVIOUS
<1> USE DEF NotFailed
<1>1. MainNext => NotFailed'
  BY DEF MainNext, Start, FinishItems, GiveUp, Dispatch, DispatchOther, CodegenFunc,
    DispatchFunc, EnqueueZcu, AirWake, EnqueueSection, SleepForAir, AppendZcu,
    AppendFails, DeinitTask, MainSpawn, EndWork, Wait, Flush, StartPrelinkItem, mainVars
<1>2. ASSUME NEW p \in PrelinkItems, NoPrelinkOutput(p) PROVE NotFailed'
  <2>1. p \in Unfinished
    BY <1>2 DEF NoPrelinkOutput, Unfinished
  <2>2. mpc # "flush"
    BY <2>1, Rested DEF PreInv
  <2> QED
    BY <1>2, <2>2 DEF NoPrelinkOutput, mainVars
<1>3. ASSUME PrelinkCall PROVE NotFailed'
  <2>1. mpc # "flush"
    BY <1>3, Rested DEF PreInv, PrelinkCall
  <2> QED
    BY <1>3, <2>1 DEF PrelinkCall, mainVars
<1>4. (\E p \in PrelinkItems : EnqueuePrelink(p) \/ ItemSpawn(p) \/ ItemFinish(p) \/ ItemExit(p))
      \/ (\E f \in LinkFuncs : CodegenNext(f)) => UNCHANGED <<mpc, failed>>
  BY DEF EnqueuePrelink, ItemSpawn, ItemFinish, ItemExit, CodegenNext, CodegenStore,
    MirReady, CodegenSpawn, CodegenExit, mainVars
<1>5. FlushStart \/ PrelinkSwap \/ PrelinkRun \/ ZcuSwap \/ ZcuTask \/ ZcuLock \/ ZcuRun
      \/ ZcuDec \/ (\E more \in BOOLEAN : DoIdleTask(more)) => UNCHANGED <<mpc, failed>>
  BY DEF FlushStart, PrelinkSwap, PrelinkRun, ZcuSwap, ZcuTask, ZcuLock, ZcuRun, ZcuDec,
    DoIdleTask, mainVars
<1>6. UNCHANGED vars => UNCHANGED <<mpc, failed>>
  BY DEF vars, mainVars
<1> QED
  BY <1>1, <1>2, <1>3, <1>4, <1>5, <1>6 DEF Next, ItemNext, LinkNext

LEMMA DispatchedNext ==
    RunInv /\ PreInv /\ MirInv /\ Dispatched /\ [Next]_vars => Dispatched'
<1> SUFFICES ASSUME RunInv, PreInv, MirInv, Dispatched, [Next]_vars PROVE Dispatched'
  OBVIOUS
<1>1. ASSUME Start PROVE Dispatched'
  BY <1>1 DEF Start, Dispatched
<1>2. ASSUME Dispatch \/ CodegenFunc PROVE Dispatched'
  <2>1. PICK t \in Tasks : t \in left /\ mpc' = "enqueue" /\ cur' = t /\ left' = left \ {t}
                           /\ mpc = "work" /\ UNCHANGED <<enqueued, failed>>
    BY <1>2, TaskFacts DEF Dispatch, DispatchOther, CodegenFunc, DispatchFunc, zcuVars
  <2> QED
    BY <2>1 DEF Dispatched
<1>3. ASSUME EnqueueZcu \/ AirWake PROVE Dispatched'
  <2>1. cur \in Tasks /\ left' = left /\ mpc \in {"enqueue", "air_wait"} /\ cur \notin left
    BY <1>3 DEF EnqueueZcu, AirWake, EnqueueSection, MirInv, CurLive, RunInv, TypeOK,
       MainType
  <2>2. CASE AppendZcu(cur)
    <3>1. enqueued' = Append(enqueued, cur) /\ enqueued \in Seq(Tasks) /\ failed' = failed
      BY <2>2, OrderFacts DEF AppendZcu, RunInv
    <3>2. /\ Len(enqueued') = Len(enqueued) + 1 /\ Len(enqueued) \in Nat
          /\ enqueued'[Len(enqueued) + 1] = cur
          /\ \A i \in 1 .. Len(enqueued) : enqueued'[i] = enqueued[i]
      BY <2>1, <3>1
    <3>3. \A i \in 1 .. Len(enqueued') : enqueued'[i] \notin left
      <4>1. \A i \in 1 .. Len(enqueued') : i \in 1 .. Len(enqueued) \/ i = Len(enqueued) + 1
        BY <3>2
      <4> QED
        BY <2>1, <3>2, <4>1 DEF Dispatched
    <3>4. ~failed => \A t \in Tasks \ left : \E i \in 1 .. Len(enqueued') : enqueued'[i] = t
      <4>1. SUFFICES ASSUME ~failed, NEW t \in Tasks \ left
                     PROVE  \E i \in 1 .. Len(enqueued') : enqueued'[i] = t
        OBVIOUS
      <4>2. CASE t = cur
        BY <3>2, <4>2
      <4>3. CASE t # cur
        <5>1. PICK i \in 1 .. Len(enqueued) : enqueued[i] = t
          BY <2>1, <4>1, <4>3 DEF Dispatched
        <5>2. i \in 1 .. Len(enqueued') /\ enqueued'[i] = t
          BY <3>2, <5>1
        <5> QED
          BY <5>2
      <4> QED
        BY <4>2, <4>3
    <3> QED
      BY <2>1, <3>1, <3>3, <3>4 DEF Dispatched
  <2>3. CASE SleepForAir(cur)
    <3>1. mpc' = "air_wait" /\ UNCHANGED <<cur, enqueued, failed>>
      BY <2>3 DEF SleepForAir, zcuVars
    <3> QED
      BY <2>1, <3>1 DEF Dispatched
  <2>4. CASE AppendFails(cur)
    BY <2>1, <2>4 DEF AppendFails, zcuVars, Dispatched
  <2> QED
    BY <1>3, <2>2, <2>3, <2>4 DEF EnqueueZcu, AirWake, EnqueueSection
<1>4. ASSUME DeinitTask PROVE Dispatched'
  <2>1. mpc = "deinit" /\ UNCHANGED <<left, enqueued, failed>>
    BY <1>4 DEF DeinitTask, zcuVars
  <2> QED
    BY <2>1 DEF Dispatched
<1>5. CASE /\ UNCHANGED <<left, enqueued>> /\ (mpc' # "idle" => mpc # "idle")
           /\ (failed => failed')
           /\ mpc \in {"enqueue", "air_wait"} => UNCHANGED <<mpc, cur>>
  BY <1>5 DEF Dispatched
<1>6. FinishItems \/ GiveUp \/ MainSpawn \/ EndWork \/ Wait \/ Flush
      => /\ UNCHANGED <<left, enqueued>> /\ (mpc' # "idle" => mpc # "idle")
         /\ (failed => failed') /\ mpc \notin {"enqueue", "air_wait"}
  BY DEF FinishItems, GiveUp, MainSpawn, EndWork, Wait, Flush, zcuVars
<1>7. (\E p \in PrelinkItems : StartPrelinkItem(p) \/ ItemNext(p)) \/
      (\E f \in LinkFuncs : CodegenNext(f))
      => UNCHANGED <<left, enqueued, mpc, cur>> /\ (failed => failed')
  BY DEF StartPrelinkItem, ItemNext, EnqueuePrelink, NoPrelinkOutput, ItemSpawn,
    ItemFinish, ItemExit, CodegenNext, CodegenStore, MirReady, CodegenSpawn,
    CodegenExit, mainVars, zcuVars
<1>8. LinkNext => UNCHANGED <<left, enqueued, mpc, cur>> /\ (failed => failed')
  BY DEF LinkNext, FlushStart, PrelinkSwap, PrelinkRun, PrelinkCall, ZcuSwap, ZcuTask,
    ZcuLock, ZcuRun, ZcuDec, DoIdleTask, mainVars, zcuVars
<1>9. UNCHANGED vars => UNCHANGED <<left, enqueued, mpc, cur, failed>>
  BY DEF vars, mainVars, zcuVars
<1> QED
  BY <1>1, <1>2, <1>3, <1>4, <1>5, <1>6, <1>7, <1>8, <1>9 DEF Next, MainNext

LEMMA PrelinkedNext == RunInv /\ PreInv /\ Prelinked /\ [Next]_vars => Prelinked'
<1> SUFFICES ASSUME RunInv, PreInv, Prelinked, [Next]_vars PROVE Prelinked'
  OBVIOUS
<1> USE DEF Prelinked
<1>1. ASSUME Start PROVE Prelinked'
  BY <1>1 DEF Start
<1>2. ASSUME mpc = "items" \/ Unfinished # {}, \E restart \in BOOLEAN : FinishPrelinkItem(restart),
             UNCHANGED linkVars
      PROVE  Prelinked'
  <2>1. prelink_wait_count > 0
    BY <1>2, CountPositive DEF PreInv, RunInv
  <2>2. lpc \notin ZcuPcs /\ state # "wait_for_mir"
    BY <2>1 DEF PreInv, PrelinkDone, PrelinkOver
  <2>3. lpc' \notin ZcuPcs
    BY <1>2, <2>2 DEF linkVars
  <2>4. prelink_wait_count' = 0 => state' = "running"
    BY <1>2, <2>2 DEF FinishPrelinkItem, SetRunning, runVars, RunInv, TypeOK, RunType
  <2> QED
    BY <2>3, <2>4
<1>3. ASSUME NEW p \in PrelinkItems, ItemFinish(p) PROVE Prelinked'
  <2>1. Unfinished # {}
    BY <1>3 DEF ItemFinish, Unfinished
  <2> QED
    BY <1>2, <1>3, <2>1 DEF ItemFinish
<1>4. ASSUME FinishItems PROVE Prelinked'
  BY <1>2, <1>4 DEF FinishItems
<1>5. ASSUME NEW p \in PrelinkItems, StartPrelinkItem(p) PROVE Prelinked'
  <2>1. prelink_wait_count' # 0
    BY <1>5, CountPositive DEF StartPrelinkItem, PreInv, RunInv
  <2> QED
    BY <2>1
<1>6. ASSUME NEW p \in PrelinkItems, EnqueuePrelink(p) PROVE Prelinked'
  <2>1. p \in Unfinished
    BY <1>6 DEF EnqueuePrelink, Unfinished
  <2>2. prelink_wait_count > 0 /\ prelink_wait_count' = prelink_wait_count
    BY <1>6, <2>1, CountPositive DEF PreInv, RunInv, EnqueuePrelink
  <2> QED
    BY <2>2
<1>7. CASE /\ UNCHANGED <<prelink_wait_count, post_prelink, lpc>>
           /\ (failed => failed') /\ (mpc' # "idle" => mpc # "idle")
           /\ (state' # "running" => state # "running")
  BY <1>7
<1>8. EnqueueZcu \/ AirWake => /\ UNCHANGED <<prelink_wait_count, post_prelink, lpc>>
                               /\ (failed => failed') /\ mpc # "idle"
                               /\ (state' # "running" => state # "running")
  BY DEF EnqueueZcu, AirWake, EnqueueSection, SleepForAir, AppendZcu, AppendFails,
    Restarts, SetRunning, runVars, preVars, linkVars
<1>9. GiveUp \/ Dispatch \/ CodegenFunc \/ DeinitTask \/ MainSpawn \/ EndWork \/ Wait \/ Flush
      => /\ UNCHANGED <<prelink_wait_count, post_prelink, lpc, state>>
         /\ (failed => failed') /\ mpc # "idle"
  BY DEF GiveUp, Dispatch, DispatchOther, CodegenFunc, DispatchFunc, DeinitTask, MainSpawn,
    EndWork, Wait, Flush, preVars, linkVars, runVars
<1>10. (\E p \in PrelinkItems : NoPrelinkOutput(p) \/ ItemSpawn(p) \/ ItemExit(p))
       => UNCHANGED <<prelink_wait_count, post_prelink, lpc, state, mpc>> /\ (failed => failed')
  BY DEF NoPrelinkOutput, ItemSpawn, ItemExit, preVars, linkVars, runVars, mainVars
<1>11. (\E f \in LinkFuncs : CodegenNext(f))
       => /\ UNCHANGED <<prelink_wait_count, post_prelink, lpc, mpc, failed>>
          /\ (state' # "running" => state # "running")
  BY DEF CodegenNext, CodegenStore, MirReady, SetRunning, CodegenSpawn, CodegenExit,
    preVars, linkVars, runVars, mainVars
<1>12. ASSUME FlushStart PROVE Prelinked'
  <2>1. state' = "running" /\ lpc' \notin ZcuPcs
    BY <1>12, RunnerFacts DEF FlushStart, runVars, RunInv, ZcuPcs
  <2> QED
    BY <2>1
<1>13. ASSUME PrelinkSwap \/ PrelinkRun PROVE Prelinked'
  <2>1. state = "running"
    BY <1>13, RunnerFacts DEF PrelinkSwap, PrelinkRun, RunInv
  <2>2. \/ state' = "running" /\ lpc' \notin ZcuPcs
        \/ prelink_wait_count > 0 /\ prelink_wait_count' = prelink_wait_count
    BY <1>13, <2>1 DEF PrelinkSwap, PrelinkRun, LinkReturn, runVars, ZcuPcs
  <2> QED
    BY <2>2
<1>14. ASSUME PrelinkCall PROVE Prelinked'
  BY <1>14 DEF PrelinkCall
<1>15. ASSUME ZcuSwap \/ ZcuTask \/ ZcuLock \/ ZcuRun \/ ZcuDec PROVE Prelinked'
  <2>1. lpc \in ZcuPcs
    BY <1>15 DEF ZcuSwap, ZcuTask, ZcuLock, ZcuRun, ZcuDec, ZcuPcs
  <2>2. UNCHANGED <<prelink_wait_count, post_prelink, mpc, failed>>
    BY <1>15 DEF ZcuSwap, ZcuTask, ZcuLock, ZcuRun, ZcuDec, preVars, mainVars
  <2> QED
    BY <2>1, <2>2
<1>16. ASSUME NEW more \in BOOLEAN, DoIdleTask(more) PROVE Prelinked'
  <2>1. state = "running"
    BY <1>16, RunnerFacts DEF DoIdleTask, RunInv
  <2>2. lpc' \in ZcuPcs => lpc \in ZcuPcs
    BY <1>16 DEF DoIdleTask, ZcuPcs
  <2> QED
    BY <1>16, <2>1, <2>2 DEF DoIdleTask, preVars, mainVars, runVars
<1>17. UNCHANGED vars => UNCHANGED <<prelink_wait_count, post_prelink, lpc, state, mpc, failed>>
  BY DEF vars, preVars, linkVars, runVars, mainVars
<1> QED
  BY <1>1, <1>3, <1>4, <1>5, <1>6, <1>7, <1>8, <1>9, <1>10, <1>11, <1>12, <1>13, <1>14,
     <1>15, <1>16, <1>17
  DEF Next, MainNext, ItemNext, LinkNext

\* What is to be linked stays so, unless a step links it.
LEMMA TodoKept ==
    ASSUME RunInv, SwapAtEnd, [Next]_vars,
           NEW t \in Tasks, Todo(t), ~Start, ~(ZcuRun /\ t = WipTask)
    PROVE  Todo(t)'
<1>1. ASSUME EnqueueZcu \/ AirWake PROVE Todo(t)'
  <2>1. UNCHANGED <<wip_zcu, wip_zcu_idx, lpc>> /\ cur \in Tasks
    BY <1>1 DEF EnqueueZcu, AirWake, EnqueueSection, SleepForAir, AppendZcu, AppendFails,
      zcuVars, linkVars, RunInv, TypeOK, MainType
  <2>2. queued_zcu' = queued_zcu \/ queued_zcu' = Append(queued_zcu, cur)
    BY <1>1 DEF EnqueueZcu, AirWake, EnqueueSection, SleepForAir, AppendZcu, AppendFails,
      zcuVars
  <2>3. First' = First
    BY <2>1 DEF First
  <2>4. InWip(t) => InWip(t)'
    BY <2>1, <2>3 DEF InWip
  <2>5. \A j \in 1 .. Len(queued_zcu) : j \in 1 .. Len(queued_zcu') /\ queued_zcu'[j] = queued_zcu[j]
    BY <2>1, <2>2, OrderFacts DEF RunInv
  <2>6. InQueue(t) => InQueue(t)'
    BY <2>5 DEF InQueue
  <2> QED
    BY <2>4, <2>6 DEF Todo
<1>2. ASSUME ZcuSwap PROVE Todo(t)'
  <2>1. First = Len(wip_zcu) + 1 /\ First' = 1 /\ wip_zcu' = queued_zcu
    BY <1>2 DEF ZcuSwap, LinkReturn, SwapAtEnd, First
  <2>2. ~InWip(t)
    BY <2>1, OrderFacts DEF InWip, RunInv
  <2>3. InQueue(t) => InWip(t)'
    BY <2>1 DEF InWip, InQueue
  <2> QED
    BY <2>2, <2>3 DEF Todo
<1>3. ASSUME ZcuRun PROVE Todo(t)'
  <2>1. lpc = "zcu_run" /\ wip_zcu_idx \in Nat /\ t # WipTask
    BY <1>3, QueueFacts DEF ZcuRun, RunInv
  <2>2. First = wip_zcu_idx + 1 /\ UNCHANGED <<wip_zcu, queued_zcu>>
    BY <1>3, <2>1 DEF ZcuRun, First
  <2>3. First' = First + 1
    <3>1. CASE WipTask \in LinkFuncs
      BY <1>3, <2>1, <2>2, <3>1 DEF ZcuRun, First
    <3>2. CASE WipTask \notin LinkFuncs
      BY <1>3, <2>1, <2>2, <3>2 DEF ZcuRun, Advance, NextZcu, First
    <3> QED
      BY <3>1, <3>2
  <2>4. ASSUME InWip(t) PROVE InWip(t)'
    <3>1. PICK i \in First .. Len(wip_zcu) : wip_zcu[i] = t
      BY <2>4 DEF InWip
    <3>2. i # First
      BY <2>1, <2>2, <3>1 DEF WipTask
    <3>3. i \in First' .. Len(wip_zcu)
      BY <2>3, <3>1, <3>2, OrderFacts DEF RunInv
    <3> QED
      BY <2>2, <3>1, <3>3 DEF InWip
  <2>5. InQueue(t) => InQueue(t)'
    BY <2>2 DEF InQueue
  <2> QED
    BY <2>4, <2>5 DEF Todo
<1>4. ASSUME ZcuDec PROVE Todo(t)'
  <2>1. lpc = "zcu_dec" /\ wip_zcu_idx \in Nat
    BY <1>4, QueueFacts DEF ZcuDec, RunInv
  <2>2. First' = First /\ UNCHANGED <<wip_zcu, queued_zcu>>
    BY <1>4, <2>1 DEF ZcuDec, Advance, NextZcu, First
  <2> QED
    BY <2>2, TodoSame
<1>5. CASE First' = First /\ UNCHANGED <<queued_zcu, wip_zcu>>
  BY <1>5, TodoSame
<1>6. FlushStart \/ PrelinkSwap \/ PrelinkRun \/ ZcuTask \/ ZcuLock \/ PrelinkCall
      => First' = First /\ UNCHANGED <<queued_zcu, wip_zcu>>
  BY DEF FlushStart, PrelinkSwap, PrelinkRun, ZcuTask, ZcuLock, PrelinkCall, NextZcu,
    LinkReturn, zcuVars, First
<1>7. ASSUME NEW more \in BOOLEAN, DoIdleTask(more)
      PROVE  First' = First /\ UNCHANGED <<queued_zcu, wip_zcu>>
  BY <1>7 DEF DoIdleTask, zcuVars, First
<1>8. FinishItems \/ GiveUp \/ Dispatch \/ CodegenFunc \/ DeinitTask \/
      MainSpawn \/ EndWork \/ Wait \/ Flush
      => First' = First /\ UNCHANGED <<queued_zcu, wip_zcu>>
  BY DEF FinishItems, GiveUp, Dispatch, DispatchOther, CodegenFunc, DispatchFunc,
    DeinitTask, MainSpawn, EndWork, Wait, Flush, zcuVars, linkVars, First
<1>9. (\E p \in PrelinkItems : StartPrelinkItem(p) \/ ItemNext(p)) \/
      (\E f \in LinkFuncs : CodegenNext(f))
      => First' = First /\ UNCHANGED <<queued_zcu, wip_zcu>>
  BY DEF StartPrelinkItem, ItemNext, EnqueuePrelink, NoPrelinkOutput, ItemSpawn,
    ItemFinish, ItemExit, CodegenNext, CodegenStore, MirReady, CodegenSpawn,
    CodegenExit, zcuVars, linkVars, First
<1>10. UNCHANGED vars => First' = First /\ UNCHANGED <<queued_zcu, wip_zcu>>
  BY DEF vars, zcuVars, linkVars, First
<1> QED
  BY <1>1, <1>2, <1>3, <1>4, <1>5, <1>6, <1>7, <1>8, <1>9, <1>10
  DEF Next, MainNext, LinkNext

LEMMA MirHeldNext ==
    RunInv /\ PreInv /\ MirInv /\ SwapAtEnd /\ MirHeld /\ [Next]_vars => MirHeld'
<1> SUFFICES ASSUME RunInv, PreInv, MirInv, SwapAtEnd, MirHeld, [Next]_vars PROVE MirHeld'
  OBVIOUS
<1> DEFINE Held(f) == mir[f] \in {"pending", "ready", "failed"}
           Owns(f) == cur = f /\ mpc \in {"enqueue", "air_wait", "deinit"}
<1>a. LinkFuncs \subseteq Tasks /\ mir \in [LinkFuncs -> {"none", "pending", "ready", "failed", "freed"}]
  BY TaskFacts DEF RunInv, TypeOK, WorkerType
<1>b. \A f \in LinkFuncs : Held(f) => Todo(f) \/ Owns(f)
  BY DEF MirHeld
<1>c. SUFFICES ASSUME NEW f \in LinkFuncs, Held(f)' PROVE Todo(f)' \/ Owns(f)'
  BY DEF MirHeld
<1>d. Todo(f) => Todo(f)'
  <2>1. ~Start /\ ~(ZcuRun /\ f = WipTask)
    BY <1>a, <1>c DEF Start, ZcuRun
  <2> QED
    BY <1>a, <2>1, TodoKept
<1>1. ASSUME Start PROVE FALSE
  BY <1>1, <1>c DEF Start
<1>2. ASSUME NEW g \in LinkFuncs, DispatchFunc(g) PROVE Todo(f)' \/ Owns(f)'
  <2>1. CASE f = g
    BY <1>2, <2>1 DEF DispatchFunc
  <2>2. CASE f # g
    <3>1. Held(f) /\ mpc = "work"
      BY <1>2, <1>a, <1>c, <2>2 DEF DispatchFunc
    <3> QED
      BY <1>b, <1>d, <3>1
  <2> QED
    BY <2>1, <2>2
<1>3. ASSUME EnqueueZcu \/ AirWake PROVE Todo(f)' \/ Owns(f)'
  <2>1. Held(f)
    BY <1>3, <1>c DEF EnqueueZcu, AirWake, EnqueueSection
  <2>2. CASE Todo(f)
    BY <1>d, <2>1, <2>2
  <2>3. CASE Owns(f) /\ AppendZcu(cur)
    <3>1. queued_zcu' = Append(queued_zcu, f) /\ queued_zcu \in Seq(Tasks) /\ f \in Tasks
      BY <1>a, <2>3, OrderFacts DEF AppendZcu, RunInv
    <3>2. Len(queued_zcu) + 1 \in 1 .. Len(queued_zcu') /\ queued_zcu'[Len(queued_zcu) + 1] = f
      BY <3>1
    <3> QED
      BY <3>2 DEF Todo, InQueue
  <2>4. CASE Owns(f) /\ ~AppendZcu(cur)
    BY <1>3, <2>4 DEF EnqueueZcu, AirWake, EnqueueSection, SleepForAir, AppendFails
  <2> QED
    BY <1>b, <2>1, <2>2, <2>3, <2>4
<1>4. ASSUME DeinitTask PROVE Todo(f)' \/ Owns(f)'
  <2>1. Held(f) /\ ~Owns(f)
    BY <1>4, <1>a, <1>c DEF DeinitTask
  <2> QED
    BY <1>b, <1>d, <2>1
<1>5. ASSUME NEW g \in LinkFuncs, CodegenStore(g) PROVE Todo(f)' \/ Owns(f)'
  <2>1. Held(f) /\ UNCHANGED <<mpc, cur>>
    BY <1>5, <1>a, <1>c DEF CodegenStore, mainVars, MirInv, WorkersWrite
  <2> QED
    BY <1>b, <1>d, <2>1
<1>6. ASSUME ZcuRun PROVE Todo(f)' \/ Owns(f)'
  <2>1. f # WipTask /\ Held(f) /\ UNCHANGED <<mpc, cur>>
    BY <1>6, <1>a, <1>c DEF ZcuRun, mainVars
  <2> QED
    BY <1>b, <1>d, <2>1
<1>7. ASSUME UNCHANGED mir, ~Owns(f) \/ UNCHANGED <<mpc, cur>>
      PROVE  Todo(f)' \/ Owns(f)'
  BY <1>7, <1>b, <1>c, <1>d
<1>8. FinishItems \/ GiveUp \/ Dispatch \/ MainSpawn \/ EndWork \/ Wait \/ Flush
      => UNCHANGED mir /\ ~Owns(f)
  BY DEF FinishItems, GiveUp, Dispatch, DispatchOther, MainSpawn, EndWork, Wait, Flush
<1>9. (\E p \in PrelinkItems : StartPrelinkItem(p) \/ ItemNext(p)) \/
      (\E g \in LinkFuncs : MirReady(g) \/ CodegenSpawn(g) \/ CodegenExit(g))
      => UNCHANGED <<mir, mpc, cur>>
  BY DEF StartPrelinkItem, ItemNext, EnqueuePrelink, NoPrelinkOutput, ItemSpawn,
    ItemFinish, ItemExit, MirReady, CodegenSpawn, CodegenExit, mainVars
<1>10. FlushStart \/ PrelinkSwap \/ PrelinkRun \/ PrelinkCall \/ ZcuSwap \/ ZcuTask \/ ZcuLock
       \/ ZcuDec \/ (\E more \in BOOLEAN : DoIdleTask(more)) => UNCHANGED <<mir, mpc, cur>>
  BY DEF FlushStart, PrelinkSwap, PrelinkRun, PrelinkCall, ZcuSwap, ZcuTask, ZcuLock,
     ZcuDec,
    DoIdleTask, mainVars
<1>11. UNCHANGED vars => UNCHANGED <<mir, mpc, cur>>
  BY DEF vars, mainVars
<1> QED
  BY <1>1, <1>2, <1>3, <1>4, <1>5, <1>6, <1>7, <1>8, <1>9, <1>10, <1>11
  DEF Next, MainNext, LinkNext, CodegenFunc, CodegenNext

-----------------------------------------------------------------------------
FlushInv == Prelinked /\ Closed /\ NotFailed /\ Dispatched /\ MirHeld

LEMMA FlushInvInit == Init => FlushInv
<1> SUFFICES ASSUME Init PROVE FlushInv
  OBVIOUS
<1> USE DEF Init
<1>1. \A i \in 1 .. Len(enqueued) : FALSE
  OBVIOUS
<1>2. \A f \in LinkFuncs : mir[f] = "none"
  OBVIOUS
<1> QED
  BY <1>1, <1>2 DEF FlushInv, Prelinked, Closed, NotFailed, Dispatched, MirHeld

LEMMA FlushInvNext ==
    RunInv /\ PreInv /\ MirInv /\ SwapAtEnd /\ FlushInv /\ [Next]_vars => FlushInv'
BY PrelinkedNext, ClosedNext, NotFailedNext, DispatchedNext, MirHeldNext DEF FlushInv

\* When an update reaches flush (FlushReady), whatever the threads did, prelink was called,
\* every task dispatched was linked in its place and no MIR is left.
THEOREM ReadyToFlush == Spec => []FlushReady
<1>1. RunInv /\ PreInv /\ SwapAtEnd /\ InOrder /\ FlushInv => FlushReady
  <2> SUFFICES ASSUME RunInv, PreInv, SwapAtEnd, InOrder, FlushInv, mpc = "flush"
               PROVE  /\ post_prelink /\ state = "finished"
                      /\ Range(enqueued) = Tasks \ left /\ linked = enqueued
                      /\ queued_prelink = <<>> /\ wip_prelink = <<>>
                      /\ \A f \in LinkFuncs : mir[f] \in {"none", "freed"}
    BY DEF FlushReady
  <2>1. state = "finished" /\ NoZcu /\ Unfinished = {} /\ lpc = "idle"
    BY Rested DEF PreInv
  <2>2. ~failed /\ Extra # 1
    BY DEF FlushInv, NotFailed, Closed
  <2>3. prelink_wait_count = 0
    BY <2>1, <2>2, ExtraFacts DEF PreInv, ExtraInv, RunInv
  <2>4. post_prelink
    BY <2>1, <2>2, <2>3 DEF FlushInv, Prelinked
  <2>5. queued_prelink = <<>> /\ wip_prelink = <<>>
    BY <2>1 DEF PreInv, Delivered, WipHeld
  <2>6. linked = enqueued
    BY <2>1, AllLinked DEF RunInv
  <2>7. Range(enqueued) = Tasks \ left
    <3>1. enqueued \in Seq(Tasks) /\ DOMAIN enqueued = 1 .. Len(enqueued)
      BY OrderFacts DEF RunInv
    <3>2. \A i \in 1 .. Len(enqueued) : enqueued[i] \in Tasks \ left
      BY <3>1 DEF FlushInv, Dispatched
    <3>3. \A t \in Tasks \ left : \E i \in 1 .. Len(enqueued) : enqueued[i] = t
      BY <2>2 DEF FlushInv, Dispatched
    <3> QED
      BY <3>1, <3>2, <3>3 DEF Range
  <2>8. \A f \in LinkFuncs : mir[f] \in {"none", "freed"}
    <3>1. \A t : ~Todo(t)
      BY <2>1, QueueFacts DEF NoZcu, Todo, InWip, InQueue, First, RunInv
    <3> QED
      BY <3>1 DEF FlushInv, MirHeld, RunInv, TypeOK, WorkerType
  <2> QED
    BY <2>1, <2>4, <2>5, <2>6, <2>7, <2>8
<1> QED
  BY <1>1, AllInvAlways, OrderAlways, FlushInvInit, FlushInvNext, PTL DEF Spec

-----------------------------------------------------------------------------
(***************************************************************************)
(* AIR.  Each byte in flight is a pair of a function and a number.  The    *)
(* function whose bytes are to be given back was freed: it is counted      *)
(* once, and is not the one being enqueued.                                *)
(***************************************************************************)
Pairs(A) == UNION {{f} \X (1 .. AirBytes[f]) : f \in A}

DecFreed == lpc = "zcu_dec" => mir[WipTask] = "freed" /\ WipTask \notin left
AirInv == DecFreed /\ IsFiniteSet(AirPairs) /\ AirAccounting /\ AirBound

LEMMA CapFacts == MaxAirBytes \in Nat /\ IsFiniteSet(LinkFuncs)
BY ConstantsAssumption

LEMMA PairsAdd ==
    ASSUME NEW A \in SUBSET LinkFuncs, NEW f \in LinkFuncs, f \notin A, IsFiniteSet(Pairs(A))
    PROVE  /\ IsFiniteSet(Pairs(A \cup {f}))
           /\ Cardinality(Pairs(A \cup {f})) = Cardinality(Pairs(A)) + AirBytes[f]
<1> DEFINE B == {f} \X (1 .. AirBytes[f])
<1>1. Pairs(A \cup {f}) = Pairs(A) \cup B
  BY DEF Pairs
<1>2. Pairs(A) \cap B = {}
  BY DEF Pairs
<1>3. IsFiniteSet(B) /\ Cardinality(B) = AirBytes[f]
  <2>1. AirBytes[f] \in Nat
    BY AirFacts
  <2>2. IsFiniteSet(1 .. AirBytes[f]) /\ Cardinality(1 .. AirBytes[f]) = AirBytes[f]
    BY <2>1, FS_Interval
  <2>3. IsFiniteSet({f}) /\ Cardinality({f}) = 1
    BY FS_Singleton
  <2>4. IsFiniteSet(B) /\ Cardinality(B) = 1 * AirBytes[f]
    BY <2>2, <2>3, FS_Product
  <2> QED
    BY <2>1, <2>4
<1>4. Cardinality(Pairs(A) \cap B) = 0
  BY <1>2, FS_EmptySet
<1>5. Cardinality(Pairs(A)) \in Nat /\ AirBytes[f] \in Nat
  BY FS_CardinalityType, AirFacts
<1> HIDE DEF B
<1>6. /\ IsFiniteSet(Pairs(A) \cup B)
      /\ Cardinality(Pairs(A) \cup B) = Cardinality(Pairs(A)) + Cardinality(B) - 0
  BY <1>3, <1>4, FS_Union
<1> DEFINE n == Cardinality(Pairs(A))  m == Cardinality(Pairs(A) \cup B)  b == AirBytes[f]
<1>7. n \in Nat /\ b \in Nat /\ m = n + b - 0
  BY <1>3, <1>5, <1>6
<1> HIDE DEF n, m, b
<1>8. m = n + b
  BY <1>7
<1> QED
  BY <1>1, <1>6, <1>8 DEF n, m, b

LEMMA PairsRemove ==
    ASSUME NEW A \in SUBSET LinkFuncs, NEW f \in A, IsFiniteSet(Pairs(A))
    PROVE  /\ IsFiniteSet(Pairs(A \ {f}))
           /\ Cardinality(Pairs(A \ {f})) \in Nat
           /\ Cardinality(Pairs(A)) = Cardinality(Pairs(A \ {f})) + AirBytes[f]
<1>1. Pairs(A \ {f}) \subseteq Pairs(A)
  BY DEF Pairs
<1>2. IsFiniteSet(Pairs(A \ {f}))
  BY <1>1, FS_Subset
<1>3. A = (A \ {f}) \cup {f}
  OBVIOUS
<1>4. A \ {f} \in SUBSET LinkFuncs /\ f \in LinkFuncs /\ f \notin A \ {f}
  OBVIOUS
<1>5. Cardinality(Pairs((A \ {f}) \cup {f})) = Cardinality(Pairs(A \ {f})) + AirBytes[f]
  BY <1>2, <1>4, PairsAdd
<1> QED
  BY <1>2, <1>3, <1>5, FS_CardinalityType

LEMMA PairsNone ==
    ASSUME NEW A \in SUBSET LinkFuncs, IsFiniteSet(Pairs(A)), Cardinality(Pairs(A)) = 0
    PROVE  A = {}
<1>1. Pairs(A) = {}
  BY FS_EmptySet
<1> SUFFICES ASSUME NEW f \in A PROVE FALSE
  OBVIOUS
<1>2. <<f, 1>> \in {f} \X (1 .. AirBytes[f])
  BY AirFacts
<1>3. <<f, 1>> \in Pairs(A)
  BY <1>2 DEF Pairs
<1> QED
  BY <1>1, <1>3

\* What the queues hold, in terms of what is still to be linked
LEMMA InFlightFacts ==
    ASSUME TypeOK
    PROVE  /\ \A f \in LinkFuncs : Todo(f) => f \in InFlight
           /\ \A f \in InFlight : f \in LinkFuncs /\ (Todo(f) \/ (lpc = "zcu_dec" /\ f = WipTask))
<1> USE DEF InFlight, Todo, InWip, InQueue, First, WipTask, Range
<1>1. DOMAIN queued_zcu = 1 .. Len(queued_zcu)
  BY DEF TypeOK, ZcuType
<1>2. wip_zcu_idx \in Nat /\ Len(wip_zcu) \in Nat
  BY QueueFacts
<1>3. ASSUME NEW f \in LinkFuncs, Todo(f) PROVE f \in InFlight
  <2>1. CASE InQueue(f)
    BY <1>1, <2>1
  <2>2. CASE InWip(f)
    <3>1. PICK i \in First .. Len(wip_zcu) : wip_zcu[i] = f
      BY <2>2
    <3>2. i \in wip_zcu_idx + 1 .. Len(wip_zcu)
      BY <1>2, <3>1
    <3> QED
      BY <3>1, <3>2
  <2> QED
    BY <1>3, <2>1, <2>2
<1>4. ASSUME NEW f \in InFlight PROVE Todo(f) \/ (lpc = "zcu_dec" /\ f = WipTask)
  <2>1. CASE f \in Range(queued_zcu)
    BY <1>1, <2>1
  <2>2. CASE f \notin Range(queued_zcu)
    <3>1. PICK i \in wip_zcu_idx + 1 .. Len(wip_zcu) : wip_zcu[i] = f
      BY <2>2
    <3>2. i \in First .. Len(wip_zcu) \/ (lpc = "zcu_dec" /\ i = wip_zcu_idx + 1)
      BY <1>2, <3>1
    <3> QED
      BY <3>1, <3>2
  <2> QED
    BY <2>1, <2>2
<1> QED
  BY <1>3, <1>4

LEMMA DecFreedNext == RunInv /\ PreInv /\ MirInv /\ DecFreed /\ [Next]_vars => DecFreed'
<1> SUFFICES ASSUME RunInv, PreInv, MirInv, DecFreed, [Next]_vars, lpc' = "zcu_dec"
             PROVE  mir'[WipTask'] = "freed" /\ WipTask' \notin left'
  BY DEF DecFreed
<1> USE DEF MirInv
<1>1. CASE ZcuRun
  <2>1. lpc = "zcu_run" /\ wip_zcu_idx < Len(wip_zcu)
    BY <1>1 DEF ZcuRun, RunInv, TypeOK, LinkType, TaskPcs
  <2>2. WipTask \in LinkFuncs /\ UNCHANGED <<wip_zcu, wip_zcu_idx>>
    BY <1>1 DEF ZcuRun, Advance, NextZcu
  <2>3. Todo(WipTask) /\ WipTask \in Tasks
    BY <2>1, WipTaskTodo DEF RunInv
  <2>4. mir' = [mir EXCEPT ![WipTask] = "freed"] /\ left' = left
    BY <1>1, <2>2 DEF ZcuRun, mainVars
  <2>5. WipTask' = WipTask
    BY <2>2 DEF WipTask
  <2>6. mir'[WipTask] = "freed"
    BY <2>2, <2>4 DEF RunInv, TypeOK, WorkerType
  <2> QED
    BY <2>3, <2>4, <2>5, <2>6 DEF TodoLive
<1>2. CASE ~ZcuRun
  <2>1. lpc = "zcu_dec" /\ UNCHANGED <<wip_zcu, wip_zcu_idx>>
    BY <1>2 DEF Next, MainNext, ItemNext, CodegenNext, LinkNext, Start, FinishItems,
       GiveUp, Dispatch,
         CodegenFunc, DispatchOther, DispatchFunc, EnqueueZcu, AirWake, EnqueueSection, SleepForAir,
         AppendZcu, AppendFails, DeinitTask, MainSpawn, EndWork, Wait, Flush, StartPrelinkItem,
         EnqueuePrelink, NoPrelinkOutput, ItemSpawn, ItemFinish, ItemExit, CodegenStore, MirReady,
         CodegenSpawn, CodegenExit, FlushStart, PrelinkSwap, PrelinkRun, PrelinkCall, ZcuSwap, ZcuTask,
         ZcuLock, ZcuDec, DoIdleTask, Advance, NextZcu, LinkReturn, zcuVars, linkVars, vars
  <2>2. mir[WipTask] = "freed" /\ WipTask \notin left /\ WipTask' = WipTask /\ WipTask \in LinkFuncs
    BY <2>1 DEF DecFreed, WipTask, RunInv, TypeOK, LinkType
  <2>3. PICK w \in LinkFuncs : w = WipTask /\ mir[w] = "freed" /\ w \notin left
    BY <2>2
  <2>4. ~Start
    BY <2>1, Rested DEF Start, PreInv
  <2>5. CASE \E f \in LinkFuncs : DispatchFunc(f)
    BY <2>2, <2>3, <2>5 DEF DispatchFunc, RunInv, TypeOK, WorkerType
  <2>6. CASE \E f \in LinkFuncs : CodegenStore(f)
    <3>1. PICK f \in LinkFuncs : CodegenStore(f)
      BY <2>6
    <3>2. f # w
      BY <2>3, <3>1 DEF CodegenStore, WorkersWrite
    <3> QED
      BY <2>2, <2>3, <3>1, <3>2 DEF CodegenStore, mainVars, RunInv, TypeOK, WorkerType
  <2>7. CASE DeinitTask
    BY <2>2, <2>3, <2>7 DEF DeinitTask, RunInv, TypeOK, WorkerType
  <2>8. CASE UNCHANGED mir /\ left' \subseteq left
    BY <2>2, <2>8
  <2>9. CASE \E t \in OtherTasks : DispatchOther(t)
    BY <2>8, <2>9 DEF DispatchOther
  <2>10. FinishItems \/ GiveUp \/ EnqueueZcu \/ AirWake \/ MainSpawn \/ EndWork \/ Wait \/ Flush
            \/ (\E p \in PrelinkItems : StartPrelinkItem(p) \/ ItemNext(p)) \/ UNCHANGED vars
         => UNCHANGED <<mir, left>>
    BY DEF FinishItems, GiveUp, EnqueueZcu, AirWake, EnqueueSection, MainSpawn, EndWork,
       Wait, Flush,
           StartPrelinkItem, ItemNext, EnqueuePrelink, NoPrelinkOutput, ItemSpawn, ItemFinish, ItemExit,
           mainVars, vars
  <2>11. (\E f \in LinkFuncs : MirReady(f) \/ CodegenSpawn(f) \/ CodegenExit(f))
            \/ FlushStart \/ PrelinkSwap \/ PrelinkRun \/ PrelinkCall \/ ZcuSwap \/ ZcuTask \/ ZcuLock
            \/ ZcuDec \/ (\E more \in BOOLEAN : DoIdleTask(more))
         => UNCHANGED <<mir, left>>
    BY DEF MirReady, CodegenSpawn, CodegenExit, FlushStart, PrelinkSwap, PrelinkRun,
       PrelinkCall,
           ZcuSwap, ZcuTask, ZcuLock, ZcuDec, DoIdleTask, mainVars
  <2> QED
    BY <1>2, <2>4, <2>5, <2>6, <2>7, <2>8, <2>9, <2>10, <2>11
    DEF Next, MainNext, CodegenNext, LinkNext, Dispatch, CodegenFunc
<1> QED
  BY <1>1, <1>2

\* A step that neither counts bytes nor moves a function in or out of the queues
LEMMA AirStays ==
    ASSUME AirInv, InFlight' = InFlight, UNCHANGED air_bytes_in_flight
    PROVE  IsFiniteSet(AirPairs') /\ AirAccounting' /\ AirBound'
<1>1. AirPairs' = AirPairs
  BY DEF AirPairs
<1> QED
  BY <1>1 DEF AirInv, AirAccounting, AirBound

LEMMA AirAppend ==
    ASSUME RunInv, MirInv, AirInv, EnqueueZcu \/ AirWake, AppendZcu(cur)
    PROVE  IsFiniteSet(AirPairs') /\ AirAccounting' /\ AirBound'
<1>1. mpc \in {"enqueue", "air_wait"} /\ UNCHANGED <<wip_zcu, wip_zcu_idx>>
      /\ queued_zcu' = Append(queued_zcu, cur) /\ ~MustWait(cur) /\ CountAir(cur)
  BY DEF EnqueueZcu, AirWake, AppendZcu
<1>2. PICK c \in Tasks : c = cur
  BY <1>1 DEF RunInv, TypeOK, MainType
<1>3. Range(queued_zcu') = Range(queued_zcu) \cup {c}
  <2>1. queued_zcu \in Seq(Tasks) /\ queued_zcu' = Append(queued_zcu, c)
    BY <1>1, <1>2 DEF RunInv, TypeOK, ZcuType
  <2>2. /\ DOMAIN queued_zcu = 1 .. Len(queued_zcu) /\ Len(queued_zcu) \in Nat
        /\ DOMAIN queued_zcu' = 1 .. Len(queued_zcu) + 1
        /\ queued_zcu'[Len(queued_zcu) + 1] = c
        /\ \A j \in 1 .. Len(queued_zcu) : queued_zcu'[j] = queued_zcu[j]
    BY <2>1
  <2>3. \A x \in Range(queued_zcu') : x \in Range(queued_zcu) \cup {c}
    BY <2>2 DEF Range
  <2>4. \A x \in Range(queued_zcu) \cup {c} : x \in Range(queued_zcu')
    BY <2>2 DEF Range
  <2> QED
    BY <2>3, <2>4
<1>4. CASE c \notin LinkFuncs
  <2>1. InFlight' = InFlight /\ UNCHANGED air_bytes_in_flight
    BY <1>1, <1>2, <1>3, <1>4 DEF InFlight, CountAir
  <2> QED
    BY <2>1, AirStays
<1>5. CASE c \in LinkFuncs
  <2>1. InFlight' = InFlight \cup {c} /\ InFlight \in SUBSET LinkFuncs
    BY <1>1, <1>3, <1>5 DEF InFlight
  <2>2. c \notin InFlight
    <3>1. ~Todo(c) /\ mir[c] # "freed"
      BY <1>1, <1>2, <1>5 DEF MirInv, CurLive, Live
    <3>2. ~(lpc = "zcu_dec" /\ c = WipTask)
      BY <3>1 DEF AirInv, DecFreed
    <3> QED
      BY <3>1, <3>2, InFlightFacts DEF RunInv
  <2> DEFINE A == InFlight  n == Cardinality(Pairs(A))  b == AirBytes[c]
  <2>3. AirPairs = Pairs(A) /\ AirPairs' = Pairs(A \cup {c})
    BY <2>1 DEF AirPairs, Pairs
  <2>4. IsFiniteSet(Pairs(A)) /\ air_bytes_in_flight = n /\ n \in Nat /\ b \in Nat /\ b > 0
    BY <1>5, <2>3, FS_CardinalityType, AirFacts DEF AirInv, AirAccounting
  <2>5. IsFiniteSet(Pairs(A \cup {c})) /\ Cardinality(Pairs(A \cup {c})) = n + b
    BY <1>5, <2>1, <2>2, <2>4, PairsAdd
  <2>6. air_bytes_in_flight' = n + b
    BY <1>1, <1>2, <1>5, <2>4 DEF CountAir
  <2>7. n <= MaxInFlight(b)
    BY <1>1, <1>2, <1>5, <2>4, CapFacts DEF MustWait, MaxInFlight
  <2>8. n + b > MaxAirBytes => n = 0
    BY <2>4, <2>7, CapFacts DEF MaxInFlight
  <2>9. n = 0 => Cardinality(A \cup {c}) = 1
    <3> SUFFICES ASSUME n = 0 PROVE Cardinality(A \cup {c}) = 1
      OBVIOUS
    <3>1. A = {}
      BY <2>1, <2>4, PairsNone
    <3>2. A \cup {c} = {c}
      BY <3>1
    <3> QED
      BY <3>2, FS_Singleton
  <2> HIDE DEF A, n, b
  <2>10. AirBound'
    <3>1. InFlight' = A \cup {c}
      BY <2>1 DEF A
    <3> QED
      BY <2>6, <2>8, <2>9, <3>1 DEF AirBound
  <2> QED
    BY <2>3, <2>5, <2>6, <2>10 DEF AirAccounting
<1> QED
  BY <1>4, <1>5

LEMMA AirDec ==
    ASSUME RunInv, MirInv, AirInv, ZcuDec
    PROVE  IsFiniteSet(AirPairs') /\ AirAccounting' /\ AirBound'
<1>1. lpc = "zcu_dec" /\ WipTask \in LinkFuncs /\ wip_zcu_idx < Len(wip_zcu)
      /\ wip_zcu_idx \in Nat /\ Len(wip_zcu) \in Nat
  BY QueueFacts DEF ZcuDec, RunInv, TypeOK, LinkType, TaskPcs
<1>2. PICK c \in LinkFuncs : c = WipTask
  BY <1>1
<1>3. UNCHANGED <<wip_zcu, queued_zcu>> /\ wip_zcu_idx' = wip_zcu_idx + 1
      /\ air_bytes_in_flight' = air_bytes_in_flight - AirBytes[c]
  BY <1>2 DEF ZcuDec, Advance
<1>4. ~Todo(c)
  BY <1>1, <1>2, TaskFacts DEF AirInv, DecFreed, MirInv, TodoLive, Live
<1>5. c \in InFlight
  BY <1>1, <1>2 DEF InFlight, WipTask
<1>6. InFlight' = InFlight \ {c}
  <2>1. \A i \in wip_zcu_idx + 1 .. Len(wip_zcu) :
            i = wip_zcu_idx + 1 \/ i \in wip_zcu_idx + 2 .. Len(wip_zcu)
    BY <1>1
  <2>2. wip_zcu_idx + 2 .. Len(wip_zcu) \subseteq wip_zcu_idx + 1 .. Len(wip_zcu)
    BY <1>1
  <2>3. First = wip_zcu_idx + 2
    BY <1>1 DEF First
  <2>4. \A i \in wip_zcu_idx + 2 .. Len(wip_zcu) : wip_zcu[i] # c
    BY <1>4, <2>3 DEF Todo, InWip
  <2>5. c \notin Range(queued_zcu)
    BY <1>4 DEF Todo, InQueue, Range, RunInv, TypeOK, ZcuType
  <2>6. (wip_zcu_idx + 1) + 1 = wip_zcu_idx + 2
    BY <1>1
  <2>7. InFlight' = LinkFuncs \cap (Range(queued_zcu) \cup {wip_zcu[i] : i \in wip_zcu_idx + 2 .. Len(wip_zcu)})
    BY <1>3, <2>6 DEF InFlight
  <2>8. wip_zcu[wip_zcu_idx + 1] = c
    BY <1>2 DEF WipTask
  <2> QED
    BY <2>1, <2>2, <2>4, <2>5, <2>7, <2>8 DEF InFlight
<1> DEFINE A == InFlight  n == Cardinality(Pairs(A \ {c}))  b == AirBytes[c]
<1>7. AirPairs = Pairs(A) /\ AirPairs' = Pairs(A \ {c}) /\ A \in SUBSET LinkFuncs
  BY <1>6 DEF AirPairs, Pairs, InFlight
<1>8. /\ IsFiniteSet(Pairs(A \ {c})) /\ n \in Nat /\ Cardinality(Pairs(A)) = n + b
      /\ b \in Nat
  BY <1>5, <1>7, PairsRemove, AirFacts DEF AirInv
<1>9. air_bytes_in_flight = n + b /\ air_bytes_in_flight' = n
  BY <1>3, <1>7, <1>8 DEF AirInv, AirAccounting
<1>10. n > MaxAirBytes => Cardinality(A \ {c}) = 1
  <2> SUFFICES ASSUME n > MaxAirBytes PROVE FALSE
    OBVIOUS
  <2>1. Cardinality(A) = 1
    BY <1>8, <1>9, CapFacts DEF AirInv, AirBound
  <2>2. IsFiniteSet(A)
    BY <1>7, FS_Subset, CapFacts
  <2>3. IsFiniteSet(A \ {c}) /\ Cardinality(A \ {c}) = 0
    BY <1>5, <2>1, <2>2, FS_RemoveElement
  <2>4. A \ {c} = {}
    BY <2>3, FS_EmptySet
  <2>5. Pairs(A \ {c}) = {}
    BY <2>4 DEF Pairs
  <2>6. n = 0
    BY <2>5, FS_EmptySet
  <2> QED
    BY <2>6, CapFacts
<1> HIDE DEF A, n, b
<1>11. InFlight' = A \ {c}
  BY <1>6 DEF A
<1> QED
  BY <1>7, <1>8, <1>9, <1>10, <1>11 DEF AirAccounting, AirBound, n

LEMMA AirNext ==
    ~AllocMayFail /\ RunInv /\ PreInv /\ MirInv /\ SwapAtEnd /\ AirInv /\ [Next]_vars => AirInv'
<1> SUFFICES ASSUME ~AllocMayFail, RunInv, PreInv, MirInv, SwapAtEnd, AirInv, [Next]_vars
             PROVE  IsFiniteSet(AirPairs') /\ AirAccounting' /\ AirBound'
  BY DecFreedNext DEF AirInv
<1>1. CASE UNCHANGED <<queued_zcu, wip_zcu, wip_zcu_idx, air_bytes_in_flight>>
  BY <1>1, AirStays DEF InFlight
<1>2. CASE (EnqueueZcu \/ AirWake) /\ AppendZcu(cur)
  BY <1>2, AirAppend
<1>3. CASE (EnqueueZcu \/ AirWake) /\ ~AppendZcu(cur)
  BY <1>1, <1>3 DEF EnqueueZcu, AirWake, EnqueueSection, SleepForAir, AppendFails, zcuVars
<1>4. CASE ZcuSwap
  <2>1. wip_zcu_idx = Len(wip_zcu) /\ Len(wip_zcu) \in Nat
    BY <1>4, QueueFacts DEF ZcuSwap, SwapAtEnd, RunInv
  <2>2. {wip_zcu[i] : i \in wip_zcu_idx + 1 .. Len(wip_zcu)} = {}
    BY <2>1
  <2>3. wip_zcu' = queued_zcu /\ queued_zcu' = <<>> /\ wip_zcu_idx' = 0 /\ UNCHANGED air_bytes_in_flight
    BY <1>4 DEF ZcuSwap, airVars
  <2>4. Range(queued_zcu) = {queued_zcu[i] : i \in 1 .. Len(queued_zcu)}
    BY DEF Range, RunInv, TypeOK, ZcuType
  <2>5. Range(<<>>) = {}
    BY DEF Range
  <2>6. InFlight' = LinkFuncs \cap {queued_zcu[i] : i \in 0 + 1 .. Len(queued_zcu)}
    BY <2>3, <2>5 DEF InFlight
  <2>7. 0 + 1 = 1
    OBVIOUS
  <2>8. InFlight' = InFlight
    BY <2>2, <2>4, <2>6, <2>7 DEF InFlight
  <2> QED
    BY <2>3, <2>8, AirStays
<1>5. CASE ZcuRun
  <2>1. UNCHANGED <<queued_zcu, wip_zcu, air_bytes_in_flight>> /\ wip_zcu_idx \in Nat /\ Len(wip_zcu) \in Nat
    BY <1>5, QueueFacts DEF ZcuRun, airVars, RunInv
  <2>2. wip_zcu_idx' = wip_zcu_idx \/ (WipTask \notin LinkFuncs /\ wip_zcu_idx' = wip_zcu_idx + 1)
    BY <1>5 DEF ZcuRun, Advance
  <2>3. CASE WipTask \notin LinkFuncs /\ wip_zcu_idx' = wip_zcu_idx + 1
    <3>1. \A i \in wip_zcu_idx + 1 .. Len(wip_zcu) :
              i = wip_zcu_idx + 1 \/ i \in (wip_zcu_idx + 1) + 1 .. Len(wip_zcu)
      BY <2>1
    <3>2. (wip_zcu_idx + 1) + 1 .. Len(wip_zcu) \subseteq wip_zcu_idx + 1 .. Len(wip_zcu)
      BY <2>1
    <3>3. InFlight' = LinkFuncs \cap (Range(queued_zcu)
                          \cup {wip_zcu[i] : i \in (wip_zcu_idx + 1) + 1 .. Len(wip_zcu)})
      BY <2>1, <2>3 DEF InFlight
    <3>4. InFlight' = InFlight
      BY <2>3, <3>1, <3>2, <3>3 DEF InFlight, WipTask
    <3> QED
      BY <2>1, <3>4, AirStays
  <2> QED
    BY <1>1, <2>1, <2>2, <2>3
<1>6. CASE ZcuDec
  BY <1>6, AirDec
<1>7. Start \/ FinishItems \/ GiveUp \/ Dispatch \/ CodegenFunc \/ DeinitTask \/ MainSpawn \/ EndWork
         \/ Wait \/ Flush \/ UNCHANGED vars
      => UNCHANGED <<queued_zcu, wip_zcu, wip_zcu_idx, air_bytes_in_flight>>
  BY DEF Start, FinishItems, GiveUp, Dispatch, DispatchOther, CodegenFunc, DispatchFunc,
     DeinitTask,
         MainSpawn, EndWork, Wait, Flush, zcuVars, airVars, vars
<1>8. (\E p \in PrelinkItems : StartPrelinkItem(p) \/ ItemNext(p)) \/ (\E f \in LinkFuncs : CodegenNext(f))
      => UNCHANGED <<queued_zcu, wip_zcu, wip_zcu_idx, air_bytes_in_flight>>
  BY DEF StartPrelinkItem, ItemNext, EnqueuePrelink, NoPrelinkOutput, ItemSpawn,
     ItemFinish, ItemExit,
         CodegenNext, CodegenStore, MirReady, CodegenSpawn, CodegenExit, zcuVars, airVars
<1>9. FlushStart \/ PrelinkSwap \/ PrelinkRun \/ PrelinkCall \/ ZcuTask \/ ZcuLock
         \/ (\E more \in BOOLEAN : DoIdleTask(more))
      => UNCHANGED <<queued_zcu, wip_zcu, wip_zcu_idx, air_bytes_in_flight>>
  BY DEF FlushStart, PrelinkSwap, PrelinkRun, PrelinkCall, ZcuTask, ZcuLock, DoIdleTask,
     zcuVars, airVars
<1> QED
  BY <1>1, <1>2, <1>3, <1>4, <1>5, <1>6, <1>7, <1>8, <1>9 DEF Next, MainNext, LinkNext

LEMMA AirInit == Init => AirInv
<1> SUFFICES ASSUME Init PROVE AirInv
  OBVIOUS
<1>1. lpc = "idle" /\ queued_zcu = <<>> /\ wip_zcu = <<>> /\ wip_zcu_idx = 0 /\ air_bytes_in_flight = 0
  BY DEF Init
<1>2. Range(queued_zcu) = {} /\ {wip_zcu[i] : i \in wip_zcu_idx + 1 .. Len(wip_zcu)} = {}
  BY <1>1 DEF Range
<1>3. InFlight = {} /\ AirPairs = {}
  BY <1>2 DEF InFlight, AirPairs
<1> QED
  BY <1>1, <1>3, FS_EmptySet, CapFacts DEF AirInv, DecFreed, AirAccounting, AirBound

LEMMA AirAlways == ASSUME ~AllocMayFail PROVE Spec => []AirInv
BY RunInvInit, RunInvNext, PreInvInit, PreInvNext, MirInvInit, MirInvNext, OrderInit,
   SwapAtEndNext, AirInit, AirNext, PTL DEF Spec

\* While memory lasts, air_bytes_in_flight is the sum of the bytes of the functions that
\* are queued (AirAccounting), for every set of functions and sizes.
THEOREM AirCounted == ASSUME ~AllocMayFail PROVE Spec => []AirAccounting
<1>1. AirInv => AirAccounting
  BY DEF AirInv
<1> QED
  BY <1>1, AirAlways, PTL

\* While memory lasts, the AIR in flight exceeds the cap only by a function that exceeds
\* it alone (AirBound).
THEOREM AirCapped == ASSUME ~AllocMayFail PROVE Spec => []AirBound
<1>1. AirInv => AirBound
  BY DEF AirInv
<1> QED
  BY <1>1, AirAlways, PTL
-----------------------------------------------------------------------------
(***************************************************************************)
(* The sleep for AIR.  Whoever gives bytes back signals as soon as the     *)
(* task fits (AirTold).  And as long as it does not fit, a function is     *)
(* queued, whose bytes somebody will give back (AirComes).                 *)
(***************************************************************************)
AirTold ==
    mpc = "air_wait" =>
        /\ cur \in LinkFuncs /\ air_bytes_waiting = AirBytes[cur]
        /\ air_signaled \/ MustWait(cur)

\* a link thread works or is about to, an input is still to come, or the codegen worker
\* the link thread stopped for has yet to restart it
LinkGoesOn ==
    \/ \E a \in Agents : Runs(a)
    \/ Unfinished # {}
    \/ state = "wait_for_mir" /\ wait_for \in LinkFuncs /\ cg[wait_for] \in {"running", "stored"}
AirComes == mpc = "air_wait" => air_signaled \/ LinkGoesOn

LEMMA AirToldSleeps ==
    ASSUME RunInv, mpc \in {"enqueue", "air_wait"}, SleepForAir(cur)
    PROVE  AirTold'
<1>1. cur \in LinkFuncs /\ MustWait(cur)
      /\ UNCHANGED <<cur, air_bytes_in_flight>> /\ air_bytes_waiting' = AirBytes[cur]
  BY DEF SleepForAir, MustWait
<1>2. MustWait(cur)'
  BY <1>1 DEF MustWait
<1> QED
  BY <1>1, <1>2 DEF AirTold

LEMMA AirToldDec == ASSUME RunInv, AirTold, ZcuDec, mpc = "air_wait" PROVE AirTold'
<1>1. /\ cur \in LinkFuncs /\ air_bytes_waiting = AirBytes[cur]
      /\ UNCHANGED <<mpc, cur, air_bytes_waiting>>
  BY DEF AirTold, ZcuDec, mainVars
<1>2. AirBytes[cur] \in Nat /\ AirBytes[cur] > 0 /\ MaxInFlight(AirBytes[cur]) \in Int
  BY <1>1, AirFacts, CapFacts DEF MaxInFlight
<1>3. WipTask \in LinkFuncs /\ air_bytes_in_flight \in Int
  BY DEF ZcuDec, RunInv, TypeOK, LinkType, AirType
<1>4. air_bytes_in_flight' \in Int
  BY <1>3, AirFacts DEF ZcuDec
<1>5. CASE SignalsAir(air_bytes_in_flight')
  <2>1. air_signaled' = TRUE
    BY <1>5 DEF ZcuDec
  <2> QED
    BY <1>1, <2>1 DEF AirTold
<1>6. CASE ~SignalsAir(air_bytes_in_flight')
  <2>1. air_bytes_in_flight' > MaxInFlight(AirBytes[cur])
    BY <1>1, <1>2, <1>4, <1>6 DEF SignalsAir
  <2>2. MustWait(cur)'
    BY <1>1, <2>1 DEF MustWait, MaxInFlight
  <2> QED
    BY <1>1, <2>2 DEF AirTold
<1> QED
  BY <1>5, <1>6

LEMMA AirToldNext == RunInv /\ AirTold /\ [Next]_vars => AirTold'
<1> SUFFICES ASSUME RunInv, AirTold, [Next]_vars, mpc' = "air_wait" PROVE AirTold'
  BY DEF AirTold
<1>1. CASE EnqueueZcu \/ AirWake
  <2>1. mpc \in {"enqueue", "air_wait"} /\ SleepForAir(cur)
    BY <1>1 DEF EnqueueZcu, AirWake, EnqueueSection, AppendZcu, AppendFails
  <2> QED
    BY <2>1, AirToldSleeps
<1>2. ASSUME mpc = "air_wait", UNCHANGED <<cur, airVars>> PROVE AirTold'
  <2>1. MustWait(cur)' <=> MustWait(cur)
    BY <1>2 DEF MustWait, airVars
  <2> QED
    BY <1>2, <2>1 DEF AirTold, airVars
<1>3. CASE ZcuDec
  <2>1. mpc = "air_wait"
    BY <1>3 DEF ZcuDec, mainVars
  <2> QED
    BY <1>3, <2>1, AirToldDec
<1>4. ~(Start \/ FinishItems \/ GiveUp \/ Dispatch \/ CodegenFunc \/ DeinitTask \/ MainSpawn
        \/ EndWork \/ Wait \/ Flush)
  BY DEF Start, FinishItems, GiveUp, Dispatch, DispatchOther, CodegenFunc, DispatchFunc,
     DeinitTask, MainSpawn, EndWork, Wait, Flush
<1>5. (\E p \in PrelinkItems : StartPrelinkItem(p) \/ ItemNext(p))
         \/ (\E f \in LinkFuncs : CodegenNext(f)) \/ UNCHANGED vars
      => UNCHANGED <<mpc, cur, airVars>>
  BY DEF StartPrelinkItem, ItemNext, EnqueuePrelink, NoPrelinkOutput, ItemSpawn, ItemFinish,
     ItemExit, CodegenNext, CodegenStore, MirReady, CodegenSpawn, CodegenExit, mainVars, vars
<1>6. FlushStart \/ PrelinkSwap \/ PrelinkRun \/ PrelinkCall \/ ZcuSwap \/ ZcuTask \/ ZcuLock
         \/ ZcuRun \/ (\E more \in BOOLEAN : DoIdleTask(more))
      => UNCHANGED <<mpc, cur, airVars>>
  BY DEF FlushStart, PrelinkSwap, PrelinkRun, PrelinkCall, ZcuSwap, ZcuTask, ZcuLock, ZcuRun,
     DoIdleTask, mainVars
<1> QED
  BY <1>1, <1>2, <1>3, <1>4, <1>5, <1>6 DEF Next, MainNext, LinkNext

LEMMA AirToldAlways == Spec => [](RunInv /\ AirTold)
<1>1. Init => AirTold
  BY DEF Init, AirTold
<1> QED
  BY <1>1, RunInvInit, RunInvNext, AirToldNext, PTL DEF Spec

\* No wakeup for AIR is lost: a main thread that sleeps in enqueueZcu without a signal has a
\* task that does not fit, in spite of spurious wakeups, failed appends and any order of
\* the bytes given back.
THEOREM AirSleeperTold == Spec => []AirTold
  BY AirToldAlways, PTL

\* what does not fit finds a function that is queued or whose bytes are about to be given back
LEMMA BytesQueued ==
    ASSUME RunInv, AirInv, cur \in LinkFuncs, MustWait(cur)
    PROVE  \E f \in LinkFuncs : Todo(f) \/ lpc = "zcu_dec"
<1>1. air_bytes_in_flight > 0
  <2>1. AirBytes[cur] \in Nat /\ MaxInFlight(AirBytes[cur]) >= 0
        /\ MaxInFlight(AirBytes[cur]) \in Int
    BY AirFacts, CapFacts DEF MaxInFlight
  <2>2. air_bytes_in_flight \in Int
    BY DEF RunInv, TypeOK, AirType
  <2> QED
    BY <2>1, <2>2 DEF MustWait
<1>2. AirPairs # {}
  BY <1>1, FS_EmptySet DEF AirInv, AirAccounting
<1>3. PICK f \in InFlight : TRUE
  BY <1>2 DEF AirPairs
<1> QED
  BY <1>3, InFlightFacts DEF InFlight, RunInv

LEMMA AirGoesOn ==
    ASSUME RunInv, PreInv, AirInv, AirTold
    PROVE  AirComes
<1> SUFFICES ASSUME mpc = "air_wait", ~air_signaled, Unfinished = {}, state # "running",
                    state # "wait_for_mir"
             PROVE  FALSE
  BY DEF AirComes, LinkGoesOn, RunInv, SingleLinkThread, PreInv, MirAwaited
<1>1. PICK f \in LinkFuncs : Todo(f) \/ lpc = "zcu_dec"
  BY BytesQueued DEF AirTold
<1>2. lpc = "idle" /\ state = "finished"
  BY RunnerFacts DEF RunInv, TypeOK, RunType
<1>3. prelink_wait_count = 0
  BY ExtraFacts DEF RunInv, PreInv, ExtraInv
<1>4. queued_zcu = <<>> /\ wip_zcu_idx = Len(wip_zcu)
  BY <1>2, <1>3 DEF PreInv, Drained, NoZcu
<1>5. ~Todo(f)
  BY <1>4, QueueFacts DEF Todo, InWip, InQueue, RunInv
<1> QED
  BY <1>1, <1>2, <1>5

\* While memory lasts the main thread never sleeps for AIR alone: the link thread works or
\* is about to, an input is still to come, or a codegen worker has the link thread to
\* restart (AirComes).
THEOREM AirSleeperServed == ASSUME ~AllocMayFail PROVE Spec => []AirComes
  BY AirGoesOn, RunInvInit, RunInvNext, PreInvInit, PreInvNext, AirAlways, AirToldAlways,
     PTL DEF Spec
=============================================================================
