-------------------------- MODULE ThreadPool_proofs --------------------------
(* Proofs about ThreadPool, for every number of workers, clients and tasks. *)
EXTENDS ThreadPool, FiniteSetTheorems, TLAPS

(* Head and Tail of a nonempty queue stay within its element set. *)
LEMMA HeadTail ==
  ASSUME NEW S, NEW q \in Seq(S), q # <<>>
  PROVE  Head(q) \in S /\ Tail(q) \in Seq(S)
OBVIOUS

-----------------------------------------------------------------------------
(* Type correctness.  TypeOK is not inductive: a call in progress must     *)
(* have its task, and destroy's index must name a worker when it is used.  *)

ClientHolds == \A c \in Clients : cpc[c] \in {"count", "push"} => ctask[c] \in Tasks
WorkerHolds ==
  \A w \in Workers :
    /\ wpc[w] \in {"exec", "dec", "notify", "free"} => cur[w] \in Tasks
    /\ wpc[w] = "keep" => cur[w] \in Tasks \cup {Terminate}
MainIndex == mpc \in {"push", "signal"} => mi \in Workers

TypeInv == TypeOK /\ ClientHolds /\ WorkerHolds /\ MainIndex

(* The pool starts well typed. *)
LEMMA TypeInit == Init => TypeInv
<1> SUFFICES ASSUME Init PROVE TypeInv
  OBVIOUS
<1> USE PoolAssumption DEF PoolAssumption, Init
<1>1. TypePool /\ TypeMain /\ MainIndex
  BY DEF TypePool, TypeMain, MainIndex, Workers
<1>2. TypeQueues /\ TypeWorkers
  <2>1. running \in [Workers -> BOOLEAN]
    BY Zenon
  <2>2. <<>> \in Seq(Tasks \cup {Terminate})
    OBVIOUS
  <2>3. QED
    BY <2>1, <2>2 DEF TypeQueues, TypeWorkers
<1>3. TypeLocals /\ WorkerHolds
  BY DEF TypeLocals, WorkerHolds, WorkerSteps
<1>4. TypeClients /\ ClientHolds
  <2>1. 0 \in Workers
    BY DEF Workers
  <2>2. QED
    BY <2>1 DEF TypeClients, ClientHolds, ClientSteps
<1>5. TypeTasks
  BY DEF TypeTasks, Stages
<1>6. QED
  BY <1>1, <1>2, <1>3, <1>4, <1>5 DEF TypeInv, TypeOK

(* Every step keeps the types. *)
LEMMA TypeStep == TypeInv /\ [Next]_vars => TypeInv'
<1> SUFFICES ASSUME TypeInv, [Next]_vars PROVE TypeInv'
  OBVIOUS
<1> USE PoolAssumption DEF PoolAssumption
<1>0. /\ TypePool /\ TypeWorkers /\ TypeQueues /\ TypeLocals /\ TypeClients
      /\ TypeMain /\ TypeTasks /\ ClientHolds /\ WorkerHolds /\ MainIndex
  BY DEF TypeInv, TypeOK
<1> USE <1>0
<1>1. ASSUME NEW c \in Clients, NEW t \in Tasks, SubmitCall(c, t)
      PROVE  TypeInv'
  <2>1. TypeClients'
    BY <1>1 DEF SubmitCall, TypeClients, ClientSteps, CGoto
  <2>2. TypeTasks'
    BY <1>1 DEF SubmitCall, TypeTasks, ClientHolds, Stages, SetStage
  <2>3. ClientHolds'
    BY <1>1 DEF SubmitCall, ClientHolds, TypeClients, CGoto
  <2>4. TypePool' /\ TypeWorkers' /\ TypeQueues' /\ TypeLocals' /\ TypeMain' /\ WorkerHolds' /\
      MainIndex'
    BY <1>1 DEF SubmitCall, TypePool, TypeWorkers, TypeQueues, TypeLocals, TypeMain,
        WorkerHolds, MainIndex, poolVars, workerVars, localVars, clientVars, mainVars, taskVars
  <2>5. QED
    BY <2>1, <2>2, <2>3, <2>4 DEF TypeInv, TypeOK
<1>2. ASSUME NEW c \in Clients, NEW t \in Tasks, SubmitRefused(c, t)
      PROVE  TypeInv'
  <2>1. TypeTasks'
    BY <1>2 DEF SubmitRefused, TypeTasks, ClientHolds, Free, Stages, SetStage
  <2>2. TypePool' /\ TypeWorkers' /\ TypeQueues' /\ TypeLocals' /\ TypeClients' /\ TypeMain' /\
      ClientHolds' /\ WorkerHolds' /\ MainIndex'
    BY <1>2 DEF SubmitRefused, TypePool, TypeWorkers, TypeQueues, TypeLocals, TypeClients,
        TypeMain, ClientHolds, WorkerHolds, MainIndex, poolVars, workerVars, localVars,
        clientVars, mainVars, taskVars
  <2>3. QED
    BY <2>1, <2>2 DEF TypeInv, TypeOK
<1>3. ASSUME NEW c \in Clients, NEW r \in BOOLEAN, SubmitCount(c, r)
      PROVE  TypeInv'
  <2>1. TypePool'
    BY <1>3 DEF SubmitCount, TypePool, Workers
  <2>2. TypeClients'
    BY <1>3 DEF SubmitCount, TypeClients, TypePool, ClientSteps, CGoto
  <2>3. TypeTasks'
    BY <1>3 DEF SubmitCount, TypeTasks, ClientHolds, Stages, SetStage
  <2>4. ClientHolds'
    BY <1>3 DEF SubmitCount, ClientHolds, TypeClients, CGoto
  <2>5. TypeWorkers' /\ TypeQueues' /\ TypeLocals' /\ TypeMain' /\ WorkerHolds' /\ MainIndex'
    BY <1>3 DEF SubmitCount, TypeWorkers, TypeQueues, TypeLocals, TypeMain, WorkerHolds,
        MainIndex, poolVars, workerVars, localVars, clientVars, mainVars, taskVars
  <2>6. QED
    BY <2>1, <2>2, <2>3, <2>4, <2>5 DEF TypeInv, TypeOK
<1>4. ASSUME NEW c \in Clients, SubmitPush(c)
      PROVE  TypeInv'
  <2>1. TypeQueues'
    BY <1>4 DEF SubmitPush, TypeQueues, TypeClients, ClientHolds
  <2>2. TypeClients'
    BY <1>4 DEF SubmitPush, TypeClients, ClientSteps, CGoto
  <2>3. TypeTasks'
    BY <1>4 DEF SubmitPush, TypeTasks, ClientHolds, Stages, SetStage
  <2>4. ClientHolds'
    BY <1>4 DEF SubmitPush, ClientHolds, TypeClients, CGoto
  <2>5. TypePool' /\ TypeWorkers' /\ TypeLocals' /\ TypeMain' /\ WorkerHolds' /\ MainIndex'
    BY <1>4 DEF SubmitPush, TypePool, TypeWorkers, TypeLocals, TypeMain, WorkerHolds, MainIndex,
        poolVars, workerVars, localVars, clientVars, mainVars, taskVars
  <2>6. QED
    BY <2>1, <2>2, <2>3, <2>4, <2>5 DEF TypeInv, TypeOK
<1>5. ASSUME NEW c \in Clients, SubmitSignal(c)
      PROVE  TypeInv'
  <2>1. TypeLocals'
    BY <1>5 DEF SubmitSignal, TypeLocals, TypeClients, SignalWorker, WorkerSteps, WGoto
  <2>2. TypeClients'
    BY <1>5 DEF SubmitSignal, TypeClients, SignalWorker, ClientSteps, CGoto
  <2>3. ClientHolds'
    BY <1>5 DEF SubmitSignal, ClientHolds, TypeClients, SignalWorker, CGoto
  <2>4. WorkerHolds'
    BY <1>5 DEF SubmitSignal, WorkerHolds, TypeLocals, SignalWorker, WGoto
  <2>5. TypePool' /\ TypeWorkers' /\ TypeQueues' /\ TypeMain' /\ TypeTasks' /\ MainIndex'
    BY <1>5 DEF SubmitSignal, TypePool, TypeWorkers, TypeQueues, TypeMain, TypeTasks, MainIndex,
        poolVars, workerVars, localVars, clientVars, mainVars, taskVars
  <2>6. QED
    BY <2>1, <2>2, <2>3, <2>4, <2>5 DEF TypeInv, TypeOK
<1>6. ASSUME NEW c \in Clients, WaitCall(c)
      PROVE  TypeInv'
  <2>1. TypeClients'
    BY <1>6 DEF WaitCall, TypeClients, ClientSteps, CGoto
  <2>2. ClientHolds'
    BY <1>6 DEF WaitCall, ClientHolds, TypeClients, CGoto
  <2>3. TypePool' /\ TypeWorkers' /\ TypeQueues' /\ TypeLocals' /\ TypeMain' /\ TypeTasks' /\
      WorkerHolds' /\ MainIndex'
    BY <1>6 DEF WaitCall, TypePool, TypeWorkers, TypeQueues, TypeLocals, TypeMain, TypeTasks,
        WorkerHolds, MainIndex, poolVars, workerVars, localVars, clientVars, mainVars, taskVars
  <2>4. QED
    BY <2>1, <2>2, <2>3 DEF TypeInv, TypeOK
<1>7. ASSUME NEW c \in Clients, WaitCheck(c)
      PROVE  TypeInv'
  <2>1. TypeClients'
    BY <1>7 DEF WaitCheck, TypeClients, ClientSteps, CGoto
  <2>2. ClientHolds'
    BY <1>7 DEF WaitCheck, ClientHolds, TypeClients, CGoto
  <2>3. TypePool' /\ TypeWorkers' /\ TypeQueues' /\ TypeLocals' /\ TypeMain' /\ TypeTasks' /\
      WorkerHolds' /\ MainIndex'
    BY <1>7 DEF WaitCheck, TypePool, TypeWorkers, TypeQueues, TypeLocals, TypeMain, TypeTasks,
        WorkerHolds, MainIndex, poolVars, workerVars, localVars, clientVars, mainVars, taskVars
  <2>4. QED
    BY <2>1, <2>2, <2>3 DEF TypeInv, TypeOK
<1>8. ASSUME NEW c \in Clients, WaitSleep(c)
      PROVE  TypeInv'
  <2>1. TypeClients'
    BY <1>8 DEF WaitSleep, TypeClients, ClientSteps, CGoto
  <2>2. ClientHolds'
    BY <1>8 DEF WaitSleep, ClientHolds, TypeClients, CGoto
  <2>3. TypePool' /\ TypeWorkers' /\ TypeQueues' /\ TypeLocals' /\ TypeMain' /\ TypeTasks' /\
      WorkerHolds' /\ MainIndex'
    BY <1>8 DEF WaitSleep, TypePool, TypeWorkers, TypeQueues, TypeLocals, TypeMain, TypeTasks,
        WorkerHolds, MainIndex, poolVars, workerVars, localVars, clientVars, mainVars, taskVars
  <2>4. QED
    BY <2>1, <2>2, <2>3 DEF TypeInv, TypeOK
<1>9. ASSUME NEW c \in Clients, AfterWait(c)
      PROVE  TypeInv'
  <2>1. TypeClients'
    BY <1>9 DEF AfterWait, TypeClients, ClientSteps, CGoto
  <2>2. TypeTasks'
    BY <1>9 DEF AfterWait, TypeTasks, ClientHolds, Stages, SetStage
  <2>3. ClientHolds'
    BY <1>9 DEF AfterWait, ClientHolds, TypeClients, CGoto
  <2>4. TypePool' /\ TypeWorkers' /\ TypeQueues' /\ TypeLocals' /\ TypeMain' /\ WorkerHolds' /\
      MainIndex'
    BY <1>9 DEF AfterWait, TypePool, TypeWorkers, TypeQueues, TypeLocals, TypeMain, WorkerHolds,
        MainIndex, poolVars, workerVars, localVars, clientVars, mainVars, taskVars
  <2>5. QED
    BY <2>1, <2>2, <2>3, <2>4 DEF TypeInv, TypeOK
<1>10. ASSUME NEW w \in Workers, WorkerStart(w)
      PROVE  TypeInv'
  <2>1. TypeWorkers'
    BY <1>10 DEF WorkerStart, TypeWorkers
  <2>2. TypeLocals'
    BY <1>10 DEF WorkerStart, TypeLocals, WorkerSteps, WGoto
  <2>3. WorkerHolds'
    BY <1>10 DEF WorkerStart, WorkerHolds, TypeLocals, WGoto
  <2>4. TypePool' /\ TypeQueues' /\ TypeClients' /\ TypeMain' /\ TypeTasks' /\ ClientHolds' /\
      MainIndex'
    BY <1>10 DEF WorkerStart, TypePool, TypeQueues, TypeClients, TypeMain, TypeTasks,
        ClientHolds, MainIndex, poolVars, workerVars, localVars, clientVars, mainVars, taskVars
  <2>5. QED
    BY <2>1, <2>2, <2>3, <2>4 DEF TypeInv, TypeOK
<1>11. ASSUME NEW w \in Workers, WorkerLoop(w)
      PROVE  TypeInv'
  <2>1. TypeLocals'
    BY <1>11 DEF WorkerLoop, TypeLocals, WorkerSteps, WGoto
  <2>2. WorkerHolds'
    BY <1>11 DEF WorkerLoop, WorkerHolds, TypeLocals, WGoto
  <2>3. TypePool' /\ TypeWorkers' /\ TypeQueues' /\ TypeClients' /\ TypeMain' /\ TypeTasks' /\
      ClientHolds' /\ MainIndex'
    BY <1>11 DEF WorkerLoop, TypePool, TypeWorkers, TypeQueues, TypeClients, TypeMain,
        TypeTasks, ClientHolds, MainIndex, poolVars, workerVars, localVars, clientVars,
        mainVars, taskVars
  <2>4. QED
    BY <2>1, <2>2, <2>3 DEF TypeInv, TypeOK
<1>12. ASSUME NEW w \in Workers, WorkerPopNone(w)
      PROVE  TypeInv'
  <2>1. TypeLocals'
    BY <1>12 DEF WorkerPopNone, TypeLocals, WorkerSteps, WGoto
  <2>2. WorkerHolds'
    BY <1>12 DEF WorkerPopNone, WorkerHolds, TypeLocals, WGoto
  <2>3. TypePool' /\ TypeWorkers' /\ TypeQueues' /\ TypeClients' /\ TypeMain' /\ TypeTasks' /\
      ClientHolds' /\ MainIndex'
    BY <1>12 DEF WorkerPopNone, TypePool, TypeWorkers, TypeQueues, TypeClients, TypeMain,
        TypeTasks, ClientHolds, MainIndex, poolVars, workerVars, localVars, clientVars,
        mainVars, taskVars
  <2>4. QED
    BY <2>1, <2>2, <2>3 DEF TypeInv, TypeOK
<1>13. ASSUME NEW w \in Workers, WorkerPopTask(w)
      PROVE  TypeInv'
  <2>0. /\ Head(queue[w]) \in Tasks \cup {Terminate}
        /\ Tail(queue[w]) \in Seq(Tasks \cup {Terminate})
    <3>1. queue[w] \in Seq(Tasks \cup {Terminate}) /\ queue[w] # <<>>
      BY <1>13 DEF WorkerPopTask, TypeQueues
    <3>2. QED
      BY <3>1, HeadTail
  <2>1. TypeQueues'
    BY <1>13, <2>0 DEF WorkerPopTask, TypeQueues
  <2>2. TypeLocals'
    BY <1>13, <2>0 DEF WorkerPopTask, TypeLocals, WorkerSteps, WGoto
  <2>3. TypeTasks'
    BY <1>13, <2>0 DEF WorkerPopTask, TypeTasks, WorkerHolds, TypeLocals, Stages, SetStage
  <2>4. WorkerHolds'
    BY <1>13, <2>0 DEF WorkerPopTask, WorkerHolds, TypeLocals, TypeQueues, WGoto
  <2>5. TypePool' /\ TypeWorkers' /\ TypeClients' /\ TypeMain' /\ ClientHolds' /\ MainIndex'
    BY <1>13 DEF WorkerPopTask, TypePool, TypeWorkers, TypeClients, TypeMain, ClientHolds,
        MainIndex, poolVars, workerVars, localVars, clientVars, mainVars, taskVars
  <2>6. QED
    BY <2>1, <2>2, <2>3, <2>4, <2>5 DEF TypeInv, TypeOK
<1>14. ASSUME NEW w \in Workers, WorkerPopTerminate(w)
      PROVE  TypeInv'
  <2>0. /\ Head(queue[w]) \in Tasks \cup {Terminate}
        /\ Tail(queue[w]) \in Seq(Tasks \cup {Terminate})
    <3>1. queue[w] \in Seq(Tasks \cup {Terminate}) /\ queue[w] # <<>>
      BY <1>14 DEF WorkerPopTerminate, TypeQueues
    <3>2. QED
      BY <3>1, HeadTail
  <2>1. TypeQueues'
    BY <1>14, <2>0 DEF WorkerPopTerminate, TypeQueues
  <2>2. TypeLocals'
    BY <1>14, <2>0 DEF WorkerPopTerminate, TypeLocals, WorkerSteps, WGoto
  <2>3. WorkerHolds'
    BY <1>14, <2>0 DEF WorkerPopTerminate, WorkerHolds, TypeLocals, TypeQueues, WGoto
  <2>4. TypePool' /\ TypeWorkers' /\ TypeClients' /\ TypeMain' /\ TypeTasks' /\ ClientHolds' /\
      MainIndex'
    BY <1>14 DEF WorkerPopTerminate, TypePool, TypeWorkers, TypeClients, TypeMain, TypeTasks,
        ClientHolds, MainIndex, poolVars, workerVars, localVars, clientVars, mainVars, taskVars
  <2>5. QED
    BY <2>1, <2>2, <2>3, <2>4 DEF TypeInv, TypeOK
<1>15. ASSUME NEW w \in Workers, WorkerExec(w)
      PROVE  TypeInv'
  <2>1. TypeLocals'
    BY <1>15 DEF WorkerExec, TypeLocals, WorkerSteps, WGoto
  <2>2. TypeTasks'
    BY <1>15 DEF WorkerExec, TypeTasks, WorkerHolds, TypeLocals, Stages, SetStage
  <2>3. WorkerHolds'
    BY <1>15 DEF WorkerExec, WorkerHolds, TypeLocals, WGoto
  <2>4. TypePool' /\ TypeWorkers' /\ TypeQueues' /\ TypeClients' /\ TypeMain' /\ ClientHolds' /\
      MainIndex'
    BY <1>15 DEF WorkerExec, TypePool, TypeWorkers, TypeQueues, TypeClients, TypeMain,
        ClientHolds, MainIndex, poolVars, workerVars, localVars, clientVars, mainVars, taskVars
  <2>5. QED
    BY <2>1, <2>2, <2>3, <2>4 DEF TypeInv, TypeOK
<1>16. ASSUME NEW w \in Workers, WorkerDec(w)
      PROVE  TypeInv'
  <2>1. TypePool'
    BY <1>16 DEF WorkerDec, TypePool, Workers
  <2>2. TypeLocals'
    BY <1>16 DEF WorkerDec, TypeLocals, WorkerSteps, WGoto
  <2>3. TypeTasks'
    BY <1>16 DEF WorkerDec, TypeTasks, WorkerHolds, TypeLocals, Stages, SetStage
  <2>4. WorkerHolds'
    BY <1>16 DEF WorkerDec, WorkerHolds, TypeLocals, WGoto
  <2>5. TypeWorkers' /\ TypeQueues' /\ TypeClients' /\ TypeMain' /\ ClientHolds' /\ MainIndex'
    BY <1>16 DEF WorkerDec, TypeWorkers, TypeQueues, TypeClients, TypeMain, ClientHolds,
        MainIndex, poolVars, workerVars, localVars, clientVars, mainVars, taskVars
  <2>6. QED
    BY <2>1, <2>2, <2>3, <2>4, <2>5 DEF TypeInv, TypeOK
<1>17. ASSUME NEW w \in Workers, WorkerNotify(w)
      PROVE  TypeInv'
  <2>1. TypeLocals'
    BY <1>17 DEF WorkerNotify, TypeLocals, WorkerSteps, WGoto
  <2>2. TypeClients'
    BY <1>17 DEF WorkerNotify, TypeClients, ClientSteps, CGoto
  <2>3. ClientHolds'
    BY <1>17 DEF WorkerNotify, ClientHolds, TypeClients, CGoto
  <2>4. WorkerHolds'
    BY <1>17 DEF WorkerNotify, WorkerHolds, TypeLocals, WGoto
  <2>5. TypePool' /\ TypeWorkers' /\ TypeQueues' /\ TypeMain' /\ TypeTasks' /\ MainIndex'
    BY <1>17 DEF WorkerNotify, TypePool, TypeWorkers, TypeQueues, TypeMain, TypeTasks,
        MainIndex, poolVars, workerVars, localVars, clientVars, mainVars, taskVars
  <2>6. QED
    BY <2>1, <2>2, <2>3, <2>4, <2>5 DEF TypeInv, TypeOK
<1>18. ASSUME NEW w \in Workers, WorkerFree(w)
      PROVE  TypeInv'
  <2>1. TypeLocals'
    BY <1>18 DEF WorkerFree, TypeLocals, Free, WorkerSteps, WGoto
  <2>2. TypeTasks'
    BY <1>18 DEF WorkerFree, TypeTasks, WorkerHolds, TypeLocals, Free, Stages, SetStage
  <2>3. WorkerHolds'
    BY <1>18 DEF WorkerFree, WorkerHolds, TypeLocals, Free, WGoto
  <2>4. TypePool' /\ TypeWorkers' /\ TypeQueues' /\ TypeClients' /\ TypeMain' /\ ClientHolds' /\
      MainIndex'
    BY <1>18 DEF WorkerFree, TypePool, TypeWorkers, TypeQueues, TypeClients, TypeMain,
        ClientHolds, MainIndex, poolVars, workerVars, localVars, clientVars, mainVars, taskVars
  <2>5. QED
    BY <2>1, <2>2, <2>3, <2>4 DEF TypeInv, TypeOK
<1>19. ASSUME NEW w \in Workers, StealCheck(w)
      PROVE  TypeInv'
  <2>1. TypeLocals'
    BY <1>19 DEF StealCheck, TypeLocals, WorkerSteps, WGoto
  <2>2. WorkerHolds'
    BY <1>19 DEF StealCheck, WorkerHolds, TypeLocals, WGoto
  <2>3. TypePool' /\ TypeWorkers' /\ TypeQueues' /\ TypeClients' /\ TypeMain' /\ TypeTasks' /\
      ClientHolds' /\ MainIndex'
    BY <1>19 DEF StealCheck, TypePool, TypeWorkers, TypeQueues, TypeClients, TypeMain,
        TypeTasks, ClientHolds, MainIndex, poolVars, workerVars, localVars, clientVars,
        mainVars, taskVars
  <2>4. QED
    BY <2>1, <2>2, <2>3 DEF TypeInv, TypeOK
<1>20. ASSUME NEW w \in Workers, StealTake(w)
      PROVE  TypeInv'
  <2>0. /\ Victim(w) \in Workers /\ Head(queue[Victim(w)]) \in Tasks \cup {Terminate}
        /\ Tail(queue[Victim(w)]) \in Seq(Tasks \cup {Terminate})
    <3>1. Victim(w) \in Workers
      BY <1>20 DEF StealTake, Victim, Probing
    <3>2. queue[Victim(w)] \in Seq(Tasks \cup {Terminate}) /\ queue[Victim(w)] # <<>>
      BY <1>20, <3>1 DEF StealTake, CanSteal, TypeQueues
    <3>3. QED
      BY <3>1, <3>2, HeadTail
  <2>1. TypeQueues'
    BY <1>20, <2>0 DEF StealTake, TypeQueues
  <2>2. TypeLocals'
    BY <1>20, <2>0 DEF StealTake, TypeLocals, WorkerSteps, WGoto
  <2>3. TypeTasks'
    BY <1>20, <2>0 DEF StealTake, TypeTasks, WorkerHolds, TypeLocals, Stages, SetStage
  <2>4. WorkerHolds'
    BY <1>20, <2>0 DEF StealTake, WorkerHolds, TypeLocals, TypeQueues, WGoto
  <2>5. TypePool' /\ TypeWorkers' /\ TypeClients' /\ TypeMain' /\ ClientHolds' /\ MainIndex'
    BY <1>20 DEF StealTake, TypePool, TypeWorkers, TypeClients, TypeMain, ClientHolds,
        MainIndex, poolVars, workerVars, localVars, clientVars, mainVars, taskVars
  <2>6. QED
    BY <2>1, <2>2, <2>3, <2>4, <2>5 DEF TypeInv, TypeOK
<1>21. ASSUME NEW w \in Workers, StealMiss(w)
      PROVE  TypeInv'
  <2>1. TypeWorkers'
    <3>1. badProbe' \in BOOLEAN
      BY <1>21, Zenon DEF StealMiss
    <3>2. QED
      BY <1>21, <3>1 DEF StealMiss, TypeWorkers, workerVars
  <2>2. TypeLocals'
    BY <1>21 DEF StealMiss, TypeLocals, WorkerSteps, WGoto
  <2>3. WorkerHolds'
    BY <1>21 DEF StealMiss, WorkerHolds, TypeLocals, WGoto
  <2>4. TypePool' /\ TypeQueues' /\ TypeClients' /\ TypeMain' /\ TypeTasks' /\ ClientHolds' /\
      MainIndex'
    BY <1>21 DEF StealMiss, TypePool, TypeQueues, TypeClients, TypeMain, TypeTasks, ClientHolds,
        MainIndex, poolVars, workerVars, localVars, clientVars, mainVars, taskVars
  <2>5. QED
    BY <2>1, <2>2, <2>3, <2>4 DEF TypeInv, TypeOK
<1>22. ASSUME NEW w \in Workers, StealFail(w)
      PROVE  TypeInv'
  <2>1. TypeLocals'
    BY <1>22 DEF StealFail, TypeLocals, WorkerSteps, WGoto
  <2>2. WorkerHolds'
    BY <1>22 DEF StealFail, WorkerHolds, TypeLocals, WGoto
  <2>3. TypePool' /\ TypeWorkers' /\ TypeQueues' /\ TypeClients' /\ TypeMain' /\ TypeTasks' /\
      ClientHolds' /\ MainIndex'
    BY <1>22 DEF StealFail, TypePool, TypeWorkers, TypeQueues, TypeClients, TypeMain, TypeTasks,
        ClientHolds, MainIndex, poolVars, workerVars, localVars, clientVars, mainVars, taskVars
  <2>4. QED
    BY <2>1, <2>2, <2>3 DEF TypeInv, TypeOK
<1>23. ASSUME NEW w \in Workers, StealKeep(w)
      PROVE  TypeInv'
  <2>1. TypeQueues'
    BY <1>23 DEF StealKeep, TypeQueues, TypeLocals, WorkerHolds
  <2>2. TypeLocals'
    BY <1>23 DEF StealKeep, TypeLocals, WorkerSteps, WGoto
  <2>3. TypeTasks'
    BY <1>23 DEF StealKeep, TypeTasks, WorkerHolds, TypeLocals, Stages, SetStage
  <2>4. WorkerHolds'
    BY <1>23 DEF StealKeep, WorkerHolds, TypeLocals, WGoto
  <2>5. TypePool' /\ TypeWorkers' /\ TypeClients' /\ TypeMain' /\ ClientHolds' /\ MainIndex'
    BY <1>23 DEF StealKeep, TypePool, TypeWorkers, TypeClients, TypeMain, ClientHolds,
        MainIndex, poolVars, workerVars, localVars, clientVars, mainVars, taskVars
  <2>6. QED
    BY <2>1, <2>2, <2>3, <2>4, <2>5 DEF TypeInv, TypeOK
<1>24. ASSUME NEW w \in Workers, WorkerLock(w)
      PROVE  TypeInv'
  <2>1. TypeLocals'
    BY <1>24 DEF WorkerLock, TypeLocals, WorkerSteps, WGoto
  <2>2. WorkerHolds'
    BY <1>24 DEF WorkerLock, WorkerHolds, TypeLocals, WGoto
  <2>3. TypePool' /\ TypeWorkers' /\ TypeQueues' /\ TypeClients' /\ TypeMain' /\ TypeTasks' /\
      ClientHolds' /\ MainIndex'
    BY <1>24 DEF WorkerLock, TypePool, TypeWorkers, TypeQueues, TypeClients, TypeMain,
        TypeTasks, ClientHolds, MainIndex, poolVars, workerVars, localVars, clientVars,
        mainVars, taskVars
  <2>4. QED
    BY <2>1, <2>2, <2>3 DEF TypeInv, TypeOK
<1>25. ASSUME NEW w \in Workers, WorkerSleep(w)
      PROVE  TypeInv'
  <2>1. TypeLocals'
    BY <1>25 DEF WorkerSleep, TypeLocals, WorkerSteps, WGoto
  <2>2. WorkerHolds'
    BY <1>25 DEF WorkerSleep, WorkerHolds, TypeLocals, WGoto
  <2>3. TypePool' /\ TypeWorkers' /\ TypeQueues' /\ TypeClients' /\ TypeMain' /\ TypeTasks' /\
      ClientHolds' /\ MainIndex'
    BY <1>25 DEF WorkerSleep, TypePool, TypeWorkers, TypeQueues, TypeClients, TypeMain,
        TypeTasks, ClientHolds, MainIndex, poolVars, workerVars, localVars, clientVars,
        mainVars, taskVars
  <2>4. QED
    BY <2>1, <2>2, <2>3 DEF TypeInv, TypeOK
<1>26. ASSUME NEW w \in Workers, WorkerCleanup(w)
      PROVE  TypeInv'
  <2>1. TypeWorkers'
    BY <1>26 DEF WorkerCleanup, TypeWorkers
  <2>2. TypeLocals'
    BY <1>26 DEF WorkerCleanup, TypeLocals, WorkerSteps, WGoto
  <2>3. WorkerHolds'
    BY <1>26 DEF WorkerCleanup, WorkerHolds, TypeLocals, WGoto
  <2>4. TypePool' /\ TypeQueues' /\ TypeClients' /\ TypeMain' /\ TypeTasks' /\ ClientHolds' /\
      MainIndex'
    BY <1>26 DEF WorkerCleanup, TypePool, TypeQueues, TypeClients, TypeMain, TypeTasks,
        ClientHolds, MainIndex, poolVars, workerVars, localVars, clientVars, mainVars, taskVars
  <2>5. QED
    BY <2>1, <2>2, <2>3, <2>4 DEF TypeInv, TypeOK
<1>27. ASSUME SpuriousWake
      PROVE  TypeInv'
  <2>1. TypeLocals'
    BY <1>27 DEF SpuriousWake, TypeLocals, WorkerSteps, WGoto
  <2>2. TypeClients'
    BY <1>27 DEF SpuriousWake, TypeClients, ClientSteps, CGoto
  <2>3. ClientHolds'
    BY <1>27 DEF SpuriousWake, ClientHolds, TypeClients, CGoto
  <2>4. WorkerHolds'
    BY <1>27 DEF SpuriousWake, WorkerHolds, TypeLocals, WGoto
  <2>5. TypePool' /\ TypeWorkers' /\ TypeQueues' /\ TypeMain' /\ TypeTasks' /\ MainIndex'
    BY <1>27 DEF SpuriousWake, TypePool, TypeWorkers, TypeQueues, TypeMain, TypeTasks,
        MainIndex, poolVars, workerVars, localVars, clientVars, mainVars, taskVars
  <2>6. QED
    BY <2>1, <2>2, <2>3, <2>4, <2>5 DEF TypeInv, TypeOK
<1>28. ASSUME DestroyCall
      PROVE  TypeInv'
  <2>1. TypePool'
    BY <1>28 DEF DestroyCall, TypePool, TypeMain, Workers
  <2>2. TypeMain'
    BY <1>28 DEF DestroyCall, TypeMain, MainIndex, Workers
  <2>3. MainIndex'
    BY <1>28 DEF DestroyCall, MainIndex, TypeMain, Workers
  <2>4. TypeWorkers' /\ TypeQueues' /\ TypeLocals' /\ TypeClients' /\ TypeTasks' /\ ClientHolds'
      /\ WorkerHolds'
    BY <1>28 DEF DestroyCall, TypeWorkers, TypeQueues, TypeLocals, TypeClients, TypeTasks,
        ClientHolds, WorkerHolds, poolVars, workerVars, localVars, clientVars, mainVars,
        taskVars
  <2>5. QED
    BY <2>1, <2>2, <2>3, <2>4 DEF TypeInv, TypeOK
<1>29. ASSUME DestroyStop
      PROVE  TypeInv'
  <2>1. TypeWorkers'
    BY <1>29 DEF DestroyStop, TypeWorkers, TypeMain
  <2>2. TypeMain'
    BY <1>29 DEF DestroyStop, TypeMain, MainIndex, Workers
  <2>3. MainIndex'
    BY <1>29 DEF DestroyStop, MainIndex, TypeMain, Workers
  <2>4. TypePool' /\ TypeQueues' /\ TypeLocals' /\ TypeClients' /\ TypeTasks' /\ ClientHolds' /\
      WorkerHolds'
    BY <1>29 DEF DestroyStop, TypePool, TypeQueues, TypeLocals, TypeClients, TypeTasks,
        ClientHolds, WorkerHolds, poolVars, workerVars, localVars, clientVars, mainVars,
        taskVars
  <2>5. QED
    BY <2>1, <2>2, <2>3, <2>4 DEF TypeInv, TypeOK
<1>30. ASSUME DestroyPush
      PROVE  TypeInv'
  <2>1. TypeQueues'
    <3>1. Append(queue[mi], Terminate) \in Seq(Tasks \cup {Terminate})
      BY <1>30 DEF DestroyPush, TypeQueues, MainIndex
    <3>2. QED
      BY <1>30, <3>1 DEF DestroyPush, TypeQueues
  <2>2. TypeMain'
    BY <1>30 DEF DestroyPush, TypeMain, MainIndex, Workers
  <2>3. MainIndex'
    BY <1>30 DEF DestroyPush, MainIndex, TypeMain, Workers
  <2>4. TypePool' /\ TypeWorkers' /\ TypeLocals' /\ TypeClients' /\ TypeTasks' /\ ClientHolds'
      /\ WorkerHolds'
    BY <1>30 DEF DestroyPush, TypePool, TypeWorkers, TypeLocals, TypeClients, TypeTasks,
        ClientHolds, WorkerHolds, poolVars, workerVars, localVars, clientVars, mainVars,
        taskVars
  <2>5. QED
    BY <2>1, <2>2, <2>3, <2>4 DEF TypeInv, TypeOK
<1>31. ASSUME DestroySignal
      PROVE  TypeInv'
  <2>1. TypeLocals'
    BY <1>31 DEF DestroySignal, TypeLocals, TypeMain, SignalWorker, WorkerSteps, WGoto
  <2>2. TypeMain'
    BY <1>31 DEF DestroySignal, TypeMain, MainIndex, SignalWorker, Workers
  <2>3. WorkerHolds'
    BY <1>31 DEF DestroySignal, WorkerHolds, TypeLocals, SignalWorker, WGoto
  <2>4. MainIndex'
    BY <1>31 DEF DestroySignal, MainIndex, TypeMain, SignalWorker, Workers
  <2>5. TypePool' /\ TypeWorkers' /\ TypeQueues' /\ TypeClients' /\ TypeTasks' /\ ClientHolds'
    BY <1>31 DEF DestroySignal, TypePool, TypeWorkers, TypeQueues, TypeClients, TypeTasks,
        ClientHolds, poolVars, workerVars, localVars, clientVars, mainVars, taskVars
  <2>6. QED
    BY <2>1, <2>2, <2>3, <2>4, <2>5 DEF TypeInv, TypeOK
<1>32. ASSUME DestroyJoin
      PROVE  TypeInv'
  <2>1. TypeWorkers'
    BY <1>32 DEF DestroyJoin, TypeWorkers, TypeMain
  <2>2. TypeQueues'
    <3>1. <<>> \in Seq(Tasks \cup {Terminate})
      OBVIOUS
    <3>2. QED
      BY <1>32, <3>1 DEF DestroyJoin, TypeQueues
  <2>3. TypeMain'
    BY <1>32 DEF DestroyJoin, TypeMain, MainIndex, Workers
  <2>4. TypeTasks'
    BY <1>32 DEF DestroyJoin, TypeTasks, Stages
  <2>5. MainIndex'
    BY <1>32 DEF DestroyJoin, MainIndex, TypeMain, Workers
  <2>6. TypePool' /\ TypeLocals' /\ TypeClients' /\ ClientHolds' /\ WorkerHolds'
    BY <1>32 DEF DestroyJoin, TypePool, TypeLocals, TypeClients, ClientHolds, WorkerHolds,
        poolVars, workerVars, localVars, clientVars, mainVars, taskVars
  <2>7. QED
    BY <2>1, <2>2, <2>3, <2>4, <2>5, <2>6 DEF TypeInv, TypeOK
<1>33. ASSUME DestroyReturn
      PROVE  TypeInv'
  <2>1. TypeMain'
    BY <1>33 DEF DestroyReturn, TypeMain, MainIndex, Workers
  <2>2. MainIndex'
    BY <1>33 DEF DestroyReturn, MainIndex, TypeMain, Workers
  <2>3. TypePool' /\ TypeWorkers' /\ TypeQueues' /\ TypeLocals' /\ TypeClients' /\ TypeTasks' /\
      ClientHolds' /\ WorkerHolds'
    BY <1>33 DEF DestroyReturn, TypePool, TypeWorkers, TypeQueues, TypeLocals, TypeClients,
        TypeTasks, ClientHolds, WorkerHolds, poolVars, workerVars, localVars, clientVars,
        mainVars, taskVars
  <2>4. QED
    BY <2>1, <2>2, <2>3 DEF TypeInv, TypeOK
<1>34. ASSUME UNCHANGED vars PROVE TypeInv'
  BY <1>34 DEF vars, poolVars, workerVars, localVars, clientVars, mainVars, taskVars, TypeInv,
      TypeOK, TypePool, TypeWorkers, TypeQueues, TypeLocals, TypeClients, TypeMain, TypeTasks,
      ClientHolds, WorkerHolds, MainIndex
<1>35. QED
  BY <1>1, <1>2, <1>3, <1>4, <1>5, <1>6, <1>7, <1>8, <1>9, <1>10, <1>11, <1>12, <1>13, <1>14,
      <1>15, <1>16, <1>17, <1>18, <1>19, <1>20, <1>21, <1>22, <1>23, <1>24, <1>25, <1>26, <1>27,
      <1>28, <1>29, <1>30, <1>31, <1>32, <1>33, <1>34 DEF Next, ClientStep, WorkerStep, MainStep

(* The pool is well typed: no step puts a value of another type into one   *)
(* of its fields, and the round-robin index and the loop index of destroy  *)
(* stay inside the array of workers.                                       *)
THEOREM TypeCorrect == Spec => []TypeOK
<1>1. TypeInv => TypeOK
  BY DEF TypeInv
<1>2. QED
  BY TypeInit, TypeStep, <1>1, PTL DEF Spec

-----------------------------------------------------------------------------
(* No wakeup of a worker is lost.  The argument: the queue of a sleeping   *)
(* worker grows only by a push whose thread signals next, a worker begins  *)
(* to sleep only after it saw an empty queue and no stop flag, and the     *)
(* signal cannot fall between that look and the sleep, for it needs the    *)
(* mutex that the worker still holds.                                      *)

(* Every step keeps NoLostWakeup. *)
LEMMA WakeupStep == TypeInv /\ NoLostWakeup /\ [Next]_vars => NoLostWakeup'
<1> SUFFICES ASSUME TypeInv, NoLostWakeup, [Next]_vars PROVE NoLostWakeup'
  OBVIOUS
<1> USE PoolAssumption DEF PoolAssumption
<1>0. /\ TypeWorkers /\ TypeQueues /\ TypeLocals /\ TypeClients /\ TypeMain /\ MainIndex
  BY DEF TypeInv, TypeOK
<1> USE <1>0 DEF NoLostWakeup, TypeWorkers, TypeQueues, TypeLocals, TypeClients, TypeMain,
    MainIndex
<1>1. ASSUME NEW c \in Clients, NEW t \in Tasks, SubmitCall(c, t)
      PROVE  NoLostWakeup'
  BY <1>1 DEF SubmitCall, CGoto, poolVars, workerVars, localVars, clientVars, mainVars, taskVars
<1>2. ASSUME NEW c \in Clients, NEW t \in Tasks, SubmitRefused(c, t)
      PROVE  NoLostWakeup'
  BY <1>2 DEF SubmitRefused, CGoto, poolVars, workerVars, localVars, clientVars, mainVars,
      taskVars
<1>3. ASSUME NEW c \in Clients, NEW r \in BOOLEAN, SubmitCount(c, r)
      PROVE  NoLostWakeup'
  <2>1. \A d \in Clients : cpc[d] = "signal" => cpc'[d] = cpc[d] /\ ctarget'[d] = ctarget[d]
    BY <1>3 DEF SubmitCount, CGoto
  <2>2. UNCHANGED <<wpc, queue, should_stop, mpc, mi>>
    BY <1>3 DEF SubmitCount, workerVars, localVars, mainVars
  <2>3. ASSUME NEW w \in Workers, wpc'[w] \in {"sleep", "asleep"}
        PROVE  /\ queue'[w] # <<>> =>
                    \/ \E d \in Clients : cpc'[d] = "signal" /\ ctarget'[d] = w
                    \/ mpc' = "signal" /\ mi' = w
               /\ should_stop'[w] => mpc' \in {"push", "signal"} /\ mi' = w
    <3>1. CASE \E d \in Clients : cpc[d] = "signal" /\ ctarget[d] = w
      BY <2>1, <2>2, <2>3, <3>1
    <3>2. CASE ~ \E d \in Clients : cpc[d] = "signal" /\ ctarget[d] = w
      BY <2>2, <2>3, <3>2
    <3>3. QED
      BY <3>1, <3>2
  <2>4. QED
    BY <2>3
<1>4. ASSUME NEW c \in Clients, SubmitPush(c)
      PROVE  NoLostWakeup'
  BY <1>4 DEF SubmitPush, CGoto, poolVars, workerVars, localVars, clientVars, mainVars, taskVars
<1>5. ASSUME NEW c \in Clients, SubmitSignal(c)
      PROVE  NoLostWakeup'
  BY <1>5 DEF SubmitSignal, SignalWorker, CGoto, poolVars, workerVars, localVars, clientVars,
      mainVars, taskVars
<1>6. ASSUME NEW c \in Clients, WaitCall(c)
      PROVE  NoLostWakeup'
  BY <1>6 DEF WaitCall, CGoto, poolVars, workerVars, localVars, clientVars, mainVars, taskVars
<1>7. ASSUME NEW c \in Clients, WaitCheck(c)
      PROVE  NoLostWakeup'
  BY <1>7 DEF WaitCheck, CGoto, poolVars, workerVars, localVars, clientVars, mainVars, taskVars
<1>8. ASSUME NEW c \in Clients, WaitSleep(c)
      PROVE  NoLostWakeup'
  BY <1>8 DEF WaitSleep, CGoto, poolVars, workerVars, localVars, clientVars, mainVars, taskVars
<1>9. ASSUME NEW c \in Clients, AfterWait(c)
      PROVE  NoLostWakeup'
  BY <1>9 DEF AfterWait, CGoto, poolVars, workerVars, localVars, clientVars, mainVars, taskVars
<1>10. ASSUME NEW w \in Workers, WorkerStart(w)
      PROVE  NoLostWakeup'
  BY <1>10 DEF WorkerStart, WGoto, poolVars, workerVars, localVars, clientVars, mainVars,
      taskVars
<1>11. ASSUME NEW w \in Workers, WorkerLoop(w)
      PROVE  NoLostWakeup'
  BY <1>11 DEF WorkerLoop, WGoto, poolVars, workerVars, localVars, clientVars, mainVars,
      taskVars
<1>12. ASSUME NEW w \in Workers, WorkerPopNone(w)
      PROVE  NoLostWakeup'
  BY <1>12 DEF WorkerPopNone, WGoto, poolVars, workerVars, localVars, clientVars, mainVars,
      taskVars
<1>13. ASSUME NEW w \in Workers, WorkerPopTask(w)
      PROVE  NoLostWakeup'
  BY <1>13 DEF WorkerPopTask, WGoto, poolVars, workerVars, localVars, clientVars, mainVars,
      taskVars
<1>14. ASSUME NEW w \in Workers, WorkerPopTerminate(w)
      PROVE  NoLostWakeup'
  BY <1>14 DEF WorkerPopTerminate, WGoto, poolVars, workerVars, localVars, clientVars, mainVars,
      taskVars
<1>15. ASSUME NEW w \in Workers, WorkerExec(w)
      PROVE  NoLostWakeup'
  BY <1>15 DEF WorkerExec, WGoto, poolVars, workerVars, localVars, clientVars, mainVars,
      taskVars
<1>16. ASSUME NEW w \in Workers, WorkerDec(w)
      PROVE  NoLostWakeup'
  BY <1>16 DEF WorkerDec, WGoto, poolVars, workerVars, localVars, clientVars, mainVars, taskVars
<1>17. ASSUME NEW w \in Workers, WorkerNotify(w)
      PROVE  NoLostWakeup'
  BY <1>17 DEF WorkerNotify, WGoto, CGoto, poolVars, workerVars, localVars, clientVars,
      mainVars, taskVars
<1>18. ASSUME NEW w \in Workers, WorkerFree(w)
      PROVE  NoLostWakeup'
  BY <1>18 DEF WorkerFree, WGoto, poolVars, workerVars, localVars, clientVars, mainVars,
      taskVars
<1>19. ASSUME NEW w \in Workers, StealCheck(w)
      PROVE  NoLostWakeup'
  BY <1>19 DEF StealCheck, WGoto, poolVars, workerVars, localVars, clientVars, mainVars,
      taskVars
<1>20. ASSUME NEW w \in Workers, StealTake(w)
      PROVE  NoLostWakeup'
  BY <1>20 DEF StealTake, Probing, CanSteal, WGoto, poolVars, workerVars, localVars, clientVars,
      mainVars, taskVars
<1>21. ASSUME NEW w \in Workers, StealMiss(w)
      PROVE  NoLostWakeup'
  BY <1>21 DEF StealMiss, Probing, CanSteal, WGoto, poolVars, workerVars, localVars, clientVars,
      mainVars, taskVars
<1>22. ASSUME NEW w \in Workers, StealFail(w)
      PROVE  NoLostWakeup'
  BY <1>22 DEF StealFail, WGoto, poolVars, workerVars, localVars, clientVars, mainVars, taskVars
<1>23. ASSUME NEW w \in Workers, StealKeep(w)
      PROVE  NoLostWakeup'
  BY <1>23 DEF StealKeep, WGoto, poolVars, workerVars, localVars, clientVars, mainVars, taskVars
<1>24. ASSUME NEW w \in Workers, WorkerLock(w)
      PROVE  NoLostWakeup'
  BY <1>24 DEF WorkerLock, WGoto, poolVars, workerVars, localVars, clientVars, mainVars,
      taskVars
<1>25. ASSUME NEW w \in Workers, WorkerSleep(w)
      PROVE  NoLostWakeup'
  BY <1>25 DEF WorkerSleep, WGoto, poolVars, workerVars, localVars, clientVars, mainVars,
      taskVars
<1>26. ASSUME NEW w \in Workers, WorkerCleanup(w)
      PROVE  NoLostWakeup'
  BY <1>26 DEF WorkerCleanup, WGoto, poolVars, workerVars, localVars, clientVars, mainVars,
      taskVars
<1>27. ASSUME SpuriousWake
      PROVE  NoLostWakeup'
  BY <1>27 DEF SpuriousWake, WGoto, CGoto, poolVars, workerVars, localVars, clientVars,
      mainVars, taskVars
<1>28. ASSUME DestroyCall
      PROVE  NoLostWakeup'
  BY <1>28 DEF DestroyCall, poolVars, workerVars, localVars, clientVars, mainVars, taskVars
<1>29. ASSUME DestroyStop
      PROVE  NoLostWakeup'
  BY <1>29 DEF DestroyStop, poolVars, workerVars, localVars, clientVars, mainVars, taskVars
<1>30. ASSUME DestroyPush
      PROVE  NoLostWakeup'
  BY <1>30 DEF DestroyPush, poolVars, workerVars, localVars, clientVars, mainVars, taskVars
<1>31. ASSUME DestroySignal
      PROVE  NoLostWakeup'
  BY <1>31 DEF DestroySignal, SignalWorker, poolVars, workerVars, localVars, clientVars,
      mainVars, taskVars
<1>32. ASSUME DestroyJoin
      PROVE  NoLostWakeup'
  BY <1>32 DEF DestroyJoin, poolVars, workerVars, localVars, clientVars, mainVars, taskVars
<1>33. ASSUME DestroyReturn
      PROVE  NoLostWakeup'
  BY <1>33 DEF DestroyReturn, poolVars, workerVars, localVars, clientVars, mainVars, taskVars
<1>34. ASSUME UNCHANGED vars PROVE NoLostWakeup'
  BY <1>34 DEF vars, poolVars, workerVars, localVars, clientVars, mainVars, taskVars
<1>35. QED
  BY <1>1, <1>2, <1>3, <1>4, <1>5, <1>6, <1>7, <1>8, <1>9, <1>10, <1>11, <1>12, <1>13, <1>14,
      <1>15, <1>16, <1>17, <1>18, <1>19, <1>20, <1>21, <1>22, <1>23, <1>24, <1>25, <1>26, <1>27,
      <1>28, <1>29, <1>30, <1>31, <1>32, <1>33, <1>34 DEF Next, ClientStep, WorkerStep, MainStep

(* No worker sleeps for ever on a queue with work in it or after destroy   *)
(* has told it to stop: whoever pushed or set the flag has yet to signal.  *)
THEOREM WakeupsKept == Spec => []NoLostWakeup
<1>1. Init => NoLostWakeup
  BY PoolAssumption DEF PoolAssumption, Init, NoLostWakeup
<1>2. QED
  BY <1>1, TypeInit, TypeStep, WakeupStep, PTL DEF Spec

-----------------------------------------------------------------------------
(* No wakeup of the thread in wait_all is lost, when there is one such     *)
(* thread: the decrement that empties the pool is followed by a signal     *)
(* under the mutex that the waiter holds from its test until it sleeps.    *)

SingleWaiter == \A c, d \in Waiters : c = d
DoneInv ==
  /\ NoLostDone
  /\ \A c \in Clients : cpc[c] \in {"dcheck", "dsleep", "dasleep", "returned"} => c \in Waiters

(* Every step keeps DoneInv. *)
LEMMA DoneStep ==
  ASSUME SingleWaiter PROVE TypeInv /\ DoneInv /\ [Next]_vars => DoneInv'
<1> SUFFICES ASSUME TypeInv, DoneInv, [Next]_vars PROVE DoneInv'
  OBVIOUS
<1> USE PoolAssumption DEF PoolAssumption
<1>0. TypePool /\ TypeLocals /\ TypeClients
  BY DEF TypeInv, TypeOK
<1> USE <1>0 DEF DoneInv, NoLostDone, TypePool, TypeLocals, TypeClients
<1>1. ASSUME NEW c \in Clients, NEW t \in Tasks, SubmitCall(c, t)
      PROVE  DoneInv'
  BY <1>1 DEF SubmitCall, CGoto, poolVars, workerVars, localVars, clientVars, mainVars, taskVars
<1>2. ASSUME NEW c \in Clients, NEW t \in Tasks, SubmitRefused(c, t)
      PROVE  DoneInv'
  BY <1>2 DEF SubmitRefused, CGoto, poolVars, workerVars, localVars, clientVars, mainVars,
      taskVars
<1>3. ASSUME NEW c \in Clients, NEW r \in BOOLEAN, SubmitCount(c, r)
      PROVE  DoneInv'
  BY <1>3 DEF SubmitCount, CGoto, poolVars, workerVars, localVars, clientVars, mainVars,
      taskVars
<1>4. ASSUME NEW c \in Clients, SubmitPush(c)
      PROVE  DoneInv'
  BY <1>4 DEF SubmitPush, CGoto, poolVars, workerVars, localVars, clientVars, mainVars, taskVars
<1>5. ASSUME NEW c \in Clients, SubmitSignal(c)
      PROVE  DoneInv'
  BY <1>5 DEF SubmitSignal, SignalWorker, CGoto, poolVars, workerVars, localVars, clientVars,
      mainVars, taskVars
<1>6. ASSUME NEW c \in Clients, WaitCall(c)
      PROVE  DoneInv'
  BY <1>6 DEF WaitCall, CGoto, poolVars, workerVars, localVars, clientVars, mainVars, taskVars
<1>7. ASSUME NEW c \in Clients, WaitCheck(c)
      PROVE  DoneInv'
  BY <1>7 DEF WaitCheck, CGoto, poolVars, workerVars, localVars, clientVars, mainVars, taskVars
<1>8. ASSUME NEW c \in Clients, WaitSleep(c)
      PROVE  DoneInv'
  BY <1>8 DEF WaitSleep, CGoto, poolVars, workerVars, localVars, clientVars, mainVars, taskVars
<1>9. ASSUME NEW c \in Clients, AfterWait(c)
      PROVE  DoneInv'
  BY <1>9 DEF AfterWait, CGoto, poolVars, workerVars, localVars, clientVars, mainVars, taskVars
<1>10. ASSUME NEW w \in Workers, WorkerStart(w)
      PROVE  DoneInv'
  BY <1>10 DEF WorkerStart, WGoto, poolVars, workerVars, localVars, clientVars, mainVars,
      taskVars
<1>11. ASSUME NEW w \in Workers, WorkerLoop(w)
      PROVE  DoneInv'
  BY <1>11 DEF WorkerLoop, WGoto, poolVars, workerVars, localVars, clientVars, mainVars,
      taskVars
<1>12. ASSUME NEW w \in Workers, WorkerPopNone(w)
      PROVE  DoneInv'
  BY <1>12 DEF WorkerPopNone, WGoto, poolVars, workerVars, localVars, clientVars, mainVars,
      taskVars
<1>13. ASSUME NEW w \in Workers, WorkerPopTask(w)
      PROVE  DoneInv'
  BY <1>13 DEF WorkerPopTask, WGoto, poolVars, workerVars, localVars, clientVars, mainVars,
      taskVars
<1>14. ASSUME NEW w \in Workers, WorkerPopTerminate(w)
      PROVE  DoneInv'
  BY <1>14 DEF WorkerPopTerminate, WGoto, poolVars, workerVars, localVars, clientVars, mainVars,
      taskVars
<1>15. ASSUME NEW w \in Workers, WorkerExec(w)
      PROVE  DoneInv'
  BY <1>15 DEF WorkerExec, WGoto, poolVars, workerVars, localVars, clientVars, mainVars,
      taskVars
<1>16. ASSUME NEW w \in Workers, WorkerDec(w)
      PROVE  DoneInv'
  BY <1>16 DEF WorkerDec, WGoto, poolVars, workerVars, localVars, clientVars, mainVars, taskVars
<1>17. ASSUME NEW w \in Workers, WorkerNotify(w)
      PROVE  DoneInv'
  <2>1. \A d \in Clients : cpc'[d] # "dsleep" /\ cpc'[d] # "dasleep"
    <3>1. CASE \E d \in Waiters : cpc[d] = "dasleep" /\ CGoto(d, "dcheck")
      <4>1. PICK d \in Waiters : cpc[d] = "dasleep" /\ CGoto(d, "dcheck")
        BY <3>1
      <4>2. \A e \in Clients : cpc[e] = "dasleep" => e = d
        BY <4>1, SingleWaiter DEF SingleWaiter
      <4>3. QED
        BY <1>17, <4>1, <4>2 DEF CGoto, WorkerNotify, DoneMutexFree
    <3>2. CASE (\A d \in Waiters : cpc[d] # "dasleep") /\ UNCHANGED cpc
      BY <1>17, <3>2 DEF WorkerNotify, DoneMutexFree
    <3>3. QED
      BY <1>17, <3>1, <3>2 DEF WorkerNotify
  <2>2. \A d \in Clients : cpc'[d] \in {"dcheck", "returned"} => d \in Waiters
    BY <1>17 DEF WorkerNotify, CGoto
  <2>3. QED
    BY <2>1, <2>2
<1>18. ASSUME NEW w \in Workers, WorkerFree(w)
      PROVE  DoneInv'
  BY <1>18 DEF WorkerFree, WGoto, poolVars, workerVars, localVars, clientVars, mainVars,
      taskVars
<1>19. ASSUME NEW w \in Workers, StealCheck(w)
      PROVE  DoneInv'
  BY <1>19 DEF StealCheck, WGoto, poolVars, workerVars, localVars, clientVars, mainVars,
      taskVars
<1>20. ASSUME NEW w \in Workers, StealTake(w)
      PROVE  DoneInv'
  BY <1>20 DEF StealTake, Probing, CanSteal, WGoto, poolVars, workerVars, localVars, clientVars,
      mainVars, taskVars
<1>21. ASSUME NEW w \in Workers, StealMiss(w)
      PROVE  DoneInv'
  BY <1>21 DEF StealMiss, Probing, CanSteal, WGoto, poolVars, workerVars, localVars, clientVars,
      mainVars, taskVars
<1>22. ASSUME NEW w \in Workers, StealFail(w)
      PROVE  DoneInv'
  BY <1>22 DEF StealFail, WGoto, poolVars, workerVars, localVars, clientVars, mainVars, taskVars
<1>23. ASSUME NEW w \in Workers, StealKeep(w)
      PROVE  DoneInv'
  BY <1>23 DEF StealKeep, WGoto, poolVars, workerVars, localVars, clientVars, mainVars, taskVars
<1>24. ASSUME NEW w \in Workers, WorkerLock(w)
      PROVE  DoneInv'
  BY <1>24 DEF WorkerLock, WGoto, poolVars, workerVars, localVars, clientVars, mainVars,
      taskVars
<1>25. ASSUME NEW w \in Workers, WorkerSleep(w)
      PROVE  DoneInv'
  BY <1>25 DEF WorkerSleep, WGoto, poolVars, workerVars, localVars, clientVars, mainVars,
      taskVars
<1>26. ASSUME NEW w \in Workers, WorkerCleanup(w)
      PROVE  DoneInv'
  BY <1>26 DEF WorkerCleanup, WGoto, poolVars, workerVars, localVars, clientVars, mainVars,
      taskVars
<1>27. ASSUME SpuriousWake
      PROVE  DoneInv'
  BY <1>27 DEF SpuriousWake, WGoto, CGoto, poolVars, workerVars, localVars, clientVars,
      mainVars, taskVars
<1>28. ASSUME DestroyCall
      PROVE  DoneInv'
  BY <1>28 DEF DestroyCall, poolVars, workerVars, localVars, clientVars, mainVars, taskVars
<1>29. ASSUME DestroyStop
      PROVE  DoneInv'
  BY <1>29 DEF DestroyStop, poolVars, workerVars, localVars, clientVars, mainVars, taskVars
<1>30. ASSUME DestroyPush
      PROVE  DoneInv'
  BY <1>30 DEF DestroyPush, poolVars, workerVars, localVars, clientVars, mainVars, taskVars
<1>31. ASSUME DestroySignal
      PROVE  DoneInv'
  BY <1>31 DEF DestroySignal, SignalWorker, poolVars, workerVars, localVars, clientVars,
      mainVars, taskVars
<1>32. ASSUME DestroyJoin
      PROVE  DoneInv'
  BY <1>32 DEF DestroyJoin, poolVars, workerVars, localVars, clientVars, mainVars, taskVars
<1>33. ASSUME DestroyReturn
      PROVE  DoneInv'
  BY <1>33 DEF DestroyReturn, poolVars, workerVars, localVars, clientVars, mainVars, taskVars
<1>34. ASSUME UNCHANGED vars PROVE DoneInv'
  BY <1>34 DEF vars, poolVars, workerVars, localVars, clientVars, mainVars, taskVars
<1>35. QED
  BY <1>1, <1>2, <1>3, <1>4, <1>5, <1>6, <1>7, <1>8, <1>9, <1>10, <1>11, <1>12, <1>13, <1>14,
      <1>15, <1>16, <1>17, <1>18, <1>19, <1>20, <1>21, <1>22, <1>23, <1>24, <1>25, <1>26, <1>27,
      <1>28, <1>29, <1>30, <1>31, <1>32, <1>33, <1>34 DEF Next, ClientStep, WorkerStep, MainStep

(* With one waiting thread, wait_all never sleeps on when nothing is       *)
(* pending unless a worker is about to signal done_cond.                   *)
THEOREM DoneKept ==
  ASSUME SingleWaiter PROVE Spec => []NoLostDone
<1>1. Init => DoneInv
  BY PoolAssumption DEF PoolAssumption, Init, DoneInv, NoLostDone
<1>2. DoneInv => NoLostDone
  BY DEF DoneInv
<1>3. TypeInv /\ DoneInv /\ [Next]_vars => DoneInv'
  BY DoneStep
<1>4. QED
  BY <1>1, <1>2, <1>3, TypeInit, TypeStep, PTL DEF Spec

-----------------------------------------------------------------------------
(* What happens to the tasks: each has one holder at a time, none is run   *)
(* or freed twice, tasks_pending is exact and wait_all returns only when   *)
(* the work is done.                                                       *)

(* Where Append puts its element. *)
LEMMA AppendAt ==
  ASSUME NEW S, NEW q \in Seq(S), NEW x \in S
  PROVE  /\ DOMAIN Append(q, x) = 1 .. Len(q) + 1
         /\ \A i \in 1 .. Len(q) + 1 : Append(q, x)[i] = IF i <= Len(q) THEN q[i] ELSE x
OBVIOUS

(* Tail moves every element forward by one. *)
LEMMA TailAt ==
  ASSUME NEW S, NEW q \in Seq(S), q # <<>>
  PROVE  /\ Head(q) = q[1] /\ 1 \in DOMAIN q
         /\ DOMAIN Tail(q) = 1 .. Len(q) - 1
         /\ \A i \in DOMAIN Tail(q) : i + 1 \in DOMAIN q /\ Tail(q)[i] = q[i + 1]
OBVIOUS

-----------------------------------------------------------------------------
(* One holder.  SingleHolder is inductive with the types: the stage of a   *)
(* task tells what holds it, so whoever takes it finds nobody else there.  *)

(* A push to the queue of k of a task that is in no queue *)
LEMMA PushTask ==
  ASSUME NEW k \in Workers, NEW t \in Tasks
  PROVE  TypeInv /\ SingleHolder /\ stage[t] # "queued"
         /\ queue' = [queue EXCEPT ![k] = Append(@, t)] /\ stage' = [stage EXCEPT ![t] =
             "queued"]
         => QueuedStage' /\ QueuedOnce'
<1> SUFFICES ASSUME TypeInv, SingleHolder, stage[t] # "queued",
                    queue' = [queue EXCEPT ![k] = Append(@, t)],
                    stage' = [stage EXCEPT ![t] = "queued"]
             PROVE  QueuedStage' /\ QueuedOnce'
  OBVIOUS
<1>0. TypeQueues /\ TypeTasks /\ QueuedStage /\ QueuedOnce
  BY DEF TypeInv, TypeOK, SingleHolder
<1>1. /\ DOMAIN queue'[k] = 1 .. Len(queue[k]) + 1
      /\ \A i \in DOMAIN queue'[k] : queue'[k][i] = IF i <= Len(queue[k]) THEN queue[k][i] ELSE
          t
  BY <1>0, AppendAt DEF TypeQueues
<1>2. DOMAIN queue[k] = 1 .. Len(queue[k]) /\ Len(queue[k]) \in Nat
  BY <1>0 DEF TypeQueues
<1>3. \A w \in Workers : w # k => queue'[w] = queue[w]
  BY <1>0 DEF TypeQueues
<1>4. \A w \in Workers : \A i \in DOMAIN queue[w] : queue[w][i] # t
  BY <1>0 DEF QueuedStage
<1>5. \A w \in Workers : \A i \in DOMAIN queue'[w] :
        \/ i \in DOMAIN queue[w] /\ queue'[w][i] = queue[w][i]
        \/ w = k /\ i = Len(queue[k]) + 1 /\ queue'[w][i] = t
  BY <1>1, <1>2, <1>3
<1>6. QueuedStage'
  BY <1>0, <1>5 DEF QueuedStage, TypeTasks
<1>7. QueuedOnce'
  <2> SUFFICES ASSUME NEW w \in Workers, NEW x \in Workers,
                      NEW i \in DOMAIN queue'[w], NEW j \in DOMAIN queue'[x],
                      queue'[w][i] \in Tasks, queue'[w][i] = queue'[x][j]
               PROVE  w = x /\ i = j
    BY DEF QueuedOnce
  <2>1. CASE queue'[w][i] = t
    BY <1>4, <1>5, <2>1
  <2>2. CASE queue'[w][i] # t
    <3>1. i \in DOMAIN queue[w] /\ j \in DOMAIN queue[x]
          /\ queue[w][i] \in Tasks /\ queue[w][i] = queue[x][j]
      BY <1>5, <2>2
    <3>2. QED
      BY <1>0, <3>1 DEF QueuedOnce
  <2>3. QED
    BY <2>1, <2>2
<1>8. QED
  BY <1>6, <1>7

(* A push of the terminate sentinel to the queue of k *)
LEMMA PushTerminate ==
  ASSUME NEW k \in Workers
  PROVE  TypeInv /\ SingleHolder /\ UNCHANGED stage
         /\ queue' = [queue EXCEPT ![k] = Append(@, Terminate)]
         => QueuedStage' /\ QueuedOnce'
<1> SUFFICES ASSUME TypeInv, SingleHolder, UNCHANGED stage,
                    queue' = [queue EXCEPT ![k] = Append(@, Terminate)]
             PROVE  QueuedStage' /\ QueuedOnce'
  OBVIOUS
<1>0. TypeQueues /\ QueuedStage /\ QueuedOnce
  BY DEF TypeInv, TypeOK, SingleHolder
<1>1. /\ DOMAIN queue'[k] = 1 .. Len(queue[k]) + 1
      /\ \A i \in DOMAIN queue'[k] :
           queue'[k][i] = IF i <= Len(queue[k]) THEN queue[k][i] ELSE Terminate
  BY <1>0, AppendAt DEF TypeQueues
<1>2. DOMAIN queue[k] = 1 .. Len(queue[k]) /\ Len(queue[k]) \in Nat
  BY <1>0 DEF TypeQueues
<1>3. \A w \in Workers : \A i \in DOMAIN queue'[w] : queue'[w][i] \in Tasks =>
        i \in DOMAIN queue[w] /\ queue'[w][i] = queue[w][i]
  <2>1. Terminate \notin Tasks
    BY PoolAssumption DEF PoolAssumption
  <2>2. \A w \in Workers : w # k => queue'[w] = queue[w]
    BY <1>0 DEF TypeQueues
  <2>3. QED
    BY <1>1, <1>2, <2>1, <2>2
<1>4. QED
  BY <1>0, <1>3 DEF QueuedStage, QueuedOnce

(* A thief pops the queue of a worker, and one that is not empty. *)
LEMMA StealVictim ==
  ASSUME NEW w \in Workers, StealTake(w)
  PROVE  Victim(w) \in Workers /\ queue[Victim(w)] # <<>>
<1>1. probe[w] \in 1 .. Len(Victims[w]) /\ queue[Victim(w)] # <<>>
  BY DEF StealTake, Probing, CanSteal
<1>2. Victims[w] \in Seq(Workers)
  BY PoolAssumption DEF PoolAssumption
<1>3. QED
  BY <1>1, <1>2 DEF Victim

(* A pop of the queue of k; a task that comes out changes its stage. *)
LEMMA PopNode ==
  ASSUME NEW k \in Workers, NEW s
  PROVE  TypeInv /\ SingleHolder /\ queue[k] # <<>>
         /\ queue' = [queue EXCEPT ![k] = Tail(@)]
         /\ stage' = (IF Head(queue[k]) = Terminate THEN stage
                       ELSE [stage EXCEPT ![Head(queue[k])] = s])
         => QueuedStage' /\ QueuedOnce'
            /\ (Head(queue[k]) # Terminate =>
                   Head(queue[k]) \in Tasks /\ stage[Head(queue[k])] = "queued")
<1> SUFFICES ASSUME TypeInv, SingleHolder, queue[k] # <<>>,
                    queue' = [queue EXCEPT ![k] = Tail(@)],
                    stage' = IF Head(queue[k]) = Terminate THEN stage
                             ELSE [stage EXCEPT ![Head(queue[k])] = s]
             PROVE  /\ QueuedStage' /\ QueuedOnce'
                    /\ Head(queue[k]) # Terminate =>
                          Head(queue[k]) \in Tasks /\ stage[Head(queue[k])] = "queued"
  OBVIOUS
<1>0. TypeQueues /\ TypeTasks /\ QueuedStage /\ QueuedOnce
  BY DEF TypeInv, TypeOK, SingleHolder
<1>1. /\ Head(queue[k]) = queue[k][1] /\ 1 \in DOMAIN queue[k]
      /\ DOMAIN queue'[k] = 1 .. Len(queue[k]) - 1
      /\ \A i \in DOMAIN queue'[k] : i + 1 \in DOMAIN queue[k] /\ queue'[k][i] = queue[k][i + 1]
  BY <1>0, TailAt DEF TypeQueues
<1>2. Head(queue[k]) \in Tasks \cup {Terminate}
  BY <1>0, HeadTail DEF TypeQueues
<1>3. Head(queue[k]) # Terminate => Head(queue[k]) \in Tasks /\ stage[Head(queue[k])] = "queued"
  BY <1>0, <1>1, <1>2 DEF QueuedStage
<1> DEFINE old(w, i) == IF w = k THEN i + 1 ELSE i
<1>4. \A w \in Workers : \A i \in DOMAIN queue'[w] :
        /\ old(w, i) \in DOMAIN queue[w] /\ queue'[w][i] = queue[w][old(w, i)]
        /\ i \in Nat /\ (w = k => old(w, i) # 1)
  <2>1. \A w \in Workers : w # k => queue'[w] = queue[w] /\ DOMAIN queue[w] \subseteq Nat
    BY <1>0 DEF TypeQueues
  <2>2. \A i \in DOMAIN queue'[k] : i \in Nat /\ i + 1 # 1
    BY <1>0, <1>1 DEF TypeQueues
  <2>3. QED
    BY <1>1, <2>1, <2>2
<1>5. \A w \in Workers : \A i \in DOMAIN queue'[w] :
        queue'[w][i] \in Tasks => queue'[w][i] # Head(queue[k])
  BY <1>0, <1>1, <1>4 DEF QueuedOnce
<1>6. QueuedStage'
  <2> SUFFICES ASSUME NEW w \in Workers, NEW i \in DOMAIN queue'[w], queue'[w][i] \in Tasks
               PROVE  stage'[queue'[w][i]] = "queued"
    BY DEF QueuedStage
  <2>1. stage[queue'[w][i]] = "queued"
    BY <1>0, <1>4 DEF QueuedStage
  <2>2. queue'[w][i] # Head(queue[k])
    BY <1>5
  <2>3. QED
    BY <1>0, <1>2, <2>1, <2>2 DEF TypeTasks
<1>7. QueuedOnce'
  <2> SUFFICES ASSUME NEW w \in Workers, NEW x \in Workers,
                      NEW i \in DOMAIN queue'[w], NEW j \in DOMAIN queue'[x],
                      queue'[w][i] \in Tasks, queue'[w][i] = queue'[x][j]
               PROVE  w = x /\ i = j
    BY DEF QueuedOnce
  <2>1. /\ old(w, i) \in DOMAIN queue[w] /\ queue'[w][i] = queue[w][old(w, i)]
        /\ old(x, j) \in DOMAIN queue[x] /\ queue'[x][j] = queue[x][old(x, j)]
        /\ i \in Nat /\ j \in Nat
    BY <1>4
  <2> HIDE DEF old
  <2>2. w = x /\ old(w, i) = old(x, j)
    BY <1>0, <2>1 DEF QueuedOnce
  <2> USE DEF old
  <2>3. QED
    BY <2>1, <2>2
<1>8. QED
  BY <1>3, <1>6, <1>7

(* Steps that leave the queues, the stages and the hands alone *)
LEMMA HolderFrame ==
  TypeInv /\ SingleHolder /\ UNCHANGED <<queue, stage, cur, ctask>>
  /\ (\A w \in Workers : wpc'[w] \in {"keep", "exec", "dec"} => wpc[w] = wpc'[w])
  /\ (\A w \in Workers : wpc'[w] \in {"notify", "free"} => wpc[w] \in {"notify", "free"})
  /\ (\A c \in Clients : cpc'[c] \in {"count", "push"} => cpc[c] = cpc'[c])
  => SingleHolder'
<1> SUFFICES ASSUME SingleHolder, UNCHANGED <<queue, stage, cur, ctask>>,
      \A w \in Workers : wpc'[w] \in {"keep", "exec", "dec"} => wpc[w] = wpc'[w],
      \A w \in Workers : wpc'[w] \in {"notify", "free"} => wpc[w] \in {"notify", "free"},
      \A c \in Clients : cpc'[c] \in {"count", "push"} => cpc[c] = cpc'[c]
             PROVE  SingleHolder'
  OBVIOUS
<1>1. QueuedStage' /\ QueuedOnce'
  BY DEF SingleHolder, QueuedStage, QueuedOnce
<1>2. HeldStage' /\ HeldOnce'
  BY DEF SingleHolder, HeldStage, HeldOnce, Holding
<1>3. OfferedStage' /\ OfferedOnce'
  BY DEF SingleHolder, OfferedStage, OfferedOnce, Offering
<1>4. QED
  BY <1>1, <1>2, <1>3 DEF SingleHolder

(* At the start nothing is held. *)
LEMMA HolderInit == Init => SingleHolder
BY PoolAssumption DEF PoolAssumption, Init, SingleHolder, QueuedStage, QueuedOnce, HeldStage,
   HeldOnce, OfferedStage, OfferedOnce, Holding, Offering

(* Every step keeps SingleHolder. *)
LEMMA HolderStep == TypeInv /\ SingleHolder /\ [Next]_vars => SingleHolder'
<1> SUFFICES ASSUME TypeInv, SingleHolder, [Next]_vars PROVE SingleHolder'
  OBVIOUS
<1> USE PoolAssumption DEF PoolAssumption
<1>0. /\ TypeQueues /\ TypeLocals /\ TypeClients /\ TypeMain /\ TypeTasks
      /\ ClientHolds /\ WorkerHolds /\ MainIndex
  BY DEF TypeInv, TypeOK
<1>h. /\ QueuedStage /\ QueuedOnce /\ HeldStage /\ HeldOnce /\ OfferedStage /\ OfferedOnce
  BY DEF SingleHolder
<1>1. ASSUME NEW c \in Clients, NEW t \in Tasks, SubmitCall(c, t)
      PROVE  SingleHolder'
  <2>1. QueuedStage'
    BY <1>0, <1>h, <1>1 DEF SubmitCall, CGoto, SetStage, poolVars, workerVars, localVars,
        clientVars, mainVars, taskVars, TypeQueues, TypeTasks, ClientHolds, WorkerHolds,
        QueuedStage, HeldStage, OfferedStage, QueuedOnce
  <2>2. QueuedOnce'
    BY <1>0, <1>h, <1>1 DEF SubmitCall, CGoto, SetStage, poolVars, workerVars, localVars,
        clientVars, mainVars, taskVars, TypeQueues, TypeTasks, ClientHolds, WorkerHolds,
        QueuedStage, HeldStage, OfferedStage, QueuedOnce
  <2>3. HeldStage'
    BY <1>0, <1>h, <1>1 DEF SubmitCall, CGoto, SetStage, poolVars, workerVars, localVars,
        clientVars, mainVars, taskVars, TypeLocals, TypeTasks, ClientHolds, WorkerHolds,
        HeldStage, HeldOnce, Holding, OfferedStage
  <2>4. HeldOnce'
    BY <1>0, <1>h, <1>1 DEF SubmitCall, CGoto, SetStage, poolVars, workerVars, localVars,
        clientVars, mainVars, taskVars, TypeLocals, WorkerHolds, HeldStage, HeldOnce, Holding
  <2>5. OfferedStage'
    BY <1>0, <1>h, <1>1 DEF SubmitCall, CGoto, SetStage, poolVars, workerVars, localVars,
        clientVars, mainVars, taskVars, TypeClients, TypeTasks, ClientHolds, WorkerHolds,
        HeldStage, OfferedStage, OfferedOnce, Offering
  <2>6. OfferedOnce'
    BY <1>0, <1>h, <1>1 DEF SubmitCall, CGoto, SetStage, poolVars, workerVars, localVars,
        clientVars, mainVars, taskVars, TypeClients, ClientHolds, OfferedStage, OfferedOnce,
        Offering
  <2> QED
    BY <2>1, <2>2, <2>3, <2>4, <2>5, <2>6 DEF SingleHolder
<1>2. ASSUME NEW c \in Clients, NEW t \in Tasks, SubmitRefused(c, t)
      PROVE  SingleHolder'
  <2>1. QueuedStage'
    BY <1>0, <1>h, <1>2 DEF SubmitRefused, CGoto, SetStage, poolVars, workerVars, localVars,
        clientVars, mainVars, taskVars, TypeQueues, TypeTasks, ClientHolds, WorkerHolds,
        QueuedStage, HeldStage, OfferedStage, QueuedOnce
  <2>2. QueuedOnce'
    BY <1>0, <1>h, <1>2 DEF SubmitRefused, CGoto, SetStage, poolVars, workerVars, localVars,
        clientVars, mainVars, taskVars, TypeQueues, TypeTasks, ClientHolds, WorkerHolds,
        QueuedStage, HeldStage, OfferedStage, QueuedOnce
  <2>3. HeldStage'
    BY <1>0, <1>h, <1>2 DEF SubmitRefused, CGoto, SetStage, poolVars, workerVars, localVars,
        clientVars, mainVars, taskVars, TypeLocals, TypeTasks, ClientHolds, WorkerHolds,
        HeldStage, HeldOnce, Holding, OfferedStage
  <2>4. HeldOnce'
    BY <1>0, <1>h, <1>2 DEF SubmitRefused, CGoto, SetStage, poolVars, workerVars, localVars,
        clientVars, mainVars, taskVars, TypeLocals, WorkerHolds, HeldStage, HeldOnce, Holding
  <2>5. OfferedStage'
    BY <1>0, <1>h, <1>2 DEF SubmitRefused, CGoto, SetStage, poolVars, workerVars, localVars,
        clientVars, mainVars, taskVars, TypeClients, TypeTasks, ClientHolds, WorkerHolds,
        HeldStage, OfferedStage, OfferedOnce, Offering
  <2>6. OfferedOnce'
    BY <1>0, <1>h, <1>2 DEF SubmitRefused, CGoto, SetStage, poolVars, workerVars, localVars,
        clientVars, mainVars, taskVars, TypeClients, ClientHolds, OfferedStage, OfferedOnce,
        Offering
  <2> QED
    BY <2>1, <2>2, <2>3, <2>4, <2>5, <2>6 DEF SingleHolder
<1>3. ASSUME NEW c \in Clients, NEW r \in BOOLEAN, SubmitCount(c, r)
      PROVE  SingleHolder'
  <2>1. QueuedStage'
    BY <1>0, <1>h, <1>3 DEF SubmitCount, CGoto, SetStage, poolVars, workerVars, localVars,
        clientVars, mainVars, taskVars, TypeQueues, TypeTasks, ClientHolds, WorkerHolds,
        QueuedStage, HeldStage, OfferedStage, QueuedOnce
  <2>2. QueuedOnce'
    BY <1>0, <1>h, <1>3 DEF SubmitCount, CGoto, SetStage, poolVars, workerVars, localVars,
        clientVars, mainVars, taskVars, TypeQueues, TypeTasks, ClientHolds, WorkerHolds,
        QueuedStage, HeldStage, OfferedStage, QueuedOnce
  <2>3. HeldStage'
    BY <1>0, <1>h, <1>3 DEF SubmitCount, CGoto, SetStage, poolVars, workerVars, localVars,
        clientVars, mainVars, taskVars, TypeLocals, TypeTasks, ClientHolds, WorkerHolds,
        HeldStage, HeldOnce, Holding, OfferedStage
  <2>4. HeldOnce'
    BY <1>0, <1>h, <1>3 DEF SubmitCount, CGoto, SetStage, poolVars, workerVars, localVars,
        clientVars, mainVars, taskVars, TypeLocals, WorkerHolds, HeldStage, HeldOnce, Holding
  <2>5. OfferedStage'
    BY <1>0, <1>h, <1>3 DEF SubmitCount, CGoto, SetStage, poolVars, workerVars, localVars,
        clientVars, mainVars, taskVars, TypeClients, TypeTasks, ClientHolds, WorkerHolds,
        HeldStage, OfferedStage, OfferedOnce, Offering
  <2>6. OfferedOnce'
    BY <1>0, <1>h, <1>3 DEF SubmitCount, CGoto, SetStage, poolVars, workerVars, localVars,
        clientVars, mainVars, taskVars, TypeClients, ClientHolds, OfferedStage, OfferedOnce,
        Offering
  <2> QED
    BY <2>1, <2>2, <2>3, <2>4, <2>5, <2>6 DEF SingleHolder
<1>4. ASSUME NEW c \in Clients, SubmitPush(c)
      PROVE  SingleHolder'
  <2>q. QueuedStage' /\ QueuedOnce'
    <3>1. ctarget[c] \in Workers /\ ctask[c] \in Tasks /\ stage[ctask[c]] = "counted"
      BY <1>0, <1>h, <1>4 DEF SubmitPush, TypeClients, ClientHolds, OfferedStage
    <3>2. QED
      BY <1>4, <3>1, PushTask DEF SubmitPush, SetStage
  <2>1. HeldStage'
    BY <1>0, <1>h, <1>4, <2>q DEF SubmitPush, CGoto, SetStage, poolVars, workerVars, localVars,
        clientVars, mainVars, taskVars, TypeLocals, TypeTasks, ClientHolds, WorkerHolds,
        HeldStage, HeldOnce, Holding, OfferedStage
  <2>2. HeldOnce'
    BY <1>0, <1>h, <1>4, <2>q DEF SubmitPush, CGoto, SetStage, poolVars, workerVars, localVars,
        clientVars, mainVars, taskVars, TypeLocals, WorkerHolds, HeldStage, HeldOnce, Holding
  <2>3. OfferedStage'
    BY <1>0, <1>h, <1>4, <2>q DEF SubmitPush, CGoto, SetStage, poolVars, workerVars, localVars,
        clientVars, mainVars, taskVars, TypeClients, TypeTasks, ClientHolds, WorkerHolds,
        HeldStage, OfferedStage, OfferedOnce, Offering
  <2>4. OfferedOnce'
    BY <1>0, <1>h, <1>4, <2>q DEF SubmitPush, CGoto, SetStage, poolVars, workerVars, localVars,
        clientVars, mainVars, taskVars, TypeClients, ClientHolds, OfferedStage, OfferedOnce,
        Offering
  <2> QED
    BY <2>q, <2>1, <2>2, <2>3, <2>4 DEF SingleHolder
<1>5. ASSUME NEW c \in Clients, SubmitSignal(c)
      PROVE  SingleHolder'
  BY <1>0, <1>5, HolderFrame DEF SubmitSignal, SignalWorker, CGoto, TypeLocals, TypeClients,
      poolVars, workerVars, localVars, clientVars, mainVars, taskVars
<1>6. ASSUME NEW c \in Clients, WaitCall(c)
      PROVE  SingleHolder'
  BY <1>0, <1>6, HolderFrame DEF WaitCall, CGoto, TypeLocals, TypeClients, poolVars, workerVars,
      localVars, clientVars, mainVars, taskVars
<1>7. ASSUME NEW c \in Clients, WaitCheck(c)
      PROVE  SingleHolder'
  BY <1>0, <1>7, HolderFrame DEF WaitCheck, CGoto, TypeLocals, TypeClients, poolVars,
      workerVars, localVars, clientVars, mainVars, taskVars
<1>8. ASSUME NEW c \in Clients, WaitSleep(c)
      PROVE  SingleHolder'
  BY <1>0, <1>8, HolderFrame DEF WaitSleep, CGoto, TypeLocals, TypeClients, poolVars,
      workerVars, localVars, clientVars, mainVars, taskVars
<1>9. ASSUME NEW c \in Clients, AfterWait(c)
      PROVE  SingleHolder'
  BY <1>0, <1>9, HolderFrame DEF AfterWait, CGoto, TypeLocals, TypeClients, poolVars,
      workerVars, localVars, clientVars, mainVars, taskVars
<1>10. ASSUME NEW w \in Workers, WorkerStart(w)
      PROVE  SingleHolder'
  BY <1>0, <1>10, HolderFrame DEF WorkerStart, WGoto, TypeLocals, TypeClients, poolVars,
      workerVars, localVars, clientVars, mainVars, taskVars
<1>11. ASSUME NEW w \in Workers, WorkerLoop(w)
      PROVE  SingleHolder'
  BY <1>0, <1>11, HolderFrame DEF WorkerLoop, WGoto, TypeLocals, TypeClients, poolVars,
      workerVars, localVars, clientVars, mainVars, taskVars
<1>12. ASSUME NEW w \in Workers, WorkerPopNone(w)
      PROVE  SingleHolder'
  BY <1>0, <1>12, HolderFrame DEF WorkerPopNone, WGoto, TypeLocals, TypeClients, poolVars,
      workerVars, localVars, clientVars, mainVars, taskVars
<1>13. ASSUME NEW w \in Workers, WorkerPopTask(w)
      PROVE  SingleHolder'
  <2>q. /\ QueuedStage' /\ QueuedOnce'
        /\ Head(queue[w]) \in Tasks /\ stage[Head(queue[w])] = "queued"
    BY <1>13, PopNode DEF WorkerPopTask, SetStage
  <2>1. HeldStage'
    BY <1>0, <1>h, <1>13, <2>q DEF WorkerPopTask, WGoto, SetStage, poolVars, workerVars,
        localVars, clientVars, mainVars, taskVars, TypeLocals, TypeTasks, ClientHolds,
        WorkerHolds, HeldStage, HeldOnce, Holding, OfferedStage
  <2>2. HeldOnce'
    BY <1>0, <1>h, <1>13, <2>q DEF WorkerPopTask, WGoto, SetStage, poolVars, workerVars,
        localVars, clientVars, mainVars, taskVars, TypeLocals, WorkerHolds, HeldStage, HeldOnce,
        Holding
  <2>3. OfferedStage'
    BY <1>0, <1>h, <1>13, <2>q DEF WorkerPopTask, WGoto, SetStage, poolVars, workerVars,
        localVars, clientVars, mainVars, taskVars, TypeClients, TypeTasks, ClientHolds,
        WorkerHolds, HeldStage, OfferedStage, OfferedOnce, Offering
  <2>4. OfferedOnce'
    BY <1>0, <1>h, <1>13, <2>q DEF WorkerPopTask, WGoto, SetStage, poolVars, workerVars,
        localVars, clientVars, mainVars, taskVars, TypeClients, ClientHolds, OfferedStage,
        OfferedOnce, Offering
  <2> QED
    BY <2>q, <2>1, <2>2, <2>3, <2>4 DEF SingleHolder
<1>14. ASSUME NEW w \in Workers, WorkerPopTerminate(w)
      PROVE  SingleHolder'
  <2>q. QueuedStage' /\ QueuedOnce'
    BY <1>14, PopNode DEF WorkerPopTerminate, taskVars
  <2>1. HeldStage'
    BY <1>0, <1>h, <1>14, <2>q DEF WorkerPopTerminate, WGoto, poolVars, workerVars, localVars,
        clientVars, mainVars, taskVars, TypeLocals, TypeTasks, ClientHolds, WorkerHolds,
        HeldStage, HeldOnce, Holding, OfferedStage
  <2>2. HeldOnce'
    BY <1>0, <1>h, <1>14, <2>q DEF WorkerPopTerminate, WGoto, poolVars, workerVars, localVars,
        clientVars, mainVars, taskVars, TypeLocals, WorkerHolds, HeldStage, HeldOnce, Holding
  <2>3. OfferedStage'
    BY <1>0, <1>h, <1>14, <2>q DEF WorkerPopTerminate, WGoto, poolVars, workerVars, localVars,
        clientVars, mainVars, taskVars, TypeClients, TypeTasks, ClientHolds, WorkerHolds,
        HeldStage, OfferedStage, OfferedOnce, Offering
  <2>4. OfferedOnce'
    BY <1>0, <1>h, <1>14, <2>q DEF WorkerPopTerminate, WGoto, poolVars, workerVars, localVars,
        clientVars, mainVars, taskVars, TypeClients, ClientHolds, OfferedStage, OfferedOnce,
        Offering
  <2> QED
    BY <2>q, <2>1, <2>2, <2>3, <2>4 DEF SingleHolder
<1>15. ASSUME NEW w \in Workers, WorkerExec(w)
      PROVE  SingleHolder'
  <2>1. QueuedStage'
    BY <1>0, <1>h, <1>15 DEF WorkerExec, WGoto, SetStage, poolVars, workerVars, localVars,
        clientVars, mainVars, taskVars, TypeQueues, TypeTasks, ClientHolds, WorkerHolds,
        QueuedStage, HeldStage, OfferedStage, QueuedOnce
  <2>2. QueuedOnce'
    BY <1>0, <1>h, <1>15 DEF WorkerExec, WGoto, SetStage, poolVars, workerVars, localVars,
        clientVars, mainVars, taskVars, TypeQueues, TypeTasks, ClientHolds, WorkerHolds,
        QueuedStage, HeldStage, OfferedStage, QueuedOnce
  <2>3. HeldStage'
    BY <1>0, <1>h, <1>15 DEF WorkerExec, WGoto, SetStage, poolVars, workerVars, localVars,
        clientVars, mainVars, taskVars, TypeLocals, TypeTasks, ClientHolds, WorkerHolds,
        HeldStage, HeldOnce, Holding, OfferedStage
  <2>4. HeldOnce'
    BY <1>0, <1>h, <1>15 DEF WorkerExec, WGoto, SetStage, poolVars, workerVars, localVars,
        clientVars, mainVars, taskVars, TypeLocals, WorkerHolds, HeldStage, HeldOnce, Holding
  <2>5. OfferedStage'
    BY <1>0, <1>h, <1>15 DEF WorkerExec, WGoto, SetStage, poolVars, workerVars, localVars,
        clientVars, mainVars, taskVars, TypeClients, TypeTasks, ClientHolds, WorkerHolds,
        HeldStage, OfferedStage, OfferedOnce, Offering
  <2>6. OfferedOnce'
    BY <1>0, <1>h, <1>15 DEF WorkerExec, WGoto, SetStage, poolVars, workerVars, localVars,
        clientVars, mainVars, taskVars, TypeClients, ClientHolds, OfferedStage, OfferedOnce,
        Offering
  <2> QED
    BY <2>1, <2>2, <2>3, <2>4, <2>5, <2>6 DEF SingleHolder
<1>16. ASSUME NEW w \in Workers, WorkerDec(w)
      PROVE  SingleHolder'
  <2>1. QueuedStage'
    BY <1>0, <1>h, <1>16 DEF WorkerDec, WGoto, SetStage, poolVars, workerVars, localVars,
        clientVars, mainVars, taskVars, TypeQueues, TypeTasks, ClientHolds, WorkerHolds,
        QueuedStage, HeldStage, OfferedStage, QueuedOnce
  <2>2. QueuedOnce'
    BY <1>0, <1>h, <1>16 DEF WorkerDec, WGoto, SetStage, poolVars, workerVars, localVars,
        clientVars, mainVars, taskVars, TypeQueues, TypeTasks, ClientHolds, WorkerHolds,
        QueuedStage, HeldStage, OfferedStage, QueuedOnce
  <2>3. HeldStage'
    BY <1>0, <1>h, <1>16 DEF WorkerDec, WGoto, SetStage, poolVars, workerVars, localVars,
        clientVars, mainVars, taskVars, TypeLocals, TypeTasks, ClientHolds, WorkerHolds,
        HeldStage, HeldOnce, Holding, OfferedStage
  <2>4. HeldOnce'
    BY <1>0, <1>h, <1>16 DEF WorkerDec, WGoto, SetStage, poolVars, workerVars, localVars,
        clientVars, mainVars, taskVars, TypeLocals, WorkerHolds, HeldStage, HeldOnce, Holding
  <2>5. OfferedStage'
    BY <1>0, <1>h, <1>16 DEF WorkerDec, WGoto, SetStage, poolVars, workerVars, localVars,
        clientVars, mainVars, taskVars, TypeClients, TypeTasks, ClientHolds, WorkerHolds,
        HeldStage, OfferedStage, OfferedOnce, Offering
  <2>6. OfferedOnce'
    BY <1>0, <1>h, <1>16 DEF WorkerDec, WGoto, SetStage, poolVars, workerVars, localVars,
        clientVars, mainVars, taskVars, TypeClients, ClientHolds, OfferedStage, OfferedOnce,
        Offering
  <2> QED
    BY <2>1, <2>2, <2>3, <2>4, <2>5, <2>6 DEF SingleHolder
<1>17. ASSUME NEW w \in Workers, WorkerNotify(w)
      PROVE  SingleHolder'
  BY <1>0, <1>17, HolderFrame DEF WorkerNotify, WGoto, CGoto, TypeLocals, TypeClients, poolVars,
      workerVars, localVars, clientVars, mainVars, taskVars
<1>18. ASSUME NEW w \in Workers, WorkerFree(w)
      PROVE  SingleHolder'
  <2>1. QueuedStage'
    BY <1>0, <1>h, <1>18 DEF WorkerFree, WGoto, SetStage, poolVars, workerVars, localVars,
        clientVars, mainVars, taskVars, TypeQueues, TypeTasks, ClientHolds, WorkerHolds,
        QueuedStage, HeldStage, OfferedStage, QueuedOnce
  <2>2. QueuedOnce'
    BY <1>0, <1>h, <1>18 DEF WorkerFree, WGoto, SetStage, poolVars, workerVars, localVars,
        clientVars, mainVars, taskVars, TypeQueues, TypeTasks, ClientHolds, WorkerHolds,
        QueuedStage, HeldStage, OfferedStage, QueuedOnce
  <2>3. HeldStage'
    BY <1>0, <1>h, <1>18 DEF WorkerFree, WGoto, SetStage, poolVars, workerVars, localVars,
        clientVars, mainVars, taskVars, TypeLocals, TypeTasks, ClientHolds, WorkerHolds,
        HeldStage, HeldOnce, Holding, OfferedStage
  <2>4. HeldOnce'
    BY <1>0, <1>h, <1>18 DEF WorkerFree, WGoto, SetStage, poolVars, workerVars, localVars,
        clientVars, mainVars, taskVars, TypeLocals, WorkerHolds, HeldStage, HeldOnce, Holding
  <2>5. OfferedStage'
    BY <1>0, <1>h, <1>18 DEF WorkerFree, WGoto, SetStage, poolVars, workerVars, localVars,
        clientVars, mainVars, taskVars, TypeClients, TypeTasks, ClientHolds, WorkerHolds,
        HeldStage, OfferedStage, OfferedOnce, Offering
  <2>6. OfferedOnce'
    BY <1>0, <1>h, <1>18 DEF WorkerFree, WGoto, SetStage, poolVars, workerVars, localVars,
        clientVars, mainVars, taskVars, TypeClients, ClientHolds, OfferedStage, OfferedOnce,
        Offering
  <2> QED
    BY <2>1, <2>2, <2>3, <2>4, <2>5, <2>6 DEF SingleHolder
<1>19. ASSUME NEW w \in Workers, StealCheck(w)
      PROVE  SingleHolder'
  BY <1>0, <1>19, HolderFrame DEF StealCheck, WGoto, TypeLocals, TypeClients, poolVars,
      workerVars, localVars, clientVars, mainVars, taskVars
<1>20. ASSUME NEW w \in Workers, StealTake(w)
      PROVE  SingleHolder'
  <2>q. /\ QueuedStage' /\ QueuedOnce'
        /\ Head(queue[Victim(w)]) # Terminate =>
             /\ Head(queue[Victim(w)]) \in Tasks
             /\ stage[Head(queue[Victim(w)])] = "queued"
    <3>1. Victim(w) \in Workers
      BY <1>20, StealVictim
    <3>2. QED
      BY <1>20, <3>1, PopNode DEF StealTake, CanSteal
  <2>1. HeldStage'
    BY <1>0, <1>h, <1>20, <2>q DEF StealTake, WGoto, poolVars, workerVars, localVars,
        clientVars, mainVars, taskVars, TypeLocals, TypeTasks, ClientHolds, WorkerHolds,
        HeldStage, HeldOnce, Holding, OfferedStage
  <2>2. HeldOnce'
    BY <1>0, <1>h, <1>20, <2>q DEF StealTake, WGoto, poolVars, workerVars, localVars,
        clientVars, mainVars, taskVars, TypeLocals, WorkerHolds, HeldStage, HeldOnce, Holding
  <2>3. OfferedStage'
    BY <1>0, <1>h, <1>20, <2>q DEF StealTake, WGoto, poolVars, workerVars, localVars,
        clientVars, mainVars, taskVars, TypeClients, TypeTasks, ClientHolds, WorkerHolds,
        HeldStage, OfferedStage, OfferedOnce, Offering
  <2>4. OfferedOnce'
    BY <1>0, <1>h, <1>20, <2>q DEF StealTake, WGoto, poolVars, workerVars, localVars,
        clientVars, mainVars, taskVars, TypeClients, ClientHolds, OfferedStage, OfferedOnce,
        Offering
  <2> QED
    BY <2>q, <2>1, <2>2, <2>3, <2>4 DEF SingleHolder
<1>21. ASSUME NEW w \in Workers, StealMiss(w)
      PROVE  SingleHolder'
  BY <1>0, <1>21, HolderFrame DEF StealMiss, WGoto, TypeLocals, TypeClients, poolVars,
      workerVars, localVars, clientVars, mainVars, taskVars
<1>22. ASSUME NEW w \in Workers, StealFail(w)
      PROVE  SingleHolder'
  BY <1>0, <1>22, HolderFrame DEF StealFail, WGoto, TypeLocals, TypeClients, poolVars,
      workerVars, localVars, clientVars, mainVars, taskVars
<1>23. ASSUME NEW w \in Workers, StealKeep(w)
      PROVE  SingleHolder'
  <2>q. QueuedStage' /\ QueuedOnce'
    <3>1. CASE cur[w] = Terminate
      BY <1>23, <3>1, PushTerminate DEF StealKeep
    <3>2. CASE cur[w] # Terminate
      <4>1. cur[w] \in Tasks /\ stage[cur[w]] = "stolen"
        BY <1>0, <1>h, <1>23, <3>2 DEF StealKeep, WorkerHolds, HeldStage
      <4>2. QED
        BY <1>23, <3>2, <4>1, PushTask DEF StealKeep
    <3>3. QED
      BY <3>1, <3>2
  <2>1. HeldStage'
    BY <1>0, <1>h, <1>23, <2>q DEF StealKeep, WGoto, poolVars, workerVars, localVars,
        clientVars, mainVars, taskVars, TypeLocals, TypeTasks, ClientHolds, WorkerHolds,
        HeldStage, HeldOnce, Holding, OfferedStage
  <2>2. HeldOnce'
    BY <1>0, <1>h, <1>23, <2>q DEF StealKeep, WGoto, poolVars, workerVars, localVars,
        clientVars, mainVars, taskVars, TypeLocals, WorkerHolds, HeldStage, HeldOnce, Holding
  <2>3. OfferedStage'
    BY <1>0, <1>h, <1>23, <2>q DEF StealKeep, WGoto, poolVars, workerVars, localVars,
        clientVars, mainVars, taskVars, TypeClients, TypeTasks, ClientHolds, WorkerHolds,
        HeldStage, OfferedStage, OfferedOnce, Offering
  <2>4. OfferedOnce'
    BY <1>0, <1>h, <1>23, <2>q DEF StealKeep, WGoto, poolVars, workerVars, localVars,
        clientVars, mainVars, taskVars, TypeClients, ClientHolds, OfferedStage, OfferedOnce,
        Offering
  <2> QED
    BY <2>q, <2>1, <2>2, <2>3, <2>4 DEF SingleHolder
<1>24. ASSUME NEW w \in Workers, WorkerLock(w)
      PROVE  SingleHolder'
  BY <1>0, <1>24, HolderFrame DEF WorkerLock, WGoto, TypeLocals, TypeClients, poolVars,
      workerVars, localVars, clientVars, mainVars, taskVars
<1>25. ASSUME NEW w \in Workers, WorkerSleep(w)
      PROVE  SingleHolder'
  BY <1>0, <1>25, HolderFrame DEF WorkerSleep, WGoto, TypeLocals, TypeClients, poolVars,
      workerVars, localVars, clientVars, mainVars, taskVars
<1>26. ASSUME NEW w \in Workers, WorkerCleanup(w)
      PROVE  SingleHolder'
  BY <1>0, <1>26, HolderFrame DEF WorkerCleanup, WGoto, TypeLocals, TypeClients, poolVars,
      workerVars, localVars, clientVars, mainVars, taskVars
<1>27. ASSUME SpuriousWake
      PROVE  SingleHolder'
  BY <1>0, <1>27, HolderFrame DEF SpuriousWake, WGoto, CGoto, TypeLocals, TypeClients, poolVars,
      workerVars, localVars, clientVars, mainVars, taskVars
<1>28. ASSUME DestroyCall
      PROVE  SingleHolder'
  BY <1>0, <1>28, HolderFrame DEF DestroyCall, TypeLocals, TypeClients, poolVars, workerVars,
      localVars, clientVars, mainVars, taskVars
<1>29. ASSUME DestroyStop
      PROVE  SingleHolder'
  BY <1>0, <1>29, HolderFrame DEF DestroyStop, TypeLocals, TypeClients, poolVars, workerVars,
      localVars, clientVars, mainVars, taskVars
<1>30. ASSUME DestroyPush
      PROVE  SingleHolder'
  <2>q. QueuedStage' /\ QueuedOnce'
    <3>1. CASE queue' = [queue EXCEPT ![mi] = Append(@, Terminate)]
      BY <1>0, <1>30, <3>1, PushTerminate DEF DestroyPush, MainIndex, taskVars
    <3>2. CASE UNCHANGED queue
      BY <1>h, <1>30, <3>2 DEF DestroyPush, QueuedStage, QueuedOnce, taskVars
    <3>3. QED
      BY <1>30, <3>1, <3>2 DEF DestroyPush
  <2>1. HeldStage'
    BY <1>0, <1>h, <1>30, <2>q DEF DestroyPush, poolVars, workerVars, localVars, clientVars,
        mainVars, taskVars, TypeLocals, TypeTasks, ClientHolds, WorkerHolds, HeldStage,
        HeldOnce, Holding, OfferedStage
  <2>2. HeldOnce'
    BY <1>0, <1>h, <1>30, <2>q DEF DestroyPush, poolVars, workerVars, localVars, clientVars,
        mainVars, taskVars, TypeLocals, WorkerHolds, HeldStage, HeldOnce, Holding
  <2>3. OfferedStage'
    BY <1>0, <1>h, <1>30, <2>q DEF DestroyPush, poolVars, workerVars, localVars, clientVars,
        mainVars, taskVars, TypeClients, TypeTasks, ClientHolds, WorkerHolds, HeldStage,
        OfferedStage, OfferedOnce, Offering
  <2>4. OfferedOnce'
    BY <1>0, <1>h, <1>30, <2>q DEF DestroyPush, poolVars, workerVars, localVars, clientVars,
        mainVars, taskVars, TypeClients, ClientHolds, OfferedStage, OfferedOnce, Offering
  <2> QED
    BY <2>q, <2>1, <2>2, <2>3, <2>4 DEF SingleHolder
<1>31. ASSUME DestroySignal
      PROVE  SingleHolder'
  BY <1>0, <1>31, HolderFrame DEF DestroySignal, SignalWorker, TypeLocals, TypeClients,
      poolVars, workerVars, localVars, clientVars, mainVars, taskVars
<1>32. ASSUME DestroyJoin
      PROVE  SingleHolder'
  <2>1. mi \in Workers
    BY <1>0, <1>32 DEF DestroyJoin, TypeMain, Workers
  <2>2. /\ queue'[mi] = <<>>
        /\ \A w \in Workers : w # mi => queue'[w] = queue[w]
    BY <1>0, <1>32, <2>1 DEF DestroyJoin, TypeQueues
  <2>3. \A t \in Tasks : stage[t] # "queued" => stage'[t] = stage[t]
    BY <1>h, <1>32, <2>1 DEF DestroyJoin, Left, QueuedStage
  <2>4. \A w \in Workers : \A i \in DOMAIN queue'[w] : queue'[w][i] \in Tasks =>
          stage'[queue'[w][i]] = stage[queue'[w][i]]
    BY <1>h, <1>32, <2>1, <2>2 DEF DestroyJoin, Left, QueuedOnce
  <2>5. QueuedStage' /\ QueuedOnce'
    <3>1. \A w \in Workers : \A i \in DOMAIN queue'[w] :
            w # mi /\ i \in DOMAIN queue[w] /\ queue'[w][i] = queue[w][i]
      BY <2>2
    <3>2. QueuedStage'
      BY <1>h, <2>4, <3>1 DEF QueuedStage
    <3>3. ASSUME NEW w \in Workers, NEW x \in Workers, NEW i \in DOMAIN queue'[w],
                 NEW j \in DOMAIN queue'[x], queue'[w][i] \in Tasks, queue'[w][i] = queue'[x][j]
          PROVE  w = x /\ i = j
      <4>1. /\ i \in DOMAIN queue[w] /\ queue'[w][i] = queue[w][i]
            /\ j \in DOMAIN queue[x] /\ queue'[x][j] = queue[x][j]
        BY <3>1
      <4>2. queue[w][i] \in Tasks /\ queue[w][i] = queue[x][j]
        BY <3>3, <4>1
      <4>3. QED
        BY <1>h, <4>1, <4>2, Zenon DEF QueuedOnce
    <3>4. QED
      BY <3>2, <3>3 DEF QueuedOnce
  <2>6. HeldStage' /\ HeldOnce'
    BY <1>0, <1>h, <1>32, <2>3 DEF DestroyJoin, HeldStage, HeldOnce, Holding, WorkerHolds,
        localVars
  <2>7. OfferedStage' /\ OfferedOnce'
    BY <1>0, <1>h, <1>32, <2>3 DEF DestroyJoin, OfferedStage, OfferedOnce, Offering,
        ClientHolds, clientVars
  <2> QED
    BY <2>5, <2>6, <2>7 DEF SingleHolder
<1>33. ASSUME DestroyReturn
      PROVE  SingleHolder'
  BY <1>0, <1>33, HolderFrame DEF DestroyReturn, TypeLocals, TypeClients, poolVars, workerVars,
      localVars, clientVars, mainVars, taskVars
<1>34. ASSUME UNCHANGED vars PROVE SingleHolder'
  BY <1>34, HolderFrame DEF vars, poolVars, workerVars, localVars, clientVars, mainVars,
      taskVars
<1>35. QED
  BY <1>1, <1>2, <1>3, <1>4, <1>5, <1>6, <1>7, <1>8, <1>9, <1>10, <1>11, <1>12, <1>13, <1>14,
      <1>15, <1>16, <1>17, <1>18, <1>19, <1>20, <1>21, <1>22, <1>23, <1>24, <1>25, <1>26, <1>27,
      <1>28, <1>29, <1>30, <1>31, <1>32, <1>33, <1>34 DEF Next, ClientStep, WorkerStep, MainStep

(* Every task has one holder at a time, and its stage says which. *)
THEOREM OneHolder == Spec => []SingleHolder
BY TypeInit, TypeStep, HolderInit, HolderStep, PTL DEF Spec

-----------------------------------------------------------------------------
(* The life of a task.  From SingleHolder: in every step each task stays   *)
(* where it is or makes one move, and only the moves of Runs and Ends      *)
(* execute or free it.                                                     *)

Stays(t) == stage'[t] = stage[t] /\ executed'[t] = executed[t] /\ (CallerFrees \/ frees'[t] =
    frees[t])
Passes(t) ==
  /\ \/ stage[t] = "new" /\ stage'[t] = "offered"
     \/ stage[t] = "offered" /\ stage'[t] = "counted"
     \/ stage[t] \in {"counted", "stolen"} /\ stage'[t] = "queued"
     \/ stage[t] = "queued" /\ stage'[t] \in {"running", "stolen"}
     \/ stage[t] = "ran" /\ stage'[t] = "done"
  /\ executed'[t] = executed[t] /\ frees'[t] = frees[t]
Runs(t) ==
  /\ stage[t] = "running" /\ stage'[t] = "ran"
  /\ executed'[t] = executed[t] + 1 /\ frees'[t] = frees[t]
Ends(t) ==
  /\ \/ stage[t] = "done" /\ stage'[t] = "freed"
     \/ stage[t] = "queued" /\ stage'[t] = "dropped"
     \/ stage[t] = "new" /\ stage'[t] = "refused"
  /\ executed'[t] = executed[t] /\ frees'[t] = frees[t] + 1
Moves == \A t \in Tasks : Stays(t) \/ Passes(t) \/ Runs(t) \/ Ends(t)

(* Every step makes only such moves. *)
LEMMA TaskMoves == TypeInv /\ SingleHolder /\ [Next]_vars => Moves
<1> SUFFICES ASSUME TypeInv, SingleHolder, [Next]_vars PROVE Moves
  OBVIOUS
<1> USE PoolAssumption DEF PoolAssumption
<1>0. /\ TypeQueues /\ TypeTasks /\ TypeMain /\ ClientHolds /\ WorkerHolds
      /\ QueuedStage /\ HeldStage /\ OfferedStage
  BY DEF TypeInv, TypeOK, SingleHolder
<1>1. ASSUME NEW c \in Clients, NEW t \in Tasks, SubmitCall(c, t)
      PROVE  Moves
  BY <1>0, <1>1 DEF SubmitCall, Moves, Stays, Passes, TypeTasks, SetStage, ClientHolds,
      OfferedStage
<1>2. ASSUME NEW c \in Clients, NEW t \in Tasks, SubmitRefused(c, t)
      PROVE  Moves
  BY <1>0, <1>2 DEF SubmitRefused, Moves, Stays, Ends, TypeTasks, SetStage, ClientHolds,
      OfferedStage, Free
<1>3. ASSUME NEW c \in Clients, NEW r \in BOOLEAN, SubmitCount(c, r)
      PROVE  Moves
  BY <1>0, <1>3 DEF SubmitCount, Moves, Stays, Passes, TypeTasks, SetStage, ClientHolds,
      OfferedStage
<1>4. ASSUME NEW c \in Clients, SubmitPush(c)
      PROVE  Moves
  BY <1>0, <1>4 DEF SubmitPush, Moves, Stays, Passes, TypeTasks, SetStage, ClientHolds,
      OfferedStage
<1>5. ASSUME NEW c \in Clients, SubmitSignal(c)
      PROVE  Moves
  BY <1>5 DEF SubmitSignal, Moves, Stays, taskVars
<1>6. ASSUME NEW c \in Clients, WaitCall(c)
      PROVE  Moves
  BY <1>6 DEF WaitCall, Moves, Stays, taskVars
<1>7. ASSUME NEW c \in Clients, WaitCheck(c)
      PROVE  Moves
  BY <1>7 DEF WaitCheck, Moves, Stays, taskVars
<1>8. ASSUME NEW c \in Clients, WaitSleep(c)
      PROVE  Moves
  BY <1>8 DEF WaitSleep, Moves, Stays, taskVars
<1>9. ASSUME NEW c \in Clients, AfterWait(c)
      PROVE  Moves
  BY <1>0, <1>9 DEF AfterWait, Moves, Stays, TypeTasks
<1>10. ASSUME NEW w \in Workers, WorkerStart(w)
      PROVE  Moves
  BY <1>10 DEF WorkerStart, Moves, Stays, taskVars
<1>11. ASSUME NEW w \in Workers, WorkerLoop(w)
      PROVE  Moves
  BY <1>11 DEF WorkerLoop, Moves, Stays, taskVars
<1>12. ASSUME NEW w \in Workers, WorkerPopNone(w)
      PROVE  Moves
  BY <1>12 DEF WorkerPopNone, Moves, Stays, taskVars
<1>13. ASSUME NEW w \in Workers, WorkerPopTask(w)
      PROVE  Moves
  <2>1. queue[w] # <<>> /\ Head(queue[w]) # Terminate
    BY <1>13 DEF WorkerPopTask
  <2>2. Head(queue[w]) # Terminate =>
          Head(queue[w]) \in Tasks /\ stage[Head(queue[w])] = "queued"
    BY <1>0, <2>1, HeadTail, TailAt DEF TypeQueues, QueuedStage
  <2>3. QED
    BY <1>0, <1>13, <2>1, <2>2 DEF WorkerPopTask, Moves, Stays, Passes, TypeTasks, SetStage
<1>14. ASSUME NEW w \in Workers, WorkerPopTerminate(w)
      PROVE  Moves
  BY <1>14 DEF WorkerPopTerminate, Moves, Stays, taskVars
<1>15. ASSUME NEW w \in Workers, WorkerExec(w)
      PROVE  Moves
  BY <1>0, <1>15 DEF WorkerExec, Moves, Stays, Runs, TypeTasks, SetStage, WorkerHolds, HeldStage
<1>16. ASSUME NEW w \in Workers, WorkerDec(w)
      PROVE  Moves
  BY <1>0, <1>16 DEF WorkerDec, Moves, Stays, Passes, TypeTasks, SetStage, WorkerHolds,
      HeldStage
<1>17. ASSUME NEW w \in Workers, WorkerNotify(w)
      PROVE  Moves
  BY <1>17 DEF WorkerNotify, Moves, Stays, taskVars
<1>18. ASSUME NEW w \in Workers, WorkerFree(w)
      PROVE  Moves
  BY <1>0, <1>18 DEF WorkerFree, Moves, Stays, Ends, TypeTasks, SetStage, WorkerHolds,
      HeldStage, Free
<1>19. ASSUME NEW w \in Workers, StealCheck(w)
      PROVE  Moves
  BY <1>19 DEF StealCheck, Moves, Stays, taskVars
<1>20. ASSUME NEW w \in Workers, StealTake(w)
      PROVE  Moves
  <2>1. Victim(w) \in Workers /\ queue[Victim(w)] # <<>>
    BY <1>20, StealVictim
  <2>2. Head(queue[Victim(w)]) # Terminate =>
          Head(queue[Victim(w)]) \in Tasks /\ stage[Head(queue[Victim(w)])] = "queued"
    BY <1>0, <2>1, HeadTail, TailAt DEF TypeQueues, QueuedStage
  <2>3. QED
    BY <1>0, <1>20, <2>1, <2>2 DEF StealTake, Moves, Stays, Passes, TypeTasks
<1>21. ASSUME NEW w \in Workers, StealMiss(w)
      PROVE  Moves
  BY <1>21 DEF StealMiss, Moves, Stays, taskVars
<1>22. ASSUME NEW w \in Workers, StealFail(w)
      PROVE  Moves
  BY <1>22 DEF StealFail, Moves, Stays, taskVars
<1>23. ASSUME NEW w \in Workers, StealKeep(w)
      PROVE  Moves
  BY <1>0, <1>23 DEF StealKeep, Moves, Stays, Passes, TypeTasks, WorkerHolds, HeldStage
<1>24. ASSUME NEW w \in Workers, WorkerLock(w)
      PROVE  Moves
  BY <1>24 DEF WorkerLock, Moves, Stays, taskVars
<1>25. ASSUME NEW w \in Workers, WorkerSleep(w)
      PROVE  Moves
  BY <1>25 DEF WorkerSleep, Moves, Stays, taskVars
<1>26. ASSUME NEW w \in Workers, WorkerCleanup(w)
      PROVE  Moves
  BY <1>26 DEF WorkerCleanup, Moves, Stays, taskVars
<1>27. ASSUME SpuriousWake
      PROVE  Moves
  BY <1>27 DEF SpuriousWake, Moves, Stays, taskVars
<1>28. ASSUME DestroyCall
      PROVE  Moves
  BY <1>28 DEF DestroyCall, Moves, Stays, taskVars
<1>29. ASSUME DestroyStop
      PROVE  Moves
  BY <1>29 DEF DestroyStop, Moves, Stays, taskVars
<1>30. ASSUME DestroyPush
      PROVE  Moves
  BY <1>30 DEF DestroyPush, Moves, Stays, taskVars
<1>31. ASSUME DestroySignal
      PROVE  Moves
  BY <1>31 DEF DestroySignal, Moves, Stays, taskVars
<1>32. ASSUME DestroyJoin
      PROVE  Moves
  <2>1. mi \in Workers
    BY <1>0, <1>32 DEF DestroyJoin, TypeMain, Workers
  <2>2. \A t \in Left(mi) : t \in Tasks /\ stage[t] = "queued"
    BY <1>0, <2>1 DEF Left, QueuedStage
  <2>3. \A t \in Tasks :
          IF t \in Left(mi) THEN stage'[t] = "dropped" /\ frees'[t] = frees[t] + 1
                           ELSE stage'[t] = stage[t] /\ frees'[t] = frees[t]
    BY <1>32 DEF DestroyJoin
  <2>4. UNCHANGED executed
    BY <1>32 DEF DestroyJoin
  <2>5. QED
    BY <2>2, <2>3, <2>4 DEF Moves, Stays, Ends
<1>33. ASSUME DestroyReturn
      PROVE  Moves
  BY <1>33 DEF DestroyReturn, Moves, Stays, taskVars
<1>34. ASSUME UNCHANGED vars PROVE Moves
  BY <1>34 DEF vars, Moves, Stays, taskVars
<1>35. QED
  BY <1>1, <1>2, <1>3, <1>4, <1>5, <1>6, <1>7, <1>8, <1>9, <1>10, <1>11, <1>12, <1>13, <1>14,
      <1>15, <1>16, <1>17, <1>18, <1>19, <1>20, <1>21, <1>22, <1>23, <1>24, <1>25, <1>26, <1>27,
      <1>28, <1>29, <1>30, <1>31, <1>32, <1>33, <1>34 DEF Next, ClientStep, WorkerStep, MainStep

-----------------------------------------------------------------------------
(* Each task once: how often a task was executed and freed can be read off *)
(* its stage.                                                              *)

CountInv ==
  \A t \in Tasks :
    /\ executed[t] = IF stage[t] \in {"ran", "done", "freed"} THEN 1 ELSE 0
    /\ ~CallerFrees => frees[t] = IF stage[t] \in {"freed", "dropped", "refused"} THEN 1 ELSE 0

(* It holds initially. *)
LEMMA CountInit == Init => CountInv
BY DEF Init, CountInv

(* Every step keeps it. *)
LEMMA CountStep == TypeInv /\ SingleHolder /\ CountInv /\ [Next]_vars => CountInv'
<1> SUFFICES ASSUME TypeInv, SingleHolder, CountInv, [Next]_vars, NEW t \in Tasks
             PROVE  /\ executed'[t] = IF stage'[t] \in {"ran", "done", "freed"} THEN 1 ELSE 0
                    /\ ~CallerFrees =>
                         frees'[t] = IF stage'[t] \in {"freed", "dropped", "refused"} THEN 1
                             ELSE 0
  BY DEF CountInv
<1>1. Stays(t) \/ Passes(t) \/ Runs(t) \/ Ends(t)
  BY TaskMoves DEF Moves
<1>2. QED
  BY <1>1 DEF CountInv, Stays, Passes, Runs, Ends

(* Unless the caller frees its tasks itself, no task is executed or freed  *)
(* twice, and none is executed that destroy has freed.                     *)
THEOREM EachOnce ==
  ASSUME ~CallerFrees PROVE Spec => []OnceOnly
<1>1. CountInv => OnceOnly
  BY DEF CountInv, OnceOnly
<1>2. Init => TypeInv /\ SingleHolder /\ CountInv
  BY TypeInit, HolderInit, CountInit
<1>3. TypeInv /\ SingleHolder /\ CountInv /\ [Next]_vars
        => (TypeInv /\ SingleHolder /\ CountInv)'
  BY TypeStep, HolderStep, CountStep
<1>4. QED
  BY <1>1, <1>2, <1>3, PTL DEF Spec

-----------------------------------------------------------------------------
(* The counter.  Only SubmitCount and WorkerDec take a task into or out of *)
(* the counted stages, and they change tasks_pending by one.               *)

Counted == {t \in Tasks : stage[t] \in PendingStages}

(* The counted tasks are finitely many. *)
LEMMA CountedFinite == IsFiniteSet(Counted) /\ Cardinality(Counted) \in Nat
<1>1. IsFiniteSet(Counted)
  BY PoolAssumption, FS_Subset DEF PoolAssumption, Counted
<1>2. QED
  BY <1>1, FS_CardinalityType

(* Every step keeps PendingExact. *)
LEMMA PendingStep == TypeInv /\ SingleHolder /\ PendingExact /\ [Next]_vars => PendingExact'
<1> SUFFICES ASSUME TypeInv, SingleHolder, PendingExact, [Next]_vars PROVE PendingExact'
  OBVIOUS
<1> USE PoolAssumption DEF PoolAssumption
<1>0. /\ TypePool /\ TypeQueues /\ TypeTasks /\ TypeMain /\ ClientHolds /\ WorkerHolds
      /\ QueuedStage /\ HeldStage /\ OfferedStage
  BY DEF TypeInv, TypeOK, SingleHolder
<1>c. tasks_pending = Cardinality(Counted)
  BY DEF PendingExact, Counted
<1>s. ASSUME UNCHANGED tasks_pending, Counted' = Counted PROVE PendingExact'
  BY <1>c, <1>s DEF PendingExact, Counted
<1>1. ASSUME NEW c \in Clients, NEW t \in Tasks, SubmitCall(c, t)
      PROVE  PendingExact'
  <2>1. Counted' = Counted /\ UNCHANGED tasks_pending
    BY <1>0, <1>1 DEF SubmitCall, Counted, PendingStages, TypeTasks, poolVars, SetStage,
        ClientHolds, OfferedStage
  <2>2. QED
    BY <1>s, <2>1
<1>2. ASSUME NEW c \in Clients, NEW t \in Tasks, SubmitRefused(c, t)
      PROVE  PendingExact'
  <2>1. Counted' = Counted /\ UNCHANGED tasks_pending
    BY <1>0, <1>2 DEF SubmitRefused, Counted, PendingStages, TypeTasks, poolVars, SetStage,
        ClientHolds, OfferedStage
  <2>2. QED
    BY <1>s, <2>1
<1>3. ASSUME NEW c \in Clients, NEW r \in BOOLEAN, SubmitCount(c, r)
      PROVE  PendingExact'
  <2>1. ctask[c] \in Tasks /\ stage[ctask[c]] = "offered"
    BY <1>0, <1>3 DEF SubmitCount, ClientHolds, OfferedStage
  <2>2. Counted' = Counted \cup {ctask[c]} /\ ctask[c] \notin Counted
    BY <1>0, <1>3, <2>1 DEF SubmitCount, Counted, PendingStages, SetStage, TypeTasks
  <2>3. Cardinality(Counted') = Cardinality(Counted) + 1
    BY <2>2, CountedFinite, FS_AddElement
  <2>4. tasks_pending' = tasks_pending + 1
    BY <1>3 DEF SubmitCount
  <2>5. QED
    BY <1>c, <2>3, <2>4 DEF PendingExact, Counted
<1>4. ASSUME NEW c \in Clients, SubmitPush(c)
      PROVE  PendingExact'
  <2>1. Counted' = Counted /\ UNCHANGED tasks_pending
    BY <1>0, <1>4 DEF SubmitPush, Counted, PendingStages, TypeTasks, poolVars, SetStage,
        ClientHolds, OfferedStage
  <2>2. QED
    BY <1>s, <2>1
<1>5. ASSUME NEW c \in Clients, SubmitSignal(c)
      PROVE  PendingExact'
  BY <1>s, <1>5 DEF SubmitSignal, Counted, poolVars, taskVars
<1>6. ASSUME NEW c \in Clients, WaitCall(c)
      PROVE  PendingExact'
  BY <1>s, <1>6 DEF WaitCall, Counted, poolVars, taskVars
<1>7. ASSUME NEW c \in Clients, WaitCheck(c)
      PROVE  PendingExact'
  BY <1>s, <1>7 DEF WaitCheck, Counted, poolVars, taskVars
<1>8. ASSUME NEW c \in Clients, WaitSleep(c)
      PROVE  PendingExact'
  BY <1>s, <1>8 DEF WaitSleep, Counted, poolVars, taskVars
<1>9. ASSUME NEW c \in Clients, AfterWait(c)
      PROVE  PendingExact'
  BY <1>s, <1>9 DEF AfterWait, Counted, poolVars
<1>10. ASSUME NEW w \in Workers, WorkerStart(w)
      PROVE  PendingExact'
  BY <1>s, <1>10 DEF WorkerStart, Counted, poolVars, taskVars
<1>11. ASSUME NEW w \in Workers, WorkerLoop(w)
      PROVE  PendingExact'
  BY <1>s, <1>11 DEF WorkerLoop, Counted, poolVars, taskVars
<1>12. ASSUME NEW w \in Workers, WorkerPopNone(w)
      PROVE  PendingExact'
  BY <1>s, <1>12 DEF WorkerPopNone, Counted, poolVars, taskVars
<1>13. ASSUME NEW w \in Workers, WorkerPopTask(w)
      PROVE  PendingExact'
  <2>1. queue[w] # <<>> /\ Head(queue[w]) # Terminate
    BY <1>13 DEF WorkerPopTask
  <2>2. Head(queue[w]) # Terminate =>
          Head(queue[w]) \in Tasks /\ stage[Head(queue[w])] = "queued"
    BY <1>0, <2>1, HeadTail, TailAt DEF TypeQueues, QueuedStage
  <2>3. Counted' = Counted /\ UNCHANGED tasks_pending
    BY <1>0, <1>13, <2>1, <2>2 DEF WorkerPopTask, Counted, PendingStages, TypeTasks, poolVars,
        SetStage
  <2>4. QED
    BY <1>s, <2>3
<1>14. ASSUME NEW w \in Workers, WorkerPopTerminate(w)
      PROVE  PendingExact'
  BY <1>s, <1>14 DEF WorkerPopTerminate, Counted, poolVars, taskVars
<1>15. ASSUME NEW w \in Workers, WorkerExec(w)
      PROVE  PendingExact'
  <2>1. Counted' = Counted /\ UNCHANGED tasks_pending
    BY <1>0, <1>15 DEF WorkerExec, Counted, PendingStages, TypeTasks, poolVars, SetStage,
        WorkerHolds, HeldStage
  <2>2. QED
    BY <1>s, <2>1
<1>16. ASSUME NEW w \in Workers, WorkerDec(w)
      PROVE  PendingExact'
  <2>1. cur[w] \in Tasks /\ stage[cur[w]] = "ran"
    BY <1>0, <1>16 DEF WorkerDec, WorkerHolds, HeldStage
  <2>2. Counted' = Counted \ {cur[w]} /\ cur[w] \in Counted
    BY <1>0, <1>16, <2>1 DEF WorkerDec, Counted, PendingStages, SetStage, TypeTasks
  <2>3. Cardinality(Counted') = Cardinality(Counted) - 1
    BY <2>2, CountedFinite, FS_RemoveElement
  <2>4. tasks_pending' = tasks_pending - 1
    BY <1>16 DEF WorkerDec
  <2>5. QED
    BY <1>c, <2>3, <2>4 DEF PendingExact, Counted
<1>17. ASSUME NEW w \in Workers, WorkerNotify(w)
      PROVE  PendingExact'
  BY <1>s, <1>17 DEF WorkerNotify, Counted, poolVars, taskVars
<1>18. ASSUME NEW w \in Workers, WorkerFree(w)
      PROVE  PendingExact'
  <2>1. Counted' = Counted /\ UNCHANGED tasks_pending
    BY <1>0, <1>18 DEF WorkerFree, Counted, PendingStages, TypeTasks, poolVars, SetStage,
        WorkerHolds, HeldStage
  <2>2. QED
    BY <1>s, <2>1
<1>19. ASSUME NEW w \in Workers, StealCheck(w)
      PROVE  PendingExact'
  BY <1>s, <1>19 DEF StealCheck, Counted, poolVars, taskVars
<1>20. ASSUME NEW w \in Workers, StealTake(w)
      PROVE  PendingExact'
  <2>1. Victim(w) \in Workers /\ queue[Victim(w)] # <<>>
    BY <1>20, StealVictim
  <2>2. Head(queue[Victim(w)]) # Terminate =>
          Head(queue[Victim(w)]) \in Tasks /\ stage[Head(queue[Victim(w)])] = "queued"
    BY <1>0, <2>1, HeadTail, TailAt DEF TypeQueues, QueuedStage
  <2>3. Counted' = Counted /\ UNCHANGED tasks_pending
    BY <1>0, <1>20, <2>1, <2>2 DEF StealTake, Counted, PendingStages, TypeTasks, poolVars
  <2>4. QED
    BY <1>s, <2>3
<1>21. ASSUME NEW w \in Workers, StealMiss(w)
      PROVE  PendingExact'
  BY <1>s, <1>21 DEF StealMiss, Counted, poolVars, taskVars
<1>22. ASSUME NEW w \in Workers, StealFail(w)
      PROVE  PendingExact'
  BY <1>s, <1>22 DEF StealFail, Counted, poolVars, taskVars
<1>23. ASSUME NEW w \in Workers, StealKeep(w)
      PROVE  PendingExact'
  <2>1. Counted' = Counted /\ UNCHANGED tasks_pending
    BY <1>0, <1>23 DEF StealKeep, Counted, PendingStages, TypeTasks, poolVars, WorkerHolds,
        HeldStage
  <2>2. QED
    BY <1>s, <2>1
<1>24. ASSUME NEW w \in Workers, WorkerLock(w)
      PROVE  PendingExact'
  BY <1>s, <1>24 DEF WorkerLock, Counted, poolVars, taskVars
<1>25. ASSUME NEW w \in Workers, WorkerSleep(w)
      PROVE  PendingExact'
  BY <1>s, <1>25 DEF WorkerSleep, Counted, poolVars, taskVars
<1>26. ASSUME NEW w \in Workers, WorkerCleanup(w)
      PROVE  PendingExact'
  BY <1>s, <1>26 DEF WorkerCleanup, Counted, poolVars, taskVars
<1>27. ASSUME SpuriousWake
      PROVE  PendingExact'
  BY <1>s, <1>27 DEF SpuriousWake, Counted, poolVars, taskVars
<1>28. ASSUME DestroyCall
      PROVE  PendingExact'
  BY <1>s, <1>28 DEF DestroyCall, Counted, taskVars
<1>29. ASSUME DestroyStop
      PROVE  PendingExact'
  BY <1>s, <1>29 DEF DestroyStop, Counted, poolVars, taskVars
<1>30. ASSUME DestroyPush
      PROVE  PendingExact'
  BY <1>s, <1>30 DEF DestroyPush, Counted, poolVars, taskVars
<1>31. ASSUME DestroySignal
      PROVE  PendingExact'
  BY <1>s, <1>31 DEF DestroySignal, Counted, poolVars, taskVars
<1>32. ASSUME DestroyJoin
      PROVE  PendingExact'
  <2>1. Counted' = Counted /\ UNCHANGED tasks_pending
    BY <1>0, <1>32 DEF DestroyJoin, Counted, PendingStages, TypeTasks, poolVars, Left,
        QueuedStage, TypeMain, Workers
  <2>2. QED
    BY <1>s, <2>1
<1>33. ASSUME DestroyReturn
      PROVE  PendingExact'
  BY <1>s, <1>33 DEF DestroyReturn, Counted, poolVars, taskVars
<1>34. ASSUME UNCHANGED vars PROVE PendingExact'
  BY <1>s, <1>34 DEF vars, Counted, poolVars, taskVars
<1>35. QED
  BY <1>1, <1>2, <1>3, <1>4, <1>5, <1>6, <1>7, <1>8, <1>9, <1>10, <1>11, <1>12, <1>13, <1>14,
      <1>15, <1>16, <1>17, <1>18, <1>19, <1>20, <1>21, <1>22, <1>23, <1>24, <1>25, <1>26, <1>27,
      <1>28, <1>29, <1>30, <1>31, <1>32, <1>33, <1>34 DEF Next, ClientStep, WorkerStep, MainStep

(* tasks_pending is the number of tasks that are submitted and have not    *)
(* been counted down, or were dropped by destroy.                          *)
THEOREM CounterExact == Spec => []PendingExact
<1>1. Init => PendingExact
  <2> SUFFICES ASSUME Init PROVE PendingExact
    OBVIOUS
  <2>1. {t \in Tasks : stage[t] \in PendingStages} = {}
    BY DEF Init, PendingStages
  <2>2. QED
    BY <2>1, FS_EmptySet DEF Init, PendingExact
<1>2. Init => TypeInv /\ SingleHolder /\ PendingExact
  BY <1>1, TypeInit, HolderInit
<1>3. TypeInv /\ SingleHolder /\ PendingExact /\ [Next]_vars
      => (TypeInv /\ SingleHolder /\ PendingExact)'
  BY TypeStep, HolderStep, PendingStep
<1>4. QED
  BY <1>2, <1>3, PTL DEF Spec

-----------------------------------------------------------------------------
(* wait_all.  The tasks that were submitted when it was called never go    *)
(* back behind the counter; at the load that lets it return the counter is *)
(* zero, hence none of them is counted, hence all have been counted down.  *)

WaitInv ==
  \A c \in Clients : \A t \in must[c] :
    /\ stage[t] \notin NotSubmitted
    /\ cpc[c] = "returned" => stage[t] \in {"done", "freed"}

(* A move takes no task back. *)
LEMMA MovesForward ==
  ASSUME NEW t \in Tasks
  PROVE  Moves => /\ stage[t] \notin NotSubmitted => stage'[t] \notin NotSubmitted
                  /\ stage[t] \in {"done", "freed"} => stage'[t] \in {"done", "freed"}
BY DEF Moves, Stays, Passes, Runs, Ends, NotSubmitted

(* What wait_all waits for stays submitted while must is left alone, and   *)
(* done once it has returned.                                              *)
LEMMA WaitFrame ==
  TypeInv /\ WaitInv /\ Moves /\ UNCHANGED must
  /\ (\A c \in Clients : cpc'[c] = "returned" => cpc[c] = "returned")
  => WaitInv'
BY MovesForward DEF WaitInv, TypeInv, TypeOK, TypeClients

(* Every step keeps WaitInv. *)
LEMMA WaitStep ==
  TypeInv /\ SingleHolder /\ PendingExact /\ WaitInv /\ [Next]_vars => WaitInv'
<1> SUFFICES ASSUME TypeInv, SingleHolder, PendingExact, WaitInv, [Next]_vars PROVE WaitInv'
  OBVIOUS
<1>0. TypeClients /\ TypeTasks /\ TypePool /\ Moves
  BY TaskMoves DEF TypeInv, TypeOK
<1>f. ASSUME UNCHANGED must, \A c \in Clients : cpc'[c] = "returned" => cpc[c] = "returned"
      PROVE  WaitInv'
  BY <1>0, <1>f, WaitFrame
<1>1. ASSUME NEW c \in Clients, NEW t \in Tasks, SubmitCall(c, t)
      PROVE  WaitInv'
  BY <1>0, <1>f, <1>1 DEF SubmitCall, CGoto, TypeClients, clientVars
<1>2. ASSUME NEW c \in Clients, NEW t \in Tasks, SubmitRefused(c, t)
      PROVE  WaitInv'
  BY <1>0, <1>f, <1>2 DEF SubmitRefused, TypeClients, clientVars
<1>3. ASSUME NEW c \in Clients, NEW r \in BOOLEAN, SubmitCount(c, r)
      PROVE  WaitInv'
  BY <1>0, <1>f, <1>3 DEF SubmitCount, CGoto, TypeClients, clientVars
<1>4. ASSUME NEW c \in Clients, SubmitPush(c)
      PROVE  WaitInv'
  BY <1>0, <1>f, <1>4 DEF SubmitPush, CGoto, TypeClients, clientVars
<1>5. ASSUME NEW c \in Clients, SubmitSignal(c)
      PROVE  WaitInv'
  BY <1>0, <1>f, <1>5 DEF SubmitSignal, CGoto, TypeClients, clientVars
<1>6. ASSUME NEW c \in Clients, WaitCall(c)
      PROVE  WaitInv'
  <2>1. /\ \A d \in Clients \ {c} : must'[d] = must[d] /\ cpc'[d] = cpc[d]
        /\ must'[c] = {t \in Tasks : stage[t] \notin NotSubmitted} /\ cpc'[c] = "dcheck"
        /\ UNCHANGED stage
    BY <1>0, <1>6 DEF WaitCall, CGoto, TypeClients, taskVars
  <2>2. QED
    BY <1>0, <2>1 DEF WaitInv
<1>7. ASSUME NEW c \in Clients, WaitCheck(c)
      PROVE  WaitInv'
  <2>1. UNCHANGED <<must, stage>> /\ \A d \in Clients \ {c} : cpc'[d] = cpc[d]
    BY <1>0, <1>7 DEF WaitCheck, CGoto, TypeClients, taskVars
  <2>2. ASSUME cpc'[c] = "returned", NEW t \in must[c] PROVE stage[t] \in {"done", "freed"}
    <3>1. tasks_pending <= 0
      BY <1>0, <1>7, <2>2 DEF WaitCheck, CGoto, TypeClients, TypePool
    <3>2. Cardinality(Counted) = 0
      BY <3>1, CountedFinite DEF PendingExact, Counted
    <3>3. Counted = {}
      BY <3>2, CountedFinite, FS_EmptySet
    <3>4. t \in Tasks /\ stage[t] \in Stages /\ stage[t] \notin NotSubmitted
      BY <1>0 DEF WaitInv, TypeClients, TypeTasks
    <3>5. QED
      BY <3>3, <3>4 DEF Counted, PendingStages, NotSubmitted, Stages
  <2>3. QED
    BY <2>1, <2>2 DEF WaitInv
<1>8. ASSUME NEW c \in Clients, WaitSleep(c)
      PROVE  WaitInv'
  BY <1>0, <1>f, <1>8 DEF WaitSleep, CGoto, TypeClients, clientVars
<1>9. ASSUME NEW c \in Clients, AfterWait(c)
      PROVE  WaitInv'
  BY <1>0, <1>f, <1>9 DEF AfterWait, CGoto, TypeClients, clientVars
<1>10. ASSUME NEW w \in Workers, WorkerStart(w)
      PROVE  WaitInv'
  BY <1>0, <1>f, <1>10 DEF WorkerStart, TypeClients, clientVars
<1>11. ASSUME NEW w \in Workers, WorkerLoop(w)
      PROVE  WaitInv'
  BY <1>0, <1>f, <1>11 DEF WorkerLoop, TypeClients, clientVars
<1>12. ASSUME NEW w \in Workers, WorkerPopNone(w)
      PROVE  WaitInv'
  BY <1>0, <1>f, <1>12 DEF WorkerPopNone, TypeClients, clientVars
<1>13. ASSUME NEW w \in Workers, WorkerPopTask(w)
      PROVE  WaitInv'
  BY <1>0, <1>f, <1>13 DEF WorkerPopTask, TypeClients, clientVars
<1>14. ASSUME NEW w \in Workers, WorkerPopTerminate(w)
      PROVE  WaitInv'
  BY <1>0, <1>f, <1>14 DEF WorkerPopTerminate, TypeClients, clientVars
<1>15. ASSUME NEW w \in Workers, WorkerExec(w)
      PROVE  WaitInv'
  BY <1>0, <1>f, <1>15 DEF WorkerExec, TypeClients, clientVars
<1>16. ASSUME NEW w \in Workers, WorkerDec(w)
      PROVE  WaitInv'
  BY <1>0, <1>f, <1>16 DEF WorkerDec, TypeClients, clientVars
<1>17. ASSUME NEW w \in Workers, WorkerNotify(w)
      PROVE  WaitInv'
  BY <1>0, <1>f, <1>17 DEF WorkerNotify, CGoto, TypeClients, clientVars
<1>18. ASSUME NEW w \in Workers, WorkerFree(w)
      PROVE  WaitInv'
  BY <1>0, <1>f, <1>18 DEF WorkerFree, TypeClients, clientVars
<1>19. ASSUME NEW w \in Workers, StealCheck(w)
      PROVE  WaitInv'
  BY <1>0, <1>f, <1>19 DEF StealCheck, TypeClients, clientVars
<1>20. ASSUME NEW w \in Workers, StealTake(w)
      PROVE  WaitInv'
  BY <1>0, <1>f, <1>20 DEF StealTake, TypeClients, clientVars
<1>21. ASSUME NEW w \in Workers, StealMiss(w)
      PROVE  WaitInv'
  BY <1>0, <1>f, <1>21 DEF StealMiss, TypeClients, clientVars
<1>22. ASSUME NEW w \in Workers, StealFail(w)
      PROVE  WaitInv'
  BY <1>0, <1>f, <1>22 DEF StealFail, TypeClients, clientVars
<1>23. ASSUME NEW w \in Workers, StealKeep(w)
      PROVE  WaitInv'
  BY <1>0, <1>f, <1>23 DEF StealKeep, TypeClients, clientVars
<1>24. ASSUME NEW w \in Workers, WorkerLock(w)
      PROVE  WaitInv'
  BY <1>0, <1>f, <1>24 DEF WorkerLock, TypeClients, clientVars
<1>25. ASSUME NEW w \in Workers, WorkerSleep(w)
      PROVE  WaitInv'
  BY <1>0, <1>f, <1>25 DEF WorkerSleep, TypeClients, clientVars
<1>26. ASSUME NEW w \in Workers, WorkerCleanup(w)
      PROVE  WaitInv'
  BY <1>0, <1>f, <1>26 DEF WorkerCleanup, TypeClients, clientVars
<1>27. ASSUME SpuriousWake
      PROVE  WaitInv'
  BY <1>0, <1>f, <1>27 DEF SpuriousWake, CGoto, TypeClients, clientVars
<1>28. ASSUME DestroyCall
      PROVE  WaitInv'
  BY <1>0, <1>f, <1>28 DEF DestroyCall, TypeClients, clientVars
<1>29. ASSUME DestroyStop
      PROVE  WaitInv'
  BY <1>0, <1>f, <1>29 DEF DestroyStop, TypeClients, clientVars
<1>30. ASSUME DestroyPush
      PROVE  WaitInv'
  BY <1>0, <1>f, <1>30 DEF DestroyPush, TypeClients, clientVars
<1>31. ASSUME DestroySignal
      PROVE  WaitInv'
  BY <1>0, <1>f, <1>31 DEF DestroySignal, TypeClients, clientVars
<1>32. ASSUME DestroyJoin
      PROVE  WaitInv'
  BY <1>0, <1>f, <1>32 DEF DestroyJoin, TypeClients, clientVars
<1>33. ASSUME DestroyReturn
      PROVE  WaitInv'
  BY <1>0, <1>f, <1>33 DEF DestroyReturn, TypeClients, clientVars
<1>34. ASSUME UNCHANGED vars PROVE WaitInv'
  BY <1>0, <1>f, <1>34 DEF vars, TypeClients, clientVars
<1>35. QED
  BY <1>1, <1>2, <1>3, <1>4, <1>5, <1>6, <1>7, <1>8, <1>9, <1>10, <1>11, <1>12, <1>13, <1>14,
      <1>15, <1>16, <1>17, <1>18, <1>19, <1>20, <1>21, <1>22, <1>23, <1>24, <1>25, <1>26, <1>27,
      <1>28, <1>29, <1>30, <1>31, <1>32, <1>33, <1>34 DEF Next, ClientStep, WorkerStep, MainStep

(* lr_thread_pool_wait_all returns only when every task submitted before   *)
(* the call has been executed, exactly once, whatever was stolen by whom.  *)
THEOREM WaitSound == Spec => []WaitAllSound
<1>1. Init => TypeInv /\ SingleHolder /\ CountInv /\ WaitInv
  BY TypeInit, HolderInit, CountInit DEF Init, WaitInv
<1>2. TypeInv /\ SingleHolder /\ CountInv /\ PendingExact /\ WaitInv /\ [Next]_vars
      => (TypeInv /\ SingleHolder /\ CountInv /\ WaitInv)'
  BY TypeStep, HolderStep, CountStep, WaitStep
<1>3. TypeInv /\ CountInv /\ WaitInv => WaitAllSound
  BY DEF TypeInv, TypeOK, TypeClients, CountInv, WaitInv, WaitAllSound
<1>4. QED
  BY <1>1, <1>2, <1>3, CounterExact, PTL DEF Spec
=============================================================================
