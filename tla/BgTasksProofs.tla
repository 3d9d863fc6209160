--------------------------- MODULE BgTasksProofs ---------------------------
(***************************************************************************)
(* Proofs about the queue of background tasks, for any set of clients and  *)
(* any number of tasks, and about the tasks of a controller that are put   *)
(* in it, for any number of API requests and recurring jobs.               *)
(***************************************************************************)
EXTENDS BgTasks, SequenceTheorems, TLAPS

\* What runQueue relies on while it is blocked on an answer: a task is handed
\* over only to a registered Take and past an empty queue (queue.go:30-33), and
\* given only from a queue that has one (queue.go:37-39).
HandingOver ==
  /\ srv = "hand" => queue = <<>> /\ takeReqs # <<>>
  /\ srv = "give" => queue # <<>>

\* The inductive invariant: the numbering facts only survive an answer because
\* of what was true when runQueue blocked.
QueueInv ==
  /\ TypeOK
  /\ TakenInOrder
  /\ NothingLost
  /\ NoTaskWaitsForTaker
  /\ HandingOver
----------------------------------------------------------------------------
LEMMA InitInv == Init => QueueInv
<1> SUFFICES ASSUME Init PROVE QueueInv
  OBVIOUS
<1>1. TypeOK
  <2>1. pc \in [Clients -> States]
    BY DEF Init, States
  <2>2. queue \in Seq(Nat) /\ taken \in Seq(Nat) /\ takeReqs \in Seq(Clients)
    BY DEF Init
  <2> QED BY <2>1, <2>2 DEF Init, TypeOK
<1>2. TakenInOrder /\ NothingLost
  BY DEF Init, TakenInOrder, NothingLost
<1>3. NoTaskWaitsForTaker /\ HandingOver
  BY DEF Init, NoTaskWaitsForTaker, HandingOver
<1> QED BY <1>1, <1>2, <1>3 DEF QueueInv

\* Steps that touch only the clients' own state and `closed`.
LEMMA ClientStepInv ==
  ASSUME QueueInv,
         \/ \E c \in Clients, k \in Calls : Call(c, k)
         \/ \E c \in Clients : Recover(c)
         \/ Close
  PROVE  QueueInv'
<1> USE DEF QueueInv, TypeOK, TakenInOrder, NothingLost, NoTaskWaitsForTaker,
            HandingOver, States, Calls
<1>1. CASE \E c \in Clients, k \in Calls : Call(c, k)
  BY <1>1 DEF Call
<1>2. CASE \E c \in Clients : Recover(c)
  BY <1>2 DEF Recover
<1>3. CASE Close
  BY <1>3 DEF Close
<1> QED BY <1>1, <1>2, <1>3

\* Receiving a request.
LEMMA ServeInv ==
  ASSUME QueueInv, NEW c \in Clients, Serve(c)
  PROVE  QueueInv'
<1> USE DEF QueueInv, TypeOK, TakenInOrder, NothingLost, NoTaskWaitsForTaker,
            HandingOver, States, Calls, Receive
<1>1. CASE ReceiveList(c)
  BY <1>1 DEF ReceiveList
<1>2. CASE ReceivePut(c)
  <2>1. CASE takeReqs # <<>>
    BY <1>2, <2>1 DEF ReceivePut
  <2>2. CASE takeReqs = <<>>
    <3>1. /\ queue' = Append(queue, i + 1) /\ i' = i + 1
          /\ UNCHANGED <<takeReqs, closed, taken, srv>> /\ srv = "range"
          /\ pc' = [pc EXCEPT ![c] = "idle"]
      BY <1>2, <2>2 DEF ReceivePut
    <3>2. TypeOK' /\ TakenInOrder'
      BY <3>1
    <3>3. NothingLost'
      <4>1. Len(queue') = Len(queue) + 1 /\ DOMAIN queue' = 1..(Len(queue) + 1)
        BY <3>1
      <4>2. i = Len(taken) + Len(queue)
        BY <3>1
      <4>3. i' = Len(taken') + Len(queue') + (IF srv' = "hand" THEN 1 ELSE 0)
        BY <3>1, <4>1, <4>2
      <4>4. ASSUME NEW k \in DOMAIN queue' PROVE queue'[k] = Len(taken') + k
        <5>1. CASE k \in DOMAIN queue
          <6>1. queue'[k] = queue[k]
            BY <3>1, <5>1
          <6> QED BY <3>1, <5>1, <6>1
        <5>2. CASE k = Len(queue) + 1
          BY <3>1, <4>2, <5>2
        <5> QED BY <4>1, <5>1, <5>2
      <4> QED BY <4>3, <4>4
    <3>4. NoTaskWaitsForTaker' /\ HandingOver'
      BY <3>1, <2>2
    <3> QED BY <3>2, <3>3, <3>4
  <2> QED BY <2>1, <2>2
<1>3. CASE ReceiveTake(c)
  <2>1. CASE queue # <<>>
    <3>1. /\ srv' = "give" /\ pc' = [pc EXCEPT ![c] = "served"]
          /\ UNCHANGED <<queue, takeReqs, i, closed, taken>> /\ srv = "range"
          /\ pc[c] = "take"
      BY <1>3, <2>1 DEF ReceiveTake
    <3>2. TypeOK'
      BY <3>1
    <3>3. TakenInOrder' /\ NothingLost'
      BY <3>1
    <3>4. NoTaskWaitsForTaker' /\ HandingOver'
      BY <3>1, <2>1
    <3> QED BY <3>2, <3>3, <3>4
  <2>2. CASE queue = <<>>
    <3>1. /\ takeReqs' = Append(takeReqs, c) /\ pc' = [pc EXCEPT ![c] = "wait"]
          /\ UNCHANGED <<queue, i, closed, taken, srv>> /\ srv = "range"
          /\ pc[c] = "take"
      BY <1>3, <2>2 DEF ReceiveTake
    <3>2. TypeOK'
      BY <3>1
    <3>5. TakenInOrder' /\ NothingLost' /\ HandingOver'
      BY <3>1
    <3>3. \A k \in DOMAIN takeReqs : takeReqs[k] # c
      BY <3>1
    <3>4. NoTaskWaitsForTaker'
      BY <3>1, <3>3, <2>2
    <3> QED BY <3>2, <3>5, <3>4
  <2> QED BY <2>1, <2>2
<1> QED BY <1>1, <1>2, <1>3 DEF Serve

\* Handing an answer over, or closing the channel of a blocked Take.
LEMMA AnswerInv ==
  ASSUME QueueInv, NEW c \in Clients, Answer(c)
  PROVE  QueueInv'
<1> USE DEF QueueInv, TypeOK, TakenInOrder, NothingLost, NoTaskWaitsForTaker,
            HandingOver, States, Calls
<1>1. CASE AnswerList(c)
  BY <1>1 DEF AnswerList
<1>2. CASE AnswerWaiting(c)
  <2>1. /\ srv = "hand" /\ queue = <<>> /\ takeReqs # <<>> /\ c = takeReqs[1]
        /\ pc' = [pc EXCEPT ![c] = "idle"]
        /\ taken' = Append(taken, i) /\ takeReqs' = Tail(takeReqs)
        /\ srv' = "range" /\ UNCHANGED <<queue, i, closed>>
    BY <1>2 DEF AnswerWaiting
  <2>2. TypeOK'
    BY <2>1
  <2>3. TakenInOrder'
    BY <2>1
  <2>4. NothingLost'
    BY <2>1
  <2>5. /\ DOMAIN takeReqs' = 1..(Len(takeReqs) - 1) /\ DOMAIN takeReqs = 1..Len(takeReqs)
        /\ Len(takeReqs) \in Nat
        /\ \A k \in DOMAIN takeReqs' : takeReqs'[k] = takeReqs[k + 1] /\ k + 1 \in DOMAIN takeReqs
    BY <2>1
  <2>6. \A k \in DOMAIN takeReqs' : takeReqs'[k] # c /\ takeReqs'[k] \in Clients
    BY <2>1, <2>5
  <2>7. \A j, k \in DOMAIN takeReqs' : takeReqs'[j] = takeReqs'[k] => j = k
    BY <2>5
  <2>8. \A k \in DOMAIN takeReqs' : pc'[takeReqs'[k]] = "wait"
    BY <2>1, <2>5, <2>6
  <2>9. HandingOver' /\ queue' = <<>>
    BY <2>1
  <2> QED BY <2>2, <2>3, <2>4, <2>7, <2>8, <2>9
<1>3. CASE AnswerTake(c)
  <2>1. /\ srv = "give" /\ queue # <<>> /\ takeReqs = <<>>
        /\ pc' = [pc EXCEPT ![c] = "idle"]
        /\ taken' = Append(taken, Head(queue)) /\ queue' = Tail(queue)
        /\ srv' = "range" /\ UNCHANGED <<takeReqs, i, closed>>
    BY <1>3 DEF AnswerTake
  <2>2. Head(queue) = Len(taken) + 1
    BY <2>1
  <2>3. TypeOK'
    BY <2>1
  <2>4. TakenInOrder'
    BY <2>1, <2>2
  <2>5. NothingLost'
    BY <2>1, SMTT(30)
  <2>6. NoTaskWaitsForTaker' /\ HandingOver'
    BY <2>1
  <2> QED BY <2>3, <2>4, <2>5, <2>6
<1>4. CASE CloseTake(c)
  BY <1>4 DEF CloseTake
<1> QED BY <1>1, <1>2, <1>3, <1>4 DEF Answer

LEMMA NextInv == QueueInv /\ [Next]_qvars => QueueInv'
<1> SUFFICES ASSUME QueueInv, [Next]_qvars PROVE QueueInv'
  OBVIOUS
<1>1. CASE UNCHANGED qvars
  BY <1>1 DEF qvars, QueueInv, TypeOK, TakenInOrder, NothingLost,
              NoTaskWaitsForTaker, HandingOver
<1>2. CASE Drain \/ Exit
  BY <1>2 DEF Drain, Exit, QueueInv, TypeOK, TakenInOrder, NothingLost,
              NoTaskWaitsForTaker, HandingOver
<1> QED
  BY <1>1, <1>2, ClientStepInv, ServeInv, AnswerInv DEF Next, RunQueue

LEMMA QueueInvariant == Spec => []QueueInv
BY InitInv, NextInv, PTL DEF Spec

\* The queue's variables keep their types.
THEOREM QueueTypeCorrect == Spec => []TypeOK
<1>1. QueueInv => TypeOK BY DEF QueueInv
<1> QED BY <1>1, QueueInvariant, PTL

\* Take returns the tasks once each and in the order of their numbers
\* (queue.go:27-42), for any number of clients calling concurrently.
THEOREM QueueTakenInOrder == Spec => []TakenInOrder
<1>1. QueueInv => TakenInOrder BY DEF QueueInv
<1> QED BY <1>1, QueueInvariant, PTL

\* No task that got a number disappears (queue.go:26-42), even across Close.
THEOREM QueueNothingLost == Spec => []NothingLost
<1>1. QueueInv => NothingLost BY DEF QueueInv
<1> QED BY <1>1, QueueInvariant, PTL

\* A task and a blocked Take never wait for each other (queue.go:30-42).
THEOREM QueueNoTaskWaits == Spec => []NoTaskWaitsForTaker
<1>1. QueueInv => NoTaskWaitsForTaker BY DEF QueueInv
<1> QED BY <1>1, QueueInvariant, PTL
----------------------------------------------------------------------------
(* Refinement: every step of the clients and of runQueue is a step of the  *)
(* first-in first-out queue TaskFIFO or leaves it as it is.                *)

LEMMA RefinementInit == Init => FIFO!Init
BY DEF Init, FIFO!Init

LEMMA RefinementStep ==
  ASSUME QueueInv, [Next]_qvars
  PROVE  [FIFO!Next]_(FIFO!fvars)
<1> USE DEF QueueInv, TypeOK, NoTaskWaitsForTaker, HandingOver, FIFO!fvars
<1>1. CASE UNCHANGED qvars
  BY <1>1 DEF qvars
<1>2. ASSUME NEW c \in Clients, NEW k \in Calls, Call(c, k)
      PROVE  UNCHANGED FIFO!fvars
  BY <1>2 DEF Call
<1>3. ASSUME NEW c \in Clients, Recover(c) \/ ReceiveList(c) \/ AnswerList(c)
                                \/ ReceiveTake(c) \/ CloseTake(c)
      PROVE  UNCHANGED FIFO!fvars
  BY <1>3 DEF Recover, ReceiveList, AnswerList, ReceiveTake, CloseTake, Receive
<1>4. CASE Close \/ Exit
  BY <1>4 DEF Close, Exit
<1>5. CASE Drain
  BY <1>5 DEF Drain, FIFO!Next, FIFO!Shut
<1>6. ASSUME NEW c \in Clients, ReceivePut(c)
      PROVE  FIFO!Put
  <2>1. CASE takeReqs # <<>>
    <3>1. queue = <<>> /\ srv = "range" /\ srv' = "hand" /\ i' = i + 1
          /\ UNCHANGED <<queue, taken>>
      BY <1>6, <2>1 DEF ReceivePut, Receive
    <3> QED BY <3>1 DEF FIFO!Put
  <2>2. CASE takeReqs = <<>>
    BY <1>6, <2>2 DEF ReceivePut, Receive, FIFO!Put
  <2> QED BY <2>1, <2>2
<1>7. ASSUME NEW c \in Clients, AnswerWaiting(c)
      PROVE  FIFO!Take
  <2>1. /\ srv = "hand" /\ srv' = "range" /\ queue = <<>>
        /\ taken' = Append(taken, i) /\ UNCHANGED <<queue, i>>
    BY <1>7 DEF AnswerWaiting
  <2>2. Head(<<i>>) = i /\ Tail(<<i>>) = <<>> /\ <<i>> # <<>>
    OBVIOUS
  <2> QED BY <2>1, <2>2 DEF FIFO!Take
<1>8. ASSUME NEW c \in Clients, AnswerTake(c)
      PROVE  FIFO!Take
  BY <1>8 DEF AnswerTake, FIFO!Take
<1> QED
  BY <1>1, <1>2, <1>3, <1>4, <1>5, <1>6, <1>7, <1>8
  DEF Next, RunQueue, Serve, Answer, FIFO!Next

\* The channel-based queue of queue.go implements the plain first-in
\* first-out queue that types.TaskQueue promises its callers.
THEOREM QueueRefinesFIFO == Spec => ImplementsFIFO
BY RefinementInit, RefinementStep, QueueInvariant, PTL
DEF Spec, ImplementsFIFO, FIFO!Spec
----------------------------------------------------------------------------
(* The runner, the lister and those who put tasks are clients of the queue *)
(* like any other, so that all that is proved of the queue holds of it     *)
(* here.                                                                   *)

LEMMA BgStepIsQueueStep == [BgNext]_bvars => [Next]_qvars
<1> SUFFICES ASSUME [BgNext]_bvars PROVE [Next]_qvars
  OBVIOUS
<1> USE BgAssumption DEF Calls
<1>1. CASE UNCHANGED qvars
  BY <1>1
<1>2. ASSUME NEW c \in Clients, StartBackup(c) \/ JobPut(c) \/ TaskPut(c) \/ PutDropped(c)
      PROVE  Next
  BY <1>2 DEF StartBackup, JobPut, TaskPut, PutDropped, Next, RunQueue, Serve
<1>3. CASE RunnerTake \/ ListCall
  BY <1>3 DEF RunnerTake, ListCall, Next
<1>4. CASE RunnerTook \/ ListReturn
  BY <1>4 DEF RunnerTook, ListReturn, Next, RunQueue, Answer
<1>5. CASE CloseQueue \/ QueueInternal
  BY <1>5 DEF CloseQueue, QueueInternal, Next, RunQueue, Serve
<1> QED
  BY <1>1, <1>2, <1>3, <1>4, <1>5
  DEF BgNext, bvars, RunnerStep, ListerStep, RunTaskBegin, RunTask, RunTaskEnd,
      LatestBgTasks, ListDone

LEMMA BgIsQueue == BgSpec => Spec
BY BgStepIsQueueStep, PTL DEF BgSpec, BgInit, Spec

\* The queue as the background tasks use it implements the first-in first-out
\* queue, and no task is lost or left waiting beside a waiting runner
\* (queue.go:17-48, bgtasks.go:33-61).
THEOREM BgImplementsFIFO ==
  BgSpec => ImplementsFIFO /\ []NothingLost /\ []NoTaskWaitsForTaker
BY BgIsQueue, QueueRefinesFIFO, QueueNothingLost, QueueNoTaskWaits, PTL
----------------------------------------------------------------------------
(* The order in which tasks are run and listed.                            *)

\* The runner and the lister have a call under way only where their code makes
\* one (bgtasks.go:35, api/volume.go:87).
Calling ==
  /\ pc[Runner] # "idle" => rpc = "taking"
  /\ pc[Lister] # "idle" => lpc = "list"

\* The task in hand is the last one taken, and those before it are finished.
RunnerAt ==
  LET n == Len(taken) IN
    /\ rpc \in {"loop", "taking", "took", "run", "finish", "stop"}
    /\ rpc \in {"loop", "taking"} => inHand = 0 /\ running = 0 /\ last = n
    /\ rpc = "took" => running = 0 /\ (IF inHand = 0 THEN last = n ELSE inHand = n /\ last = n - 1)
    /\ rpc \in {"run", "finish"} => n # 0 /\ inHand = n /\ running = n /\ last = n - 1
    /\ rpc = "stop" => running = 0 /\ last = n

\* A listing under way has only tasks that are taken.
ListerAt ==
  /\ listing \in Seq(Nat)
  /\ ListingInOrder
  /\ lpc \in {"latest", "list"} => \A k \in DOMAIN listing : listing[k] <= Len(taken)

BgInv == QueueInv /\ Calling /\ RunnerAt /\ ListerAt

LEMMA OneIsSeq ==
  ASSUME NEW t \in Nat
  PROVE  One(t) \in Seq(Nat) /\ Len(One(t)) = (IF t = 0 THEN 0 ELSE 1)
         /\ \A k \in 1..Len(One(t)) : One(t)[k] = t /\ k = 1 /\ t # 0
BY DEF One

\* A sequence that is put behind another whose elements are all smaller.
LEMMA InOrder ==
  ASSUME NEW s \in Seq(Nat), NEW t \in Seq(Nat), NEW n \in Nat,
         \A j, k \in 1..Len(s) : j < k => s[j] < s[k],
         \A j, k \in 1..Len(t) : j < k => t[j] < t[k],
         \A k \in 1..Len(s) : s[k] <= n,
         \A k \in 1..Len(t) : n < t[k]
  PROVE  /\ s \o t \in Seq(Nat)
         /\ \A j, k \in 1..Len(s \o t) : j < k => (s \o t)[j] < (s \o t)[k]
<1>1. /\ s \o t \in Seq(Nat) /\ Len(s \o t) = Len(s) + Len(t)
      /\ \A k \in 1..(Len(s) + Len(t)) :
           (s \o t)[k] = IF k <= Len(s) THEN s[k] ELSE t[k - Len(s)]
  BY ConcatProperties
<1>2. Len(s) \in Nat /\ Len(t) \in Nat
  OBVIOUS
<1>3. (\A k \in 1..Len(s) : s[k] \in Nat) /\ (\A k \in 1..Len(t) : t[k] \in Nat)
  BY ElementOfSeq
<1>4. ASSUME NEW j \in 1..(Len(s) + Len(t)), NEW k \in 1..(Len(s) + Len(t)), j < k
      PROVE  (s \o t)[j] < (s \o t)[k]
  <2>1. CASE k <= Len(s)
    BY <1>1, <1>2, <1>4, <2>1
  <2>2. CASE j > Len(s)
    <3>1. j - Len(s) \in 1..Len(t) /\ k - Len(s) \in 1..Len(t) /\ j - Len(s) < k - Len(s)
      BY <1>2, <1>4, <2>2
    <3>2. (s \o t)[j] = t[j - Len(s)] /\ (s \o t)[k] = t[k - Len(s)]
      BY <1>1, <1>2, <1>4, <2>2
    <3>3. t[j - Len(s)] < t[k - Len(s)]
      BY <3>1
    <3> QED BY <3>2, <3>3
  <2>3. CASE j <= Len(s) /\ k > Len(s)
    <3>1. j \in 1..Len(s) /\ k - Len(s) \in 1..Len(t)
      BY <1>2, <1>4, <2>3
    <3>2. (s \o t)[j] = s[j] /\ (s \o t)[k] = t[k - Len(s)]
      BY <1>1, <1>2, <2>3
    <3>3. s[j] <= n /\ n < t[k - Len(s)] /\ s[j] \in Nat /\ t[k - Len(s)] \in Nat
      BY <1>3, <3>1
    <3> QED BY <3>2, <3>3
  <2>4. j \in Nat /\ k \in Nat
    BY <1>2
  <2>5. k <= Len(s) \/ j > Len(s) \/ (j <= Len(s) /\ k > Len(s))
    BY <1>2, <2>4
  <2> QED BY ONLY <2>1, <2>2, <2>3, <2>5
<1> QED BY <1>1, <1>4

LEMMA BgInitInv == BgInit => BgInv
<1> SUFFICES ASSUME BgInit PROVE BgInv
  OBVIOUS
<1>1. QueueInv
  BY InitInv DEF BgInit
<1>2. Calling /\ RunnerAt
  BY BgAssumption DEF BgInit, Init, Calling, RunnerAt
<1>3. ListerAt
  BY DEF BgInit, ListerAt, ListingInOrder
<1> QED BY <1>1, <1>2, <1>3 DEF BgInv

\* The steps of the queue and of those who put tasks.
LEMMA OthersInv ==
  ASSUME BgInv, QueueInv', UNCHANGED <<runVars, listVars>>,
         \/ \E c \in Clients : StartBackup(c) \/ JobPut(c) \/ TaskPut(c) \/ PutDropped(c)
         \/ CloseQueue \/ QueueInternal
  PROVE  BgInv'
<1>1. taken' = taken
  BY DEF StartBackup, JobPut, TaskPut, PutDropped, CloseQueue, QueueInternal, Call, ReceivePut,
         Recover, Close, ReceiveList, ReceiveTake, Drain, Exit
<1>2. Calling'
  <2>1. \A c \in {Runner, Lister} : pc'[c] # "idle" => pc[c] # "idle"
    BY BgAssumption
    DEF BgInv, QueueInv, TypeOK, StartBackup, JobPut, TaskPut, PutDropped, CloseQueue, QueueInternal,
        Call, ReceivePut, Receive, Recover, Close, ReceiveList, ReceiveTake, Drain, Exit
  <2> QED BY <2>1 DEF BgInv, Calling, runVars, listVars
<1>3. RunnerAt' /\ ListerAt'
  BY <1>1 DEF BgInv, RunnerAt, ListerAt, ListingInOrder, runVars, listVars
<1> QED BY <1>2, <1>3 DEF BgInv

LEMMA RunnerInv ==
  ASSUME BgInv, QueueInv', RunnerStep
  PROVE  BgInv'
<1>0. /\ pc \in [Clients -> States] /\ Runner \in Clients /\ Lister \in Clients /\ Runner # Lister
      /\ taken \in Seq(Nat) /\ Len(taken) \in Nat
  BY BgAssumption DEF BgInv, QueueInv, TypeOK
<1>1. CASE RunnerTake
  <2>1. pc'[Lister] = pc[Lister] /\ UNCHANGED <<taken, inHand, running, last, listVars>>
        /\ rpc = "loop" /\ rpc' = "taking"
    BY <1>0, <1>1 DEF RunnerTake, Call
  <2> QED BY <2>1 DEF BgInv, Calling, RunnerAt, ListerAt, ListingInOrder, listVars
<1>2. CASE RunnerTook
  <2>1. pc[Runner] # "idle"
    BY <1>2 DEF RunnerTook, AnswerTake, AnswerWaiting, CloseTake, Recover, Calls,
               BgInv, QueueInv, TypeOK, NoTaskWaitsForTaker, HandingOver
  <2>2. rpc = "taking" /\ running = 0 /\ last = Len(taken)
    BY <2>1 DEF BgInv, Calling, RunnerAt
  <2>3. /\ pc'[Runner] = "idle" /\ pc'[Lister] = pc[Lister] /\ rpc' = "took"
        /\ UNCHANGED <<running, last, listVars>>
    BY <1>0, <1>2 DEF RunnerTook, AnswerTake, AnswerWaiting, CloseTake, Recover
  <2>4. \/ inHand' = 0 /\ taken' = taken
        \/ inHand' = Len(taken) + 1 /\ Len(taken') = Len(taken) + 1
    <3>1. CASE AnswerTake(Runner) /\ inHand' = Head(queue)
      <4>1. queue \in Seq(Nat) /\ queue # <<>> /\ taken' = Append(taken, Head(queue))
        BY <3>1 DEF AnswerTake, BgInv, QueueInv, TypeOK, HandingOver
      <4>2. Head(queue) = queue[1] /\ 1 \in DOMAIN queue /\ Head(queue) \in Nat
        BY <4>1
      <4>3. Head(queue) = Len(taken) + 1
        BY <4>2, <1>0 DEF BgInv, QueueInv, NothingLost
      <4> QED BY <1>0, <3>1, <4>1, <4>2, <4>3, AppendProperties
    <3>2. CASE AnswerWaiting(Runner) /\ inHand' = i
      <4>1. i \in Nat /\ i = Len(taken) + 1 /\ taken' = Append(taken, i)
        BY <1>0, <3>2 DEF AnswerWaiting, BgInv, QueueInv, TypeOK, NothingLost, HandingOver
      <4> QED BY <1>0, <3>2, <4>1, AppendProperties
    <3>3. CASE (CloseTake(Runner) \/ Recover(Runner)) /\ inHand' = 0
      BY <3>3 DEF CloseTake, Recover
    <3> QED BY <1>2, <3>1, <3>2, <3>3 DEF RunnerTook
  <2>5. Calling' /\ RunnerAt'
    BY <1>0, <2>2, <2>3, <2>4 DEF BgInv, Calling, RunnerAt, listVars
  <2>6. ListerAt'
    <3>1. Len(taken) <= Len(taken')
      BY <1>0, <2>4
    <3>2. \A k \in DOMAIN listing : listing[k] \in Nat
      BY DEF BgInv, ListerAt
    <3> QED BY <1>0, <2>3, <2>4, <3>1, <3>2 DEF BgInv, ListerAt, ListingInOrder, listVars
  <2> QED BY <2>5, <2>6 DEF BgInv
<1>3. CASE RunTaskBegin \/ RunTask \/ RunTaskEnd
  <2>1. UNCHANGED <<qvars, listVars>>
    BY <1>3 DEF RunTaskBegin, RunTask, RunTaskEnd
  <2>2. Calling'
    BY <1>3, <2>1 DEF RunTaskBegin, RunTask, RunTaskEnd, BgInv, Calling, qvars, listVars
  <2>3. RunnerAt'
    BY <1>0, <1>3, <2>1 DEF RunTaskBegin, RunTask, RunTaskEnd, BgInv, RunnerAt, qvars
  <2>4. ListerAt'
    BY <2>1 DEF BgInv, ListerAt, ListingInOrder, qvars, listVars
  <2> QED BY <2>2, <2>3, <2>4 DEF BgInv
<1> QED BY <1>1, <1>2, <1>3 DEF RunnerStep

LEMMA ListerInv ==
  ASSUME BgInv, QueueInv', ListerStep
  PROVE  BgInv'
<1>0. /\ pc \in [Clients -> States] /\ Runner \in Clients /\ Lister \in Clients /\ Runner # Lister
      /\ taken \in Seq(Nat) /\ Len(taken) \in Nat /\ queue \in Seq(Nat) /\ listing \in Seq(Nat)
      /\ DOMAIN listing = 1..Len(listing) /\ DOMAIN queue = 1..Len(queue)
  BY BgAssumption DEF BgInv, QueueInv, TypeOK, ListerAt
<1>1. /\ taken' = taken /\ pc'[Runner] = pc[Runner] /\ UNCHANGED runVars
  BY <1>0 DEF ListerStep, LatestBgTasks, ListCall, ListReturn, ListDone, Call, AnswerList, Recover,
              qvars, runVars
<1>2. RunnerAt'
  BY <1>1 DEF BgInv, RunnerAt, runVars
<1>3. Calling'
  <2>1. pc[Lister] # "idle" => lpc = "list"
    BY DEF BgInv, Calling
  <2>2. pc'[Lister] # "idle" => lpc' = "list"
    BY <1>0, <2>1 DEF ListerStep, LatestBgTasks, ListCall, ListReturn, ListDone, Call, AnswerList, Recover, qvars
  <2> QED BY <1>1, <2>2 DEF BgInv, Calling, runVars
<1>4. ListerAt'
  <2>1. CASE LatestBgTasks
    <3>1. /\ running \in Nat /\ last \in Nat /\ last <= Len(taken) /\ running <= Len(taken)
          /\ running # 0 => last = running - 1
      BY <1>0 DEF BgInv, RunnerAt
    <3>2. /\ One(last) \in Seq(Nat) /\ One(running) \in Seq(Nat)
          /\ \A k \in 1..Len(One(last)) : One(last)[k] = last /\ k = 1
          /\ \A k \in 1..Len(One(running)) : One(running)[k] = running /\ k = 1 /\ running # 0
      BY <3>1, OneIsSeq
    <3>3. listing' = One(last) \o One(running)
      BY <2>1 DEF LatestBgTasks
    <3>4. /\ \A j, k \in 1..Len(One(last)) : j < k => One(last)[j] < One(last)[k]
          /\ \A j, k \in 1..Len(One(running)) : j < k => One(running)[j] < One(running)[k]
          /\ \A k \in 1..Len(One(last)) : One(last)[k] <= last
          /\ \A k \in 1..Len(One(running)) : last < One(running)[k]
      BY <3>1, <3>2
    <3>5. /\ listing' \in Seq(Nat)
          /\ \A j, k \in 1..Len(listing') : j < k => listing'[j] < listing'[k]
      BY <3>1, <3>2, <3>3, <3>4, InOrder
    <3>6. \A k \in 1..Len(listing') : listing'[k] <= Len(taken)
      <4>1. /\ Len(listing') = Len(One(last)) + Len(One(running))
            /\ \A k \in 1..Len(listing') : listing'[k] =
                 IF k <= Len(One(last)) THEN One(last)[k] ELSE One(running)[k - Len(One(last))]
        BY <3>2, <3>3, ConcatProperties
      <4>2. Len(One(last)) \in Nat /\ Len(One(running)) \in Nat
        BY <3>2
      <4>3. ASSUME NEW k \in 1..Len(listing') PROVE listing'[k] \in {last, running}
        <5>1. CASE k <= Len(One(last))
          BY <3>2, <4>1, <4>2, <5>1
        <5>2. CASE k > Len(One(last))
          <6>1. k - Len(One(last)) \in 1..Len(One(running))
            BY <4>1, <4>2, <5>2
          <6> QED BY <3>2, <4>1, <4>2, <5>2, <6>1
        <5> QED BY <4>1, <4>2, <5>1, <5>2
      <4> QED BY <3>1, <4>3
    <3> QED BY <1>1, <3>5, <3>6 DEF ListerAt, ListingInOrder
  <2>2. CASE ListCall
    BY <1>1, <2>2 DEF ListCall, BgInv, ListerAt, ListingInOrder
  <2>3. CASE ListReturn
    <3>1. CASE Recover(Lister) /\ UNCHANGED listing
      BY <1>1, <2>3, <3>1 DEF ListReturn, BgInv, ListerAt, ListingInOrder
    <3>2. CASE AnswerList(Lister) /\ listing' = listing \o queue
      <4>1. lpc = "list" /\ srv = "list" /\ lpc' = "done"
        BY <2>3, <3>2 DEF ListReturn, AnswerList, BgInv, Calling
      <4>2. /\ \A j, k \in 1..Len(listing) : j < k => listing[j] < listing[k]
            /\ \A k \in 1..Len(listing) : listing[k] <= Len(taken)
        BY <1>0, <4>1 DEF BgInv, ListerAt, ListingInOrder
      <4>3. \A k \in 1..Len(queue) : queue[k] = Len(taken) + k
        BY <1>0 DEF BgInv, QueueInv, NothingLost
      <4>4. /\ \A j, k \in 1..Len(queue) : j < k => queue[j] < queue[k]
            /\ \A k \in 1..Len(queue) : Len(taken) < queue[k]
        BY <1>0, <4>3, SMTT(30)
      <4>5. /\ listing \o queue \in Seq(Nat)
            /\ \A j, k \in 1..Len(listing \o queue) :
                 j < k => (listing \o queue)[j] < (listing \o queue)[k]
        BY <1>0, <4>2, <4>4, InOrder, ZenonT(30)
      <4>6. listing' \in Seq(Nat) /\ lpc' \notin {"latest", "list"}
        BY <3>2, <4>1, <4>5
      <4>7. \A j, k \in 1..Len(listing') : j < k => listing'[j] < listing'[k]
        BY <3>2, <4>5
      <4>8. ListingInOrder'
        BY <4>6, <4>7 DEF ListingInOrder
      <4> QED BY <4>6, <4>8 DEF ListerAt
    <3> QED BY <2>3, <3>1, <3>2 DEF ListReturn
  <2>4. CASE ListDone
    BY <2>4 DEF ListDone, ListerAt, ListingInOrder
  <2> QED BY <2>1, <2>2, <2>3, <2>4 DEF ListerStep
<1> QED BY <1>2, <1>3, <1>4 DEF BgInv

LEMMA BgNextInv == BgInv /\ [BgNext]_bvars => BgInv'
<1> SUFFICES ASSUME BgInv, [BgNext]_bvars PROVE BgInv'
  OBVIOUS
<1>0. QueueInv'
  BY NextInv, BgStepIsQueueStep DEF BgInv
<1>1. CASE UNCHANGED bvars
  BY <1>0, <1>1 DEF bvars, qvars, runVars, listVars, BgInv, Calling, RunnerAt, ListerAt, ListingInOrder
<1>2. CASE \/ \E c \in Clients : StartBackup(c) \/ JobPut(c) \/ TaskPut(c) \/ PutDropped(c)
           \/ CloseQueue \/ QueueInternal
  <2>1. UNCHANGED <<runVars, listVars>>
    BY <1>2 DEF StartBackup, JobPut, TaskPut, PutDropped, CloseQueue, QueueInternal
  <2> QED BY <1>0, <1>2, <2>1, OthersInv
<1> QED BY <1>0, <1>1, <1>2, RunnerInv, ListerInv DEF BgNext

LEMMA BgInvariant == BgSpec => []BgInv
BY BgInitInv, BgNextInv, PTL DEF BgSpec

\* The listing of the API shows each task at most once and in order, although
\* it is put together from two readings while the tasks move on
\* (api/volume.go:87).
THEOREM BgListingInOrder == BgSpec => []ListingInOrder
<1>1. BgInv => ListingInOrder
  BY DEF BgInv, ListerAt
<1> QED BY <1>1, BgInvariant, PTL

\* Tasks finish one at a time and in the order of their numbers, none skipped
\* and none twice (bgtasks.go:33-61).
THEOREM BgFinishInOrder == BgSpec => FinishInOrder
<1>1. BgInv /\ [BgNext]_bvars => [last' # last => last' = last + 1]_last
  <2> SUFFICES ASSUME BgInv, BgNext, last' # last PROVE last' = last + 1
    BY DEF bvars, runVars
  <2>1. RunTaskEnd
    BY DEF BgNext, StartBackup, JobPut, TaskPut, PutDropped, CloseQueue, QueueInternal, RunnerStep,
           ListerStep, RunnerTake, RunnerTook, RunTaskBegin, RunTask, LatestBgTasks, ListCall,
           ListReturn, ListDone, runVars
  <2>2. Len(taken) \in Nat
    BY DEF BgInv, QueueInv, TypeOK
  <2> QED BY <2>1, <2>2 DEF RunTaskEnd, BgInv, RunnerAt
<1> QED BY <1>1, BgInvariant, PTL DEF BgSpec, FinishInOrder
=============================================================================
