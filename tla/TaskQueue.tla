----------------------------- MODULE TaskQueue -----------------------------
(***************************************************************************)
(* The background task queue of a volume's controller, controller/queue.go *)
(*                                                                         *)
(* A queue is one goroutine, runQueue, that receives requests on the       *)
(* unbuffered channel reqCh.  A client (the runner of the tasks, an API    *)
(* handler, a cron job) calls Put, Take or List: it sends its request on   *)
(* reqCh and, for Take and List, receives the answer on a channel of its   *)
(* own.  Close closes reqCh; a client that sends on the closed channel     *)
(* panics, recovers and returns nil.                                       *)
(*                                                                         *)
(* A task is represented by the number runQueue gives it when it is put.   *)
(* The goroutine blocks while it hands an answer over, so an answer is a   *)
(* step of its own and other clients move in between.                      *)
(***************************************************************************)
EXTENDS Naturals, Sequences

CONSTANTS Clients,  \* the goroutines that call the queue
          MaxNum    \* bound: no Put is called after MaxNum tasks were put

ASSUME QueueAssumption == MaxNum \in Nat

VARIABLES
  queue,      \* tq.queue, the numbers of the tasks not taken yet
  takeReqs,   \* tq.takeReqs, the clients blocked in Take
  i,          \* the counter local to runQueue
  closed,     \* reqCh is closed
  srv,        \* where runQueue is: receiving, or blocked on an answer
  pc,         \* where each client is
  taken       \* history: the numbers received by Take, in order

qvars == <<queue, takeReqs, i, closed, srv, pc, taken>>

Calls == {"put", "take", "list"}

\* A client is idle, blocked in the send of a call, waiting in takeReqs, or
\* served: runQueue is blocked on sending it the answer.
States == {"idle", "wait", "served"} \cup Calls

TypeOK ==
  /\ queue \in Seq(Nat)
  /\ takeReqs \in Seq(Clients)
  /\ i \in Nat
  /\ closed \in BOOLEAN
  /\ srv \in {"range", "list", "hand", "give", "drain", "exit"}
  /\ pc \in [Clients -> States]
  /\ taken \in Seq(Nat)

Init ==
  /\ queue = <<>> /\ takeReqs = <<>> /\ i = 0 /\ closed = FALSE
  /\ srv = "range" /\ pc = [c \in Clients |-> "idle"] /\ taken = <<>>
----------------------------------------------------------------------------
(* The clients: Put, Take, List and Close.                                 *)

\* A client calls Put, Take or List and blocks in `tq.reqCh <- req`.
Call(c, k) ==
  /\ pc[c] = "idle"
  /\ k = "put" => i < MaxNum
  /\ pc' = [pc EXCEPT ![c] = k]
  /\ UNCHANGED <<queue, takeReqs, i, closed, srv, taken>>

\* The send panics because reqCh is closed; the deferred recover makes the
\* call return nil.
Recover(c) ==
  /\ pc[c] \in Calls /\ closed
  /\ pc' = [pc EXCEPT ![c] = "idle"]
  /\ UNCHANGED <<queue, takeReqs, i, closed, srv, taken>>

\* A second Close panics and recovers: it changes nothing.
Close ==
  /\ closed' = TRUE
  /\ UNCHANGED <<queue, takeReqs, i, srv, pc, taken>>
----------------------------------------------------------------------------
(* The goroutine runQueue.  A request is received only in "range".         *)

Receive(c, k) == srv = "range" /\ ~closed /\ pc[c] = k

\* case listReq: runQueue blocks in `r <- tq.queue`.
ReceiveList(c) ==
  /\ Receive(c, "list")
  /\ pc' = [pc EXCEPT ![c] = "served"]
  /\ srv' = "list"
  /\ UNCHANGED <<queue, takeReqs, i, closed, taken>>

\* List returns tq.queue.
AnswerList(c) ==
  /\ srv = "list" /\ pc[c] = "served"
  /\ pc' = [pc EXCEPT ![c] = "idle"]
  /\ srv' = "range"
  /\ UNCHANGED <<queue, takeReqs, i, closed, taken>>

\* Mutant: the blocked Takes are not looked at.
ReceivePutQueued(c) ==
  /\ Receive(c, "put")
  /\ i' = i + 1 /\ queue' = Append(queue, i + 1)
  /\ pc' = [pc EXCEPT ![c] = "idle"]
  /\ UNCHANGED <<takeReqs, closed, srv, taken>>

\* case putReq: the task gets the next number; Put has returned.  The task
\* goes to the first blocked Take if there is one, else to the queue.
ReceivePut(c) ==
  /\ Receive(c, "put")
  /\ i' = i + 1
  /\ pc' = [pc EXCEPT ![c] = "idle"]
  /\ IF takeReqs # <<>>
     THEN srv' = "hand" /\ UNCHANGED queue
     ELSE queue' = Append(queue, i + 1) /\ UNCHANGED srv
  /\ UNCHANGED <<takeReqs, closed, taken>>

\* The first blocked Take returns the task that has just been put.
AnswerWaiting(c) ==
  /\ srv = "hand" /\ c = Head(takeReqs)
  /\ pc' = [pc EXCEPT ![c] = "idle"]
  /\ taken' = Append(taken, i)
  /\ takeReqs' = Tail(takeReqs)
  /\ srv' = "range"
  /\ UNCHANGED <<queue, i, closed>>

\* Mutant: runQueue itself waits for a task.
ReceiveTakeBlocks(c) ==
  /\ Receive(c, "take") /\ srv' = "give"
  /\ pc' = [pc EXCEPT ![c] = IF queue # <<>> THEN "served" ELSE "wait"]
  /\ UNCHANGED <<queue, takeReqs, i, closed, taken>>

\* case takeReq: the head of the queue is handed over, or the client waits.
ReceiveTake(c) ==
  /\ Receive(c, "take")
  /\ IF queue # <<>>
     THEN /\ srv' = "give" /\ pc' = [pc EXCEPT ![c] = "served"]
          /\ UNCHANGED takeReqs
     ELSE /\ takeReqs' = Append(takeReqs, c) /\ pc' = [pc EXCEPT ![c] = "wait"]
          /\ UNCHANGED srv
  /\ UNCHANGED <<queue, i, closed, taken>>

\* Mutant: Take returns the last task put.
AnswerTakeLast(c) ==
  /\ srv = "give" /\ pc[c] = "served"
  /\ pc' = [pc EXCEPT ![c] = "idle"]
  /\ taken' = Append(taken, queue[Len(queue)])
  /\ queue' = SubSeq(queue, 1, Len(queue) - 1)
  /\ srv' = "range"
  /\ UNCHANGED <<takeReqs, i, closed>>

\* Mutant: the task taken stays in the queue.
AnswerTakeKept(c) ==
  /\ srv = "give" /\ pc[c] = "served"
  /\ pc' = [pc EXCEPT ![c] = "idle"]
  /\ taken' = Append(taken, Head(queue))
  /\ srv' = "range"
  /\ UNCHANGED <<queue, takeReqs, i, closed>>

\* Take returns the head of the queue.
AnswerTake(c) ==
  /\ srv = "give" /\ pc[c] = "served"
  /\ pc' = [pc EXCEPT ![c] = "idle"]
  /\ taken' = Append(taken, Head(queue))
  /\ queue' = Tail(queue)
  /\ srv' = "range"
  /\ UNCHANGED <<takeReqs, i, closed>>

\* The range over the closed reqCh ends.
Drain ==
  /\ srv = "range" /\ closed
  /\ srv' = "drain"
  /\ UNCHANGED <<queue, takeReqs, i, closed, pc, taken>>

\* `close(r)` for the first Take still blocked, which returns nil.
CloseTake(c) ==
  /\ srv = "drain" /\ takeReqs # <<>> /\ c = Head(takeReqs)
  /\ pc' = [pc EXCEPT ![c] = "idle"]
  /\ takeReqs' = Tail(takeReqs)
  /\ UNCHANGED <<queue, i, closed, srv, taken>>

\* runQueue returns: the tasks still in tq.queue are abandoned.
Exit ==
  /\ srv = "drain" /\ takeReqs = <<>>
  /\ srv' = "exit"
  /\ UNCHANGED <<queue, takeReqs, i, closed, pc, taken>>

Serve(c) == ReceiveList(c) \/ ReceivePut(c) \/ ReceiveTake(c)

Answer(c) == AnswerList(c) \/ AnswerWaiting(c) \/ AnswerTake(c) \/ CloseTake(c)

RunQueue ==
  \/ \E c \in Clients : Serve(c) \/ Answer(c)
  \/ Drain \/ Exit

Next ==
  \/ \E c \in Clients, k \in Calls : Call(c, k)
  \/ \E c \in Clients : Recover(c)
  \/ Close
  \/ RunQueue

\* The goroutine runs whenever it can, a blocked sender is served in turn (Go
\* queues the senders of a channel) and a panicking client returns.
Fairness ==
  /\ WF_qvars(Drain \/ Exit \/ \E c \in Clients : Answer(c))
  /\ \A c \in Clients : SF_qvars(Serve(c)) /\ WF_qvars(Recover(c))

Spec == Init /\ [][Next]_qvars
FairSpec == Spec /\ Fairness
----------------------------------------------------------------------------
(* What the queue promises.                                                *)

\* Tasks are received by Take exactly once and in the order in which runQueue
\* numbered them (queue.go:27-42): the k-th task received is task k, whoever
\* receives it and however the calls interleave.
TakenInOrder == \A k \in DOMAIN taken : taken[k] = k

\* No numbered task is lost, not even by a Close: it has been received, is
\* being handed to a blocked Take, or is still in tq.queue in its order.
NothingLost ==
  /\ i = Len(taken) + Len(queue) + (IF srv = "hand" THEN 1 ELSE 0)
  /\ \A k \in DOMAIN queue : queue[k] = Len(taken) + k

\* A task never sits in tq.queue while a client is blocked in Take
\* (queue.go:30-35 and 37-42), and each blocked client is registered once.
NoTaskWaitsForTaker ==
  /\ queue # <<>> => takeReqs = <<>>
  /\ \A j, k \in DOMAIN takeReqs : takeReqs[j] = takeReqs[k] => j = k
  /\ \A k \in DOMAIN takeReqs : pc[takeReqs[k]] = "wait"

FIFO == INSTANCE TaskFIFO
          WITH q <- IF srv = "hand" THEN <<i>> ELSE queue,
               n <- i, out <- taken, open <- srv \notin {"drain", "exit"}

\* The goroutine and its rendezvous implement a plain first-in first-out
\* queue that is open until runQueue notices the Close.
ImplementsFIFO == FIFO!Spec
=============================================================================
