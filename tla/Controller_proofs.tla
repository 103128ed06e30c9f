--------------------------- MODULE Controller_proofs ---------------------------
(***************************************************************************)
(* Proofs about module Controller.  The inductive invariant IInv adds to   *)
(* the properties that the runs check how far the two goroutines lag       *)
(* behind the cache: versions of one node are notified in order, what the  *)
(* handler holds is not newer than what waits for it, and nothing that was *)
(* queued is newer than what the handler holds.                            *)
(***************************************************************************)
EXTENDS Controller, TLAPS

-----------------------------------------------------------------------------
(* Sequences: what Append and Tail do to the elements. *)

\* Appending an item adds it at the end and moves nothing.
LEMMA AppendFacts ==
    ASSUME NEW S, NEW s \in Seq(S), NEW e \in S
    PROVE  /\ Append(s, e) \in Seq(S)
           /\ Len(Append(s, e)) = Len(s) + 1
           /\ DOMAIN Append(s, e) = 1 .. Len(s) + 1
           /\ \A i \in 1 .. Len(s) : Append(s, e)[i] = s[i]
           /\ Append(s, e)[Len(s) + 1] = e
           /\ Range(Append(s, e)) = Range(s) \union {e}
<1>1. /\ Append(s, e) \in Seq(S)
      /\ Len(Append(s, e)) = Len(s) + 1
      /\ DOMAIN Append(s, e) = 1 .. Len(s) + 1
      /\ \A i \in 1 .. Len(s) : Append(s, e)[i] = s[i]
      /\ Append(s, e)[Len(s) + 1] = e
  OBVIOUS
<1>2. DOMAIN s = 1 .. Len(s) /\ Len(s) \in Nat
  OBVIOUS
<1>3. Range(Append(s, e)) = Range(s) \union {e}
  <2>1. ASSUME NEW x \in Range(Append(s, e))
        PROVE  x \in Range(s) \union {e}
    <3>1. PICK i \in 1 .. Len(s) + 1 : x = Append(s, e)[i]
      BY <1>1, <2>1 DEF Range
    <3>2. CASE i = Len(s) + 1
      BY <1>1, <3>1, <3>2
    <3>3. CASE i \in 1 .. Len(s)
      BY <1>1, <1>2, <3>1, <3>3 DEF Range
    <3>4. QED
      BY <1>2, <3>2, <3>3
  <2>2. ASSUME NEW x \in Range(s)
        PROVE  x \in Range(Append(s, e))
    <3>1. PICK i \in 1 .. Len(s) : x = s[i]
      BY <1>2, <2>2 DEF Range
    <3>2. i \in 1 .. Len(s) + 1 /\ x = Append(s, e)[i]
      BY <1>1, <1>2, <3>1
    <3>3. QED
      BY <1>1, <3>2 DEF Range
  <2>3. e \in Range(Append(s, e))
    <3>1. Len(s) + 1 \in DOMAIN Append(s, e)
      BY <1>1, <1>2
    <3>2. QED
      BY <1>1, <3>1 DEF Range
  <2>4. QED
    BY <2>1, <2>2, <2>3
<1>4. QED
  BY <1>1, <1>3

\* Taking the head off shifts the other items by one.
LEMMA TailFacts ==
    ASSUME NEW S, NEW s \in Seq(S), s # <<>>
    PROVE  /\ Head(s) \in S /\ Head(s) = s[1] /\ 1 \in DOMAIN s
           /\ Tail(s) \in Seq(S)
           /\ Len(s) \in Nat \ {0} /\ Len(Tail(s)) = Len(s) - 1
           /\ DOMAIN Tail(s) = 1 .. Len(s) - 1 /\ DOMAIN s = 1 .. Len(s)
           /\ \A i \in 1 .. Len(s) - 1 : Tail(s)[i] = s[i + 1]
           /\ Range(s) = Range(Tail(s)) \union {Head(s)}
           /\ Range(s) \subseteq S
<1>1. /\ Head(s) \in S /\ Head(s) = s[1] /\ 1 \in DOMAIN s
      /\ Tail(s) \in Seq(S)
      /\ Len(s) \in Nat \ {0} /\ Len(Tail(s)) = Len(s) - 1
      /\ DOMAIN Tail(s) = 1 .. Len(s) - 1 /\ DOMAIN s = 1 .. Len(s)
      /\ \A i \in 1 .. Len(s) - 1 : Tail(s)[i] = s[i + 1]
  OBVIOUS
<1>2. Range(s) \subseteq S
  BY DEF Range
<1>3. ASSUME NEW x \in Range(s)
      PROVE  x \in Range(Tail(s)) \union {Head(s)}
  <2>1. PICK i \in 1 .. Len(s) : x = s[i]
    BY <1>1, <1>3 DEF Range
  <2>2. CASE i = 1
    BY <1>1, <2>1, <2>2
  <2>3. CASE i # 1
    <3>1. i - 1 \in 1 .. Len(s) - 1 /\ (i - 1) + 1 = i
      BY <1>1, <2>3
    <3>2. i - 1 \in DOMAIN Tail(s) /\ Tail(s)[i - 1] = x
      BY <1>1, <2>1, <3>1
    <3>3. QED
      BY <3>2 DEF Range
  <2>4. QED
    BY <2>2, <2>3
<1>4. ASSUME NEW x \in Range(Tail(s))
      PROVE  x \in Range(s)
  <2>1. PICK i \in 1 .. Len(s) - 1 : x = Tail(s)[i]
    BY <1>1, <1>4 DEF Range
  <2>2. i + 1 \in DOMAIN s /\ x = s[i + 1]
    BY <1>1, <2>1
  <2>3. QED
    BY <2>2 DEF Range
<1>5. Head(s) \in Range(s)
  BY <1>1 DEF Range
<1>6. QED
  BY <1>1, <1>2, <1>3, <1>4, <1>5

-----------------------------------------------------------------------------
(* The invariant. *)

\* The counters of the two loops, and which locals are in use.
Counters ==
    /\ hpc = "poll" => htries > 0
    /\ wpc \in {"poll", "pollAll"} => wtries > 0
    /\ wpc = "idle" => reboots = 0
    /\ wpc = "reboot" => reboots < RebootRetries

TypeInv == TypeOK /\ Counters

\* What a goroutine works on is known to the queue.
Holders ==
    /\ wpc # "idle" => wobj \in processing
    /\ hpc = "mark" => hobj \in Entries \union processing

\* The two halves of the work queue agree, which Add and Get rely on: no
\* entry is queued twice or again, and what is dirty without being queued is
\* with the worker for good.
QueueDiscipline ==
    /\ \A i, j \in DOMAIN queue : queue[i] = queue[j] => i = j
    /\ Entries \intersect processing = {}
    /\ Entries \subseteq dirty
    /\ dirty \ Entries \subseteq processing

\* o is not newer than the cache, nor than what the handler gets next.
Overtaken(o) ==
    /\ o.rev <= latest[o.node].rev
    /\ \A i \in 1 .. Len(pending) :
          pending[i].node = o.node => o.rev <= pending[i].rev

CacheInOrder ==
    \A n \in Nodes : latest[n].node = n /\ latest[n].since <= latest[n].rev

PendingInOrder ==
    /\ \A i \in 1 .. Len(pending) :
          pending[i].rev <= latest[pending[i].node].rev
    /\ \A i, j \in 1 .. Len(pending) :
          i < j /\ pending[i].node = pending[j].node
             => pending[i].rev <= pending[j].rev

\* How far the goroutines lag behind the cache: the notifications of a node
\* arrive in the order of its versions, none is newer than the cache, and what
\* was queued or handed over is not newer than what the handler has or gets.
InOrder ==
    /\ CacheInOrder
    /\ PendingInOrder
    /\ hpc # "idle" => Overtaken(hobj)
    /\ \A o \in Entries \union processing :
          /\ Overtaken(o)
          /\ hpc # "idle" /\ hobj.node = o.node => o.rev <= hobj.rev

IInv ==
    /\ TypeInv
    /\ QueueDiscipline
    /\ InOrder
    /\ Holders
    /\ UnmarkJustified
    /\ FirstEntryStaysMarked
    /\ MarkWasOffered

\* Next by the actions it consists of, with the four ends of a process as one.
LEMMA NextCases ==
    ASSUME [Next]_vars
    PROVE  \/ UNCHANGED vars
           \/ HandleUpdate \/ Enqueue \/ AlreadyMarked \/ Mark \/ HandlerPoll
           \/ HandlerLookup \/ HandlerFoundMark \/ HandlerUnmark
           \/ Get \/ Reboot \/ RebootFails \/ WorkerPoll \/ Replace
           \/ WorkerPollAll \/ WorkerUnmark
           \/ \E n \in Nodes : ClusterStep(n) /\ UNCHANGED processVars
           \/ Crash /\ (UNCHANGED kills \/ (kills < MaxKills /\ kills' = kills + 1))
<1>1. HandlerPanic \/ WorkerPanic \/ MapRace => Crash /\ UNCHANGED kills
  BY DEF HandlerPanic, WorkerPanic, MapRace
<1>2. Killed => Crash /\ kills < MaxKills /\ kills' = kills + 1
  BY DEF Killed
<1>3. QED
  BY <1>1, <1>2 DEF Next, HandlerStep, WorkerStep, EnvStep

-----------------------------------------------------------------------------
(* Types. *)

LEMMA InitType == Init => TypeInv
<1>1. SUFFICES ASSUME Init PROVE TypeInv
  OBVIOUS
<1>2. InformerTypeOK
  <2>1. aged \in [Nodes -> 0 .. MaxRev]
    BY <1>1, InformerAssumption DEF Init, InformerInit
  <2>2. QED
    BY <1>1, <2>1 DEF Init, InformerInit, InformerTypeOK
<1>3. queue \in Seq(Object) /\ dirty \subseteq Object /\ processing \subseteq Object
  BY <1>1 DEF Init, MemoryInit, QueueInit
<1>4. enqueueMap \subseteq Nodes /\ lock \in BOOLEAN
  BY <1>1 DEF Init, MemoryInit
<1>5. /\ hpc = "idle" /\ hobj = None /\ htries \in 0 .. PollTries
      /\ wpc = "idle" /\ wobj = None /\ wtries \in 0 .. PollTries
      /\ reboots = 0 /\ reboots \in 0 .. RebootRetries /\ kills \in 0 .. MaxKills
  BY <1>1, ControllerAssumption DEF Init, MemoryInit
<1>6. TypeOK
  BY <1>2, <1>3, <1>4, <1>5 DEF TypeOK, HandlerPCs, WorkerPCs
<1>7. Counters
  BY <1>5, ControllerAssumption DEF Counters
<1>8. QED
  BY <1>6, <1>7 DEF TypeInv

\* The informer's part of the types, under every step of the cluster.
LEMMA ClusterType ==
    ASSUME InformerTypeOK, NEW n \in Nodes, ClusterStep(n)
    PROVE  InformerTypeOK'
<1> USE DEF InformerTypeOK
<1>1. latest[n] \in Object /\ latest[n].rev \in Revs /\ latest[n].ready \in BOOLEAN
  BY DEF Object
<1>2. CASE Flip(n)
  <2>1. latest[n].rev + 1 \in Revs
    BY <1>1, <1>2, InformerAssumption DEF Flip, MayChange, Revs
  <2>2. [node |-> n, rev |-> latest[n].rev + 1, since |-> latest[n].rev + 1,
         ready |-> ~latest[n].ready] \in Object
    BY <1>1, <2>1 DEF Object
  <2>3. latest' \in [Nodes -> Object]
    BY <1>2, <2>2 DEF Flip
  <2>4. QED
    BY <1>2, <2>3 DEF Flip, Notify
<1>3. CASE Touch(n)
  <2>1. latest[n].rev + 1 \in Revs
    BY <1>1, <1>3, InformerAssumption DEF Touch, MayChange, Revs
  <2>2. [latest[n] EXCEPT !.rev = latest[n].rev + 1] \in Object
    BY <1>1, <2>1 DEF Object
  <2>3. latest' = [latest EXCEPT ![n] = [latest[n] EXCEPT !.rev = latest[n].rev + 1]]
    BY <1>3 DEF Touch
  <2>4. latest' \in [Nodes -> Object]
    BY <2>2, <2>3
  <2>5. QED
    BY <1>3, <2>4 DEF Touch, Notify
<1>4. CASE Resync(n)
  BY <1>1, <1>4 DEF Resync, Notify
<1>5. CASE Age(n)
  <2>1. latest[n].since \in 1 .. MaxRev /\ aged[n] \in 0 .. MaxRev
    BY <1>1 DEF Object, Revs
  <2>2. PICK k \in aged[n] + 1 .. latest[n].since :
            aged' = [aged EXCEPT ![n] = k]
    BY <1>5 DEF Age
  <2>3. k \in 0 .. MaxRev
    BY <2>1, <2>2, InformerAssumption
  <2>4. QED
    BY <1>5, <2>2, <2>3 DEF Age
<1>6. CASE Leave(n)
  BY <1>6 DEF Leave
<1>7. CASE Join(n)
  <2>1. latest[n].rev + 1 \in Revs
    BY <1>1, <1>7, InformerAssumption DEF Join, MayChange, Revs
  <2>2. \A b \in BOOLEAN :
           [node |-> n, rev |-> latest[n].rev + 1, since |-> latest[n].rev + 1,
            ready |-> b] \in Object
    BY <2>1 DEF Object
  <2>3. latest' \in [Nodes -> Object]
    BY <1>7, <2>2 DEF Join
  <2>4. QED
    BY <1>7, <2>3 DEF Join
<1>8. QED
  BY <1>2, <1>3, <1>4, <1>5, <1>6, <1>7 DEF ClusterStep


\* Every step keeps the types and the counters.
LEMMA StepType == TypeInv /\ [Next]_vars => TypeInv'
<1> SUFFICES ASSUME TypeInv, [Next]_vars PROVE TypeInv'
  OBVIOUS
<1> USE ControllerAssumption
    DEF TypeInv, TypeOK, Counters, HandlerPCs, WorkerPCs
<1>1. CASE UNCHANGED vars
  BY <1>1 DEF vars, processVars, informerVars, queueVars, handlerVars,
              workerVars, InformerTypeOK, Object, Revs
<1>2. CASE HandleUpdate
  <2>1. /\ Head(pending) \in Object
        /\ Tail(pending) \in Seq(Object)
    BY <1>2, TailFacts DEF HandleUpdate, InformerTypeOK
  <2>2. InformerTypeOK'
    BY <1>2, <2>1 DEF HandleUpdate, hUnchanged, InformerTypeOK
  <2>3. hpc' \in {"enqueue", "poll"} /\ hobj' \in Object /\ lock' \in BOOLEAN
    BY <1>2, <2>1 DEF HandleUpdate
  <2>4. htries' \in 0 .. PollTries /\ (hpc' = "poll" => htries' > 0)
    BY <1>2 DEF HandleUpdate
  <2>5. QED
    BY <1>2, <2>2, <2>3, <2>4
    DEF HandleUpdate, hUnchanged, queueVars, workerVars
<1>3. CASE Enqueue
  <2>1. hobj \in Object
    BY <1>3 DEF Enqueue
  <2>2. queue' \in Seq(Object) /\ dirty' \subseteq Object
    BY <1>3, <2>1, AppendFacts DEF Enqueue, Add
  <2>3. QED
    BY <1>3, <2>1, <2>2
    DEF Enqueue, Add, hUnchanged, workerVars, InformerTypeOK
<1>4. CASE AlreadyMarked
  BY <1>4 DEF AlreadyMarked, hUnchanged, queueVars, workerVars, InformerTypeOK
<1>5. CASE Mark
  <2>1. hobj.node \in Nodes
    BY <1>5 DEF Mark, Object
  <2>2. QED
    BY <1>5, <2>1 DEF Mark, hUnchanged, queueVars, workerVars, InformerTypeOK
<1>6. CASE HandlerPoll
  <2>1. htries' \in 0 .. PollTries /\ (hpc' = "poll" => htries' > 0)
    BY <1>6 DEF HandlerPoll
  <2>2. hpc' \in {"poll", "ready", "gaveup"} /\ hpc = "poll"
    BY <1>6 DEF HandlerPoll
  <2>3. QED
    BY <1>6, <2>1, <2>2
    DEF HandlerPoll, hUnchanged, queueVars, workerVars, InformerTypeOK
<1>7. CASE HandlerLookup
  BY <1>7 DEF HandlerLookup, MustUnmark, HandlerReturns, hUnchanged, queueVars,
              workerVars, InformerTypeOK
<1>8. CASE HandlerFoundMark
  BY <1>8 DEF HandlerFoundMark, MustUnmark, hUnchanged, queueVars, workerVars,
              InformerTypeOK
<1>9. CASE HandlerUnmark
  BY <1>9 DEF HandlerUnmark, HandlerReturns, hUnchanged, queueVars,
              workerVars, InformerTypeOK
<1>10. CASE Get
  <2>1. /\ Head(queue) \in Object
        /\ Tail(queue) \in Seq(Object)
    BY <1>10, TailFacts DEF Get, Take
  <2>2. QED
    BY <1>10, <2>1
    DEF Get, Take, wUnchanged, informerVars, handlerVars, InformerTypeOK
<1>11. CASE Reboot
  BY <1>11 DEF Reboot, wUnchanged, informerVars, queueVars, handlerVars,
               InformerTypeOK
<1>12. CASE RebootFails
  BY <1>12 DEF RebootFails, WorkerReturns, wUnchanged, informerVars,
               queueVars, handlerVars, InformerTypeOK
<1>13. CASE WorkerPoll
  <2>1. /\ wtries' \in 0 .. PollTries
        /\ wpc' \in {"poll", "reboot", "repaired", "replace"}
        /\ wpc' = "poll" => wtries' > 0
        /\ wpc' = "reboot" => reboots' < RebootRetries
        /\ wpc = "poll" /\ wobj' = wobj /\ reboots' = reboots
    BY <1>13 DEF WorkerPoll, RebootAgain
  <2>2. QED
    BY <1>13, <2>1
    DEF WorkerPoll, RebootAgain, wUnchanged, informerVars, queueVars, handlerVars,
        InformerTypeOK
<1>14. CASE Replace
  BY <1>14 DEF Replace, wUnchanged, informerVars, queueVars, handlerVars,
               InformerTypeOK
<1>15. CASE WorkerPollAll
  <2>1. \/ /\ wpc' \in {"pollAll", "replaced"} /\ wobj' = wobj
           /\ reboots' = reboots /\ wtries' \in 0 .. PollTries
           /\ wpc' = "pollAll" => wtries' > 0
        \/ WorkerReturns
    BY <1>15 DEF WorkerPollAll
  <2>2. QED
    BY <1>15, <2>1
    DEF WorkerPollAll, WorkerReturns, wUnchanged, informerVars, queueVars,
        handlerVars, InformerTypeOK
<1>16. CASE WorkerUnmark
  BY <1>16 DEF WorkerUnmark, WorkerReturns, wUnchanged, informerVars,
               queueVars, handlerVars, InformerTypeOK
<1>17. CASE \E n \in Nodes : ClusterStep(n) /\ UNCHANGED processVars
  <2>1. InformerTypeOK'
    BY <1>17, ClusterType
  <2>2. QED
    BY <1>17, <2>1 DEF processVars, queueVars, handlerVars, workerVars
<1>18. CASE Crash /\ (UNCHANGED kills \/ (kills < MaxKills /\ kills' = kills + 1))
  <2>1. InformerTypeOK'
    BY <1>18 DEF Crash, InformerTypeOK
  <2>2. /\ queue' \in Seq(Object) /\ dirty' \subseteq Object
        /\ processing' \subseteq Object
    BY <1>18 DEF Crash
  <2>3. enqueueMap' \subseteq Nodes /\ lock' \in BOOLEAN
    BY <1>18 DEF Crash, HandlerReturns
  <2>4. /\ hpc' = "idle" /\ hobj' = None /\ htries' \in 0 .. PollTries
        /\ wpc' = "idle" /\ wobj' = None /\ wtries' \in 0 .. PollTries
        /\ reboots' = 0 /\ reboots' \in 0 .. RebootRetries
        /\ kills' \in 0 .. MaxKills
    BY <1>18 DEF Crash, HandlerReturns, WorkerReturns
  <2>5. TypeOK'
    BY <2>1, <2>2, <2>3, <2>4
  <2>6. Counters'
    BY <2>4
  <2>7. QED
    BY <2>5, <2>6
<1>19. QED
  BY NextCases, <1>1, <1>2, <1>3, <1>4, <1>5, <1>6, <1>7, <1>8, <1>9, <1>10,
     <1>11, <1>12, <1>13, <1>14, <1>15, <1>16, <1>17, <1>18


-----------------------------------------------------------------------------
(* The work queue. *)

LEMMA InitQueue == Init => QueueDiscipline
  BY DEF Init, MemoryInit, QueueInit, QueueDiscipline, Entries, Range

\* Adding a version leaves the queue without doubles, as dirty and processing
\* between them know every entry.
LEMMA AddQueue ==
    ASSUME queue \in Seq(Object), QueueDiscipline, NEW o \in Object, Add(o)
    PROVE  /\ QueueDiscipline'
           /\ Entries' \subseteq Entries \union {o} /\ Entries \subseteq Entries'
           /\ o \in Entries' \union processing'
<1>1. CASE o \in dirty \union processing
  <2>1. queue' = queue /\ processing' = processing /\ dirty' = dirty \union {o}
    BY <1>1 DEF Add
  <2>2. o \in Entries \union processing
    BY <1>1 DEF QueueDiscipline
  <2>3. QED
    BY <2>1, <2>2 DEF QueueDiscipline, Entries, Range
<1>2. CASE o \notin dirty \union processing
  <2>1. /\ queue' = Append(queue, o) /\ processing' = processing
        /\ dirty' = dirty \union {o}
    BY <1>2 DEF Add
  <2>2. Entries' = Entries \union {o}
    BY <2>1, AppendFacts DEF Entries
  <2>3. o \notin Entries
    BY <1>2 DEF QueueDiscipline
  <2>4. ASSUME NEW i \in DOMAIN queue', NEW j \in DOMAIN queue',
               queue'[i] = queue'[j]
        PROVE  i = j
    <3>1. /\ DOMAIN queue' = 1 .. Len(queue) + 1
          /\ \A k \in 1 .. Len(queue) : queue'[k] = queue[k]
          /\ queue'[Len(queue) + 1] = o
          /\ DOMAIN queue = 1 .. Len(queue) /\ Len(queue) \in Nat
      BY <2>1, AppendFacts
    <3>2. \A k \in 1 .. Len(queue) : queue[k] # o
      BY <2>3, <3>1 DEF Entries, Range
    <3>3. CASE i \in 1 .. Len(queue) /\ j \in 1 .. Len(queue)
      BY <2>4, <3>1, <3>3 DEF QueueDiscipline
    <3>4. CASE i = Len(queue) + 1 \/ j = Len(queue) + 1
      BY <2>4, <3>1, <3>2, <3>4
    <3>5. QED
      BY <3>1, <3>3, <3>4
  <2>5. QED
    BY <1>2, <2>1, <2>2, <2>4 DEF QueueDiscipline
<1>3. QED
  BY <1>1, <1>2

\* Get moves the oldest entry from the queue to processing.
LEMMA TakeQueue ==
    ASSUME queue \in Seq(Object), QueueDiscipline, Take
    PROVE  /\ QueueDiscipline'
           /\ Head(queue) \in Object
           /\ Entries = Entries' \union {Head(queue)}
           /\ processing' = processing \union {Head(queue)}
<1>1. /\ queue # <<>> /\ queue' = Tail(queue)
      /\ dirty' = dirty \ {Head(queue)}
      /\ processing' = processing \union {Head(queue)}
  BY DEF Take
<1>2. /\ Head(queue) \in Object /\ Head(queue) = queue[1] /\ 1 \in DOMAIN queue
      /\ Len(queue) \in Nat \ {0} /\ DOMAIN queue = 1 .. Len(queue)
      /\ DOMAIN queue' = 1 .. Len(queue) - 1
      /\ \A i \in 1 .. Len(queue) - 1 : queue'[i] = queue[i + 1]
      /\ Entries = Entries' \union {Head(queue)}
  BY <1>1, TailFacts DEF Entries
<1>3. Head(queue) \notin Entries'
  <2>1. SUFFICES ASSUME NEW i \in DOMAIN queue', queue'[i] = Head(queue)
                 PROVE  FALSE
    BY DEF Entries, Range
  <2>2. i + 1 \in DOMAIN queue /\ queue[i + 1] = queue[1] /\ i + 1 # 1
    BY <1>2, <2>1
  <2>3. QED
    BY <1>2, <2>2 DEF QueueDiscipline
<1>4. ASSUME NEW i \in DOMAIN queue', NEW j \in DOMAIN queue',
             queue'[i] = queue'[j]
      PROVE  i = j
  <2>1. /\ i + 1 \in DOMAIN queue /\ j + 1 \in DOMAIN queue
        /\ queue[i + 1] = queue[j + 1]
    BY <1>2, <1>4
  <2>2. i + 1 = j + 1
    BY <2>1 DEF QueueDiscipline
  <2>3. QED
    BY <1>2, <2>2
<1>5. QED
  BY <1>1, <1>2, <1>3, <1>4 DEF QueueDiscipline

\* Every step keeps the discipline of the queue.
LEMMA StepQueue == TypeInv /\ QueueDiscipline /\ [Next]_vars => QueueDiscipline'
<1> SUFFICES ASSUME TypeInv, QueueDiscipline, [Next]_vars
             PROVE  QueueDiscipline'
  OBVIOUS
<1>1. queue \in Seq(Object)
  BY DEF TypeInv, TypeOK
<1>2. CASE Enqueue
  <2>1. hobj \in Object /\ Add(hobj)
    BY <1>2 DEF Enqueue, TypeInv, TypeOK
  <2>2. QED
    BY <1>1, <2>1, AddQueue
<1>3. CASE Get
  BY <1>1, <1>3, TakeQueue DEF Get
<1>4. CASE Crash
  BY <1>4 DEF Crash, QueueDiscipline, Entries, Range
<1>5. CASE UNCHANGED queueVars
  BY <1>5 DEF queueVars, QueueDiscipline, Entries, Range
<1>6. QED
  BY <1>2, <1>3, <1>4, <1>5, NextCases
  DEF vars, processVars, HandleUpdate, AlreadyMarked, Mark, HandlerPoll,
      HandlerLookup, HandlerFoundMark, MustUnmark, HandlerUnmark, Reboot, RebootFails,
      WorkerPoll, RebootAgain, Replace, WorkerPollAll, WorkerUnmark


-----------------------------------------------------------------------------
(* The order of versions. *)

\* The fields of a version.
LEMMA ObjectFields ==
    \A o \in Object : o.node \in Nodes /\ o.rev \in Nat /\ o.since \in Nat
  BY DEF Object, Revs

LEMMA InitOrder == Init => InOrder
<1> SUFFICES ASSUME Init PROVE InOrder
  OBVIOUS
<1>1. CacheInOrder
  BY DEF Init, InformerInit, CacheInOrder
<1>2. pending = <<>> /\ hpc = "idle" /\ Entries \union processing = {}
  BY DEF Init, InformerInit, MemoryInit, QueueInit, Entries, Range
<1>3. PendingInOrder
  BY <1>2 DEF PendingInOrder
<1>4. QED
  BY <1>1, <1>2, <1>3 DEF InOrder

\* A step of the cluster moves versions forward and notifies the newest one.
LEMMA ClusterOrder ==
    ASSUME InformerTypeOK, CacheInOrder, NEW n \in Nodes, ClusterStep(n)
    PROVE  /\ CacheInOrder'
           /\ \A m \in Nodes : latest[m].rev \in Nat /\ latest'[m].rev \in Nat
           /\ \A m \in Nodes : latest[m].rev <= latest'[m].rev
           /\ \/ pending' = pending
              \/ latest'[n] \in Object /\ pending' = Append(pending, latest'[n])
<1>1. \A m \in Nodes : /\ latest[m] \in Object /\ latest'[m] \in Object
                       /\ latest[m].rev \in Nat /\ latest[m].since \in Nat
  BY ClusterType DEF InformerTypeOK, Object, Revs
<1>2. \A m \in Nodes : latest'[m].rev \in Nat
  BY <1>1 DEF Object, Revs
<1>3. CASE Flip(n) \/ Join(n)
  <2>1. /\ latest'[n].node = n
        /\ latest'[n].rev = latest[n].rev + 1
        /\ latest'[n].since = latest[n].rev + 1
        /\ \A m \in Nodes \ {n} : latest'[m] = latest[m]
    BY <1>3 DEF Flip, Join, InformerTypeOK
  <2>2. pending' = pending \/ pending' = Append(pending, latest'[n])
    BY <1>3 DEF Flip, Join, Notify
  <2>3. QED
    BY <1>1, <1>2, <2>1, <2>2 DEF CacheInOrder
<1>4. CASE Touch(n)
  <2>1. /\ latest'[n].node = latest[n].node
        /\ latest'[n].rev = latest[n].rev + 1
        /\ latest'[n].since = latest[n].since
        /\ \A m \in Nodes \ {n} : latest'[m] = latest[m]
    BY <1>1, <1>4 DEF Touch, InformerTypeOK, Object
  <2>2. pending' = Append(pending, latest'[n])
    BY <1>4 DEF Touch, Notify
  <2>3. QED
    BY <1>1, <1>2, <2>1, <2>2 DEF CacheInOrder
<1>5. CASE Resync(n) \/ Age(n) \/ Leave(n)
  <2>1. latest' = latest
    BY <1>5 DEF Resync, Age, Leave
  <2>2. pending' = pending \/ pending' = Append(pending, latest'[n])
    BY <1>5, <2>1 DEF Resync, Age, Leave, Notify
  <2>3. QED
    BY <1>1, <1>2, <2>1, <2>2 DEF CacheInOrder
<1>6. QED
  BY <1>3, <1>4, <1>5 DEF ClusterStep

\* What was overtaken stays so, and the newest version of n overtakes it.
LEMMA ClusterOvertaken ==
    ASSUME InformerTypeOK, CacheInOrder, NEW n \in Nodes, ClusterStep(n),
           NEW o \in Object, Overtaken(o)
    PROVE  Overtaken(o)'
<1>1. /\ o.node \in Nodes /\ o.rev \in Nat
      /\ latest[o.node].rev \in Nat /\ latest'[o.node].rev \in Nat
      /\ latest[o.node].rev <= latest'[o.node].rev
  BY ClusterOrder DEF Object, Revs
<1>2. o.rev <= latest'[o.node].rev
  BY <1>1 DEF Overtaken
<1>3. CASE pending' = pending
  BY <1>2, <1>3 DEF Overtaken
<1>4. CASE latest'[n] \in Object /\ pending' = Append(pending, latest'[n])
  <2>1. /\ \A i \in 1 .. Len(pending) : pending'[i] = pending[i]
        /\ pending'[Len(pending) + 1] = latest'[n]
        /\ Len(pending') = Len(pending) + 1 /\ Len(pending) \in Nat
    BY <1>4, AppendFacts DEF InformerTypeOK
  <2>2. latest'[n].node = n
    BY ClusterOrder DEF CacheInOrder
  <2>3. ASSUME NEW i \in 1 .. Len(pending'), pending'[i].node = o.node
        PROVE  o.rev <= pending'[i].rev
    <3>1. CASE i \in 1 .. Len(pending)
      BY <2>1, <2>3, <3>1 DEF Overtaken
    <3>2. CASE i = Len(pending) + 1
      BY <1>2, <2>1, <2>2, <2>3, <3>2
    <3>3. QED
      BY <2>1, <3>1, <3>2
  <2>4. QED
    BY <1>2, <2>3 DEF Overtaken
<1>5. QED
  BY <1>3, <1>4, ClusterOrder


\* Notifications stay in order.
LEMMA ClusterPending ==
    ASSUME InformerTypeOK, CacheInOrder, PendingInOrder,
           NEW n \in Nodes, ClusterStep(n)
    PROVE  PendingInOrder'
<1>1. \A i \in 1 .. Len(pending) :
         pending[i].node \in Nodes /\ pending[i].rev \in Nat
  <2>1. \A i \in 1 .. Len(pending) : pending[i] \in Object
    BY DEF InformerTypeOK
  <2>2. QED
    BY <2>1, ObjectFields
<1>2. \A m \in Nodes : /\ latest[m].rev \in Nat /\ latest'[m].rev \in Nat
                       /\ latest[m].rev <= latest'[m].rev
  BY ClusterOrder
<1>3. CASE pending' = pending
  <2>1. ASSUME NEW i \in 1 .. Len(pending)
        PROVE  pending[i].rev <= latest'[pending[i].node].rev
    <3>1. /\ pending[i].node \in Nodes /\ pending[i].rev \in Nat
          /\ pending[i].rev <= latest[pending[i].node].rev
      BY <1>1, <2>1 DEF PendingInOrder
    <3>2. QED
      BY <1>2, <3>1
  <2>2. QED
    BY <1>3, <2>1 DEF PendingInOrder
<1>4. CASE latest'[n] \in Object /\ pending' = Append(pending, latest'[n])
  <2>1. /\ \A i \in 1 .. Len(pending) : pending'[i] = pending[i]
        /\ pending'[Len(pending) + 1] = latest'[n]
        /\ Len(pending') = Len(pending) + 1 /\ Len(pending) \in Nat
    BY <1>4, AppendFacts DEF InformerTypeOK
  <2>2. latest'[n].node = n
    BY ClusterOrder DEF CacheInOrder
  <2>3. ASSUME NEW i \in 1 .. Len(pending')
        PROVE  pending'[i].rev <= latest'[pending'[i].node].rev
    <3>1. CASE i \in 1 .. Len(pending)
      BY <1>1, <1>2, <2>1, <3>1 DEF PendingInOrder
    <3>2. CASE i = Len(pending) + 1
      BY <1>2, <2>1, <2>2, <3>2
    <3>3. QED
      BY <2>1, <3>1, <3>2
  <2>4. ASSUME NEW i \in 1 .. Len(pending'), NEW j \in 1 .. Len(pending'),
               i < j, pending'[i].node = pending'[j].node
        PROVE  pending'[i].rev <= pending'[j].rev
    <3>1. CASE j \in 1 .. Len(pending)
      BY <2>1, <2>4, <3>1 DEF PendingInOrder
    <3>2. CASE j = Len(pending) + 1
      <4>1. i \in 1 .. Len(pending) /\ pending'[i] = pending[i]
        BY <2>1, <2>4, <3>2
      <4>2. pending'[j].rev = latest'[n].rev /\ pending'[i].node = n
        BY <2>1, <2>2, <2>4, <3>2
      <4>3. QED
        BY <2>3, <4>1, <4>2
    <3>3. QED
      BY <2>1, <3>1, <3>2
  <2>5. QED
    BY <2>3, <2>4 DEF PendingInOrder
<1>5. QED
  BY <1>3, <1>4, ClusterOrder


\* Every step keeps the order of versions.
LEMMA StepOrder ==
    TypeInv /\ QueueDiscipline /\ Holders /\ InOrder /\ [Next]_vars => InOrder'
<1> SUFFICES ASSUME TypeInv, QueueDiscipline, Holders, InOrder, [Next]_vars
             PROVE  InOrder'
  OBVIOUS
<1> DEFINE Kept == Entries \union processing
<1>1. /\ InformerTypeOK /\ pending \in Seq(Object) /\ queue \in Seq(Object)
      /\ Kept \subseteq Object
      /\ hpc # "idle" => hobj \in Object
  <2>1. InformerTypeOK /\ queue \in Seq(Object) /\ processing \subseteq Object
    BY DEF TypeInv, TypeOK
  <2>2. Entries \subseteq Object
    BY <2>1 DEF Entries, Range
  <2>3. hpc # "idle" => hobj \in Object
    BY DEF TypeInv, TypeOK
  <2>4. QED
    BY <2>1, <2>2, <2>3 DEF InformerTypeOK
<1>2. CASE HandleUpdate
  <2>1. /\ pending # <<>> /\ hobj' = Head(pending) /\ pending' = Tail(pending)
        /\ latest' = latest /\ Kept' = Kept
    BY <1>2 DEF HandleUpdate, hUnchanged, queueVars, Entries, Range
  <2>2. /\ hobj' = pending[1] /\ hobj' \in Object
        /\ 1 \in 1 .. Len(pending) /\ Len(pending) \in Nat
        /\ Len(pending') = Len(pending) - 1
        /\ \A i \in 1 .. Len(pending') : /\ pending'[i] = pending[i + 1]
                                         /\ i + 1 \in 1 .. Len(pending)
    BY <1>1, <2>1, TailFacts
  <2>3. PendingInOrder'
    <3>1. \A i \in 1 .. Len(pending') :
             pending'[i].rev <= latest'[pending'[i].node].rev
      BY <2>1, <2>2 DEF InOrder, PendingInOrder
    <3>2. \A i, j \in 1 .. Len(pending') : i < j => i + 1 < j + 1
      BY <2>2
    <3>3. \A i, j \in 1 .. Len(pending') :
             i < j /\ pending'[i].node = pending'[j].node
                => pending'[i].rev <= pending'[j].rev
      BY <2>1, <2>2, <3>2 DEF InOrder, PendingInOrder
    <3>4. QED
      BY <3>1, <3>3 DEF PendingInOrder
  <2>4. Overtaken(hobj)'
    <3>1. hobj'.rev <= latest'[hobj'.node].rev
      BY <2>1, <2>2 DEF InOrder, PendingInOrder
    <3>2. \A i \in 1 .. Len(pending') : 1 < i + 1
      BY <2>2
    <3>3. \A i \in 1 .. Len(pending') :
             pending'[i].node = hobj'.node => hobj'.rev <= pending'[i].rev
      BY <2>1, <2>2, <3>2 DEF InOrder, PendingInOrder
    <3>4. QED
      BY <3>1, <3>3 DEF Overtaken
  <2>5. ASSUME NEW o \in Kept'
        PROVE  /\ Overtaken(o)'
               /\ hobj'.node = o.node => o.rev <= hobj'.rev
    <3>1. o \in Kept /\ Overtaken(o)
      BY <2>1, <2>5 DEF InOrder
    <3>2. Overtaken(o)'
      BY <2>1, <2>2, <3>1 DEF Overtaken
    <3>3. QED
      BY <2>2, <3>1, <3>2 DEF Overtaken
  <2>6. CacheInOrder'
    BY <2>1 DEF InOrder, CacheInOrder
  <2>7. QED
    BY <2>3, <2>4, <2>5, <2>6 DEF InOrder
<1>3. CASE Enqueue
  <2>1. hpc = "enqueue" /\ hobj \in Object /\ Add(hobj) /\ hobj' = hobj
    BY <1>1, <1>3 DEF Enqueue
  <2>2. Kept' \subseteq Kept \union {hobj}
    BY <1>1, <2>1, AddQueue DEF Add
  <2>3. latest' = latest /\ pending' = pending
    BY <1>3 DEF Enqueue, hUnchanged
  <2>4. hobj.rev \in Nat
    BY <2>1, ObjectFields
  <2>5. Overtaken(hobj) /\ Overtaken(hobj)'
    BY <2>1, <2>3 DEF InOrder, Overtaken
  <2>6. ASSUME NEW o \in Kept'
        PROVE  Overtaken(o)' /\ (hobj'.node = o.node => o.rev <= hobj'.rev)
    BY <2>1, <2>2, <2>3, <2>4, <2>5, <2>6 DEF InOrder, Overtaken
  <2>7. CacheInOrder' /\ PendingInOrder'
    BY <2>3 DEF InOrder, CacheInOrder, PendingInOrder
  <2>8. QED
    BY <2>1, <2>5, <2>6, <2>7 DEF InOrder
<1>4. CASE Get
  <2>1. Kept' = Kept
    BY <1>1, <1>4, TakeQueue DEF Get
  <2>2. latest' = latest /\ pending' = pending /\ hpc' = hpc /\ hobj' = hobj
    BY <1>4 DEF Get, wUnchanged, informerVars, handlerVars
  <2>3. QED
    BY <2>1, <2>2
    DEF InOrder, CacheInOrder, PendingInOrder, Overtaken
<1>5. CASE \E n \in Nodes : ClusterStep(n) /\ UNCHANGED processVars
  <2>1. PICK n \in Nodes : ClusterStep(n) /\ UNCHANGED processVars
    BY <1>5
  <2>2. hpc' = hpc /\ hobj' = hobj /\ Kept' = Kept
    BY <2>1 DEF processVars, handlerVars, queueVars, Entries, Range
  <2>3. CacheInOrder' /\ PendingInOrder'
    BY <1>1, <2>1, ClusterOrder, ClusterPending DEF InOrder
  <2>4. hpc' # "idle" => Overtaken(hobj)'
    BY <1>1, <2>1, <2>2, ClusterOvertaken DEF InOrder
  <2>5. \A o \in Kept' : Overtaken(o)'
    BY <1>1, <2>1, <2>2, ClusterOvertaken DEF InOrder
  <2>6. QED
    BY <2>2, <2>3, <2>4, <2>5 DEF InOrder, Overtaken
<1>6. CASE Crash
  <2>1. /\ latest' = latest /\ pending' = <<>> /\ hpc' = "idle"
        /\ Kept' = {}
    BY <1>6 DEF Crash, HandlerReturns, Entries, Range
  <2>2. QED
    BY <2>1 DEF InOrder, CacheInOrder, PendingInOrder
<1>7. ASSUME UNCHANGED <<latest, pending, queueVars>>,
             hpc' = "idle" \/ (hpc # "idle" /\ hobj' = hobj)
      PROVE  InOrder'
  <2>1. Kept' = Kept /\ latest' = latest /\ pending' = pending
    BY <1>7 DEF queueVars, Entries, Range
  <2>2. QED
    BY <1>7, <2>1 DEF InOrder, CacheInOrder, PendingInOrder, Overtaken
<1>8. CASE UNCHANGED vars
  BY <1>7, <1>8 DEF vars, informerVars, processVars, handlerVars
<1>9. CASE AlreadyMarked \/ Mark \/ HandlerPoll \/ HandlerFoundMark
  BY <1>7, <1>9 DEF AlreadyMarked, Mark, HandlerPoll, HandlerFoundMark, MustUnmark, hUnchanged
<1>10. CASE HandlerLookup \/ HandlerUnmark
  BY <1>7, <1>10 DEF HandlerLookup, MustUnmark, HandlerUnmark, HandlerReturns, hUnchanged
<1>11. CASE Reboot \/ RebootFails \/ WorkerPoll \/ Replace \/ WorkerPollAll
            \/ WorkerUnmark
  BY <1>7, <1>11 DEF Reboot, RebootFails, WorkerPoll, RebootAgain, Replace, WorkerPollAll,
                     WorkerUnmark, wUnchanged, informerVars, handlerVars
<1>12. QED
  BY NextCases, <1>2, <1>3, <1>4, <1>5, <1>6, <1>8, <1>9, <1>10, <1>11


-----------------------------------------------------------------------------
(* Marks. *)

\* A node that recovered since version o did so whatever happens next.
LEMMA RecoveredStays ==
    ASSUME InformerTypeOK, CacheInOrder, NEW n \in Nodes, ClusterStep(n),
           NEW o \in Object, o.rev <= latest[o.node].rev, RecoveredSince(o)
    PROVE  RecoveredSince(o)'
<1>1. /\ latest \in [Nodes -> Object] /\ o.node \in Nodes /\ o.rev \in Nat
      /\ latest[n] \in Object /\ latest[n].rev \in Nat
  BY ObjectFields DEF InformerTypeOK
<1>2. CASE Flip(n) \/ Join(n)
  <2>1. /\ latest'[n].since = latest[n].rev + 1
        /\ \A m \in Nodes \ {n} : latest'[m] = latest[m]
        /\ \A m \in Nodes \ {n} : m \in present' <=> m \in present
    BY <1>1, <1>2 DEF Flip, Join
  <2>2. CASE o.node = n
    BY <1>1, <2>1, <2>2 DEF RecoveredSince
  <2>3. CASE o.node # n
    BY <1>1, <2>1, <2>3 DEF RecoveredSince
  <2>4. QED
    BY <2>2, <2>3
<1>3. CASE Touch(n)
  <2>1. /\ latest'[n].since = latest[n].since /\ latest'[n].ready = latest[n].ready
        /\ \A m \in Nodes \ {n} : latest'[m] = latest[m]
        /\ present' = present
    BY <1>1, <1>3 DEF Touch, Object
  <2>2. QED
    BY <1>1, <2>1 DEF RecoveredSince
<1>4. CASE Resync(n) \/ Age(n) \/ Leave(n)
  <2>1. latest' = latest /\ present' \subseteq present
    BY <1>4 DEF Resync, Age, Leave
  <2>2. QED
    BY <2>1 DEF RecoveredSince
<1>5. QED
  BY <1>2, <1>3, <1>4 DEF ClusterStep

Marks == Holders /\ UnmarkJustified /\ FirstEntryStaysMarked /\ MarkWasOffered

LEMMA InitMarks == Init => Marks
<1> SUFFICES ASSUME Init PROVE Marks
  OBVIOUS
<1>1. /\ hpc = "idle" /\ wpc = "idle" /\ enqueueMap = {} /\ Entries = {}
  BY DEF Init, MemoryInit, QueueInit, Entries, Range
<1>2. QED
  BY <1>1 DEF Marks, Holders, UnmarkJustified, FirstEntryStaysMarked,
              MarkWasOffered

\* What an entry owes its place to, in FirstEntryStaysMarked.
Accounted(o) ==
    \/ o.node \in enqueueMap
    \/ RecoveredSince(o)
    \/ \E p \in processing : p.node = o.node
    \/ hpc = "mark" /\ hobj = o

\* Every step keeps what the properties say of the marks.
LEMMA StepMarks ==
    TypeInv /\ QueueDiscipline /\ InOrder /\ Marks /\ [Next]_vars => Marks'
<1> SUFFICES ASSUME TypeInv, QueueDiscipline, InOrder, Marks, [Next]_vars
             PROVE  Marks'
  OBVIOUS
<1> USE DEF Marks
<1>1. /\ InformerTypeOK /\ queue \in Seq(Object)
      /\ Entries \subseteq Object /\ processing \subseteq Object
      /\ hpc # "idle" => hobj \in Object
      /\ wpc # "idle" => wobj \in Object
      /\ enqueueMap \subseteq Nodes
  BY DEF TypeInv, TypeOK, Entries, Range
<1>2. /\ \A o \in Entries : Accounted(o)
      /\ (\A o \in Entries : Accounted(o))' => FirstEntryStaysMarked'
  BY DEF FirstEntryStaysMarked, Accounted
<1>3. CASE HandleUpdate
  <2>1. /\ hpc = "idle" /\ hpc' \in {"enqueue", "poll"}
        /\ wpc' = wpc /\ wobj' = wobj /\ latest' = latest /\ present' = present
        /\ enqueueMap' = enqueueMap /\ processing' = processing
        /\ Entries' = Entries
    BY <1>3 DEF HandleUpdate, hUnchanged, workerVars, queueVars, Entries, Range
  <2>2. QED
    BY <1>2, <2>1 DEF Holders, UnmarkJustified, RecoveredSince, Accounted,
                      MarkWasOffered
<1>4. CASE Enqueue
  <2>1. /\ hpc = "enqueue" /\ hpc' = "mark" /\ hobj' = hobj /\ hobj \in Object
        /\ wpc' = wpc /\ wobj' = wobj /\ latest' = latest /\ present' = present
        /\ enqueueMap' = enqueueMap /\ processing' = processing /\ Add(hobj)
    BY <1>1, <1>4 DEF Enqueue, hUnchanged, workerVars, Add
  <2>2. /\ Entries' \subseteq Entries \union {hobj} /\ Entries \subseteq Entries'
        /\ hobj \in Entries' \union processing'
    BY <1>1, <2>1, AddQueue
  <2>3. Holders'
    BY <2>1, <2>2 DEF Holders
  <2>4. UnmarkJustified'
    BY <2>1 DEF UnmarkJustified, RecoveredSince
  <2>5. \A o \in Entries' : Accounted(o)'
    BY <1>2, <2>1, <2>2 DEF Accounted, RecoveredSince
  <2>6. MarkWasOffered'
    BY <2>1, <2>2 DEF MarkWasOffered
  <2>7. QED
    BY <1>2, <2>3, <2>4, <2>5, <2>6
<1>5. CASE AlreadyMarked
  <2>1. /\ hpc = "enqueue" /\ hpc' = "poll" /\ hobj' = hobj
        /\ wpc' = wpc /\ wobj' = wobj /\ latest' = latest /\ present' = present
        /\ enqueueMap' = enqueueMap /\ processing' = processing
        /\ Entries' = Entries
    BY <1>5 DEF AlreadyMarked, hUnchanged, workerVars, queueVars, Entries, Range
  <2>2. QED
    BY <1>2, <2>1 DEF Holders, UnmarkJustified, RecoveredSince, Accounted,
                      MarkWasOffered
<1>6. CASE Mark
  <2>1. /\ hpc = "mark" /\ hpc' = "poll" /\ hobj' = hobj /\ hobj \in Object
        /\ wpc' = wpc /\ wobj' = wobj /\ latest' = latest /\ present' = present
        /\ enqueueMap' = enqueueMap \union {hobj.node}
        /\ processing' = processing /\ Entries' = Entries
    BY <1>1, <1>6 DEF Mark, hUnchanged, workerVars, queueVars, Entries, Range
  <2>2. Holders' /\ UnmarkJustified'
    BY <2>1 DEF Holders, UnmarkJustified, RecoveredSince
  <2>3. \A o \in Entries' : Accounted(o)'
    BY <1>2, <2>1 DEF Accounted, RecoveredSince
  <2>4. MarkWasOffered'
    BY <2>1 DEF Holders, MarkWasOffered
  <2>5. QED
    BY <1>2, <2>2, <2>3, <2>4
<1>7. CASE HandlerPoll
  <2>1. /\ hpc = "poll" /\ hpc' \in {"poll", "ready", "gaveup"} /\ hobj' = hobj
        /\ hpc' = "ready" => CachedReady(hobj.node)
        /\ wpc' = wpc /\ wobj' = wobj /\ latest' = latest /\ present' = present
        /\ enqueueMap' = enqueueMap /\ processing' = processing
        /\ Entries' = Entries
    BY <1>7 DEF HandlerPoll, hUnchanged, workerVars, queueVars, Entries, Range
  <2>2. QED
    BY <1>2, <2>1 DEF Holders, UnmarkJustified, RecoveredSince, CachedReady,
                      Accounted, MarkWasOffered
<1>8. CASE HandlerLookup
  <2>1. /\ hpc \in {"gaveup", "ready"} /\ hpc' = "idle"
        /\ wpc' = wpc /\ wobj' = wobj /\ latest' = latest /\ present' = present
        /\ enqueueMap' = enqueueMap /\ processing' = processing
        /\ Entries' = Entries
    BY <1>8 DEF HandlerLookup, MustUnmark, HandlerReturns, hUnchanged, workerVars, queueVars,
                Entries, Range
  <2>2. QED
    BY <1>2, <2>1 DEF Holders, UnmarkJustified, RecoveredSince, Accounted,
                      MarkWasOffered
<1>9. CASE HandlerFoundMark
  <2>1. /\ hpc = "ready" /\ hpc' = "unmark" /\ hobj' = hobj
        /\ wpc' = wpc /\ wobj' = wobj /\ latest' = latest /\ present' = present
        /\ enqueueMap' = enqueueMap /\ processing' = processing
        /\ Entries' = Entries
    BY <1>9 DEF HandlerFoundMark, MustUnmark, hUnchanged, workerVars, queueVars, Entries, Range
  <2>2. QED
    BY <1>2, <2>1 DEF Holders, UnmarkJustified, RecoveredSince, Accounted,
                      MarkWasOffered
<1>10. CASE HandlerUnmark
  <2>1. /\ hpc = "unmark" /\ hpc' = "idle" /\ hobj \in Object
        /\ wpc' = wpc /\ wobj' = wobj /\ latest' = latest /\ present' = present
        /\ enqueueMap' = enqueueMap \ {hobj.node}
        /\ processing' = processing /\ Entries' = Entries
    BY <1>1, <1>10 DEF HandlerUnmark, HandlerReturns, hUnchanged, workerVars,
                       queueVars, Entries, Range
  <2>2. Holders' /\ UnmarkJustified' /\ MarkWasOffered'
    BY <2>1 DEF Holders, UnmarkJustified, RecoveredSince, MarkWasOffered
  <2>3. ASSUME NEW o \in Entries'
        PROVE  Accounted(o)'
    <3>1. CASE o.node = hobj.node
      <4>1. RecoveredSince(hobj)
        BY <2>1 DEF UnmarkJustified
      <4>2. o.rev <= hobj.rev
        BY <2>1, <2>3, <3>1 DEF InOrder
      <4>3. /\ o.rev \in Nat /\ hobj.rev \in Nat /\ hobj.node \in Nodes
            /\ latest[hobj.node].since \in Nat
        BY <1>1, <2>1, <2>3, ObjectFields DEF InformerTypeOK
      <4>4. RecoveredSince(o)
        BY <3>1, <4>1, <4>2, <4>3 DEF RecoveredSince
      <4>5. QED
        BY <2>1, <4>4 DEF Accounted, RecoveredSince
    <3>2. CASE o.node # hobj.node
      BY <1>2, <2>1, <2>3, <3>2 DEF Accounted, RecoveredSince
    <3>3. QED
      BY <3>1, <3>2
  <2>4. QED
    BY <1>2, <2>2, <2>3

<1>11. CASE Get
  <2>1. /\ wpc = "idle" /\ wpc' = "reboot" /\ wobj' = Head(queue)
        /\ hpc' = hpc /\ hobj' = hobj /\ latest' = latest /\ present' = present
        /\ enqueueMap' = enqueueMap /\ Take
    BY <1>11 DEF Get, wUnchanged, informerVars, handlerVars
  <2>2. /\ Entries = Entries' \union {Head(queue)}
        /\ processing' = processing \union {Head(queue)}
    BY <1>1, <2>1, TakeQueue
  <2>3. Holders' /\ UnmarkJustified'
    BY <2>1, <2>2 DEF Holders, UnmarkJustified, RecoveredSince
  <2>4. \A o \in Entries' : Accounted(o)'
    BY <1>2, <2>1, <2>2 DEF Accounted, RecoveredSince
  <2>5. MarkWasOffered'
    BY <2>1, <2>2 DEF MarkWasOffered
  <2>6. QED
    BY <1>2, <2>3, <2>4, <2>5
<1>12. ASSUME UNCHANGED <<hpc, hobj, latest, present, enqueueMap, queueVars>>,
              wpc' = "idle" \/ (wpc # "idle" /\ wobj' = wobj),
              wpc' = "repaired" => RecoveredSince(wobj)
       PROVE  Marks'
  <2>1. /\ hpc' = hpc /\ hobj' = hobj /\ latest' = latest /\ present' = present
        /\ enqueueMap' = enqueueMap /\ processing' = processing
        /\ Entries' = Entries
    BY <1>12 DEF queueVars, Entries, Range
  <2>2. QED
    BY <1>2, <1>12, <2>1 DEF Holders, UnmarkJustified, RecoveredSince, Accounted,
                             MarkWasOffered
<1>13. CASE Reboot \/ RebootFails \/ Replace \/ WorkerPollAll
  <2>1. /\ UNCHANGED <<hpc, hobj, latest, present, enqueueMap, queueVars>>
        /\ wpc # "idle" /\ wpc' # "repaired"
        /\ wpc' = "idle" \/ wobj' = wobj
    BY <1>13 DEF Reboot, RebootFails, Replace, WorkerPollAll, WorkerReturns,
                 wUnchanged, informerVars, handlerVars
  <2>2. QED
    BY <1>12, <2>1
<1>14. CASE WorkerPoll
  <2>1. /\ UNCHANGED <<hpc, hobj, latest, present, enqueueMap, queueVars>>
        /\ wpc # "idle" /\ wobj' = wobj
        /\ wpc' = "repaired" => CachedReady(wobj.node)
    BY <1>14 DEF WorkerPoll, RebootAgain, wUnchanged, informerVars, handlerVars
  <2>2. QED
    BY <1>12, <2>1 DEF RecoveredSince, CachedReady
<1>15. CASE WorkerUnmark
  <2>1. /\ wpc # "idle" /\ wpc' = "idle"
        /\ hpc' = hpc /\ hobj' = hobj /\ latest' = latest /\ present' = present
        /\ enqueueMap' = enqueueMap \ {wobj.node}
        /\ processing' = processing /\ Entries' = Entries
    BY <1>15 DEF WorkerUnmark, WorkerReturns, wUnchanged, informerVars,
                 handlerVars, queueVars, Entries, Range
  <2>2. wobj \in processing
    BY <2>1 DEF Holders
  <2>3. Holders' /\ UnmarkJustified' /\ MarkWasOffered'
    BY <2>1 DEF Holders, UnmarkJustified, RecoveredSince, MarkWasOffered
  <2>4. \A o \in Entries' : Accounted(o)'
    BY <1>2, <2>1, <2>2 DEF Accounted, RecoveredSince
  <2>5. QED
    BY <1>2, <2>3, <2>4
<1>16. CASE \E n \in Nodes : ClusterStep(n) /\ UNCHANGED processVars
  <2>1. PICK n \in Nodes : ClusterStep(n) /\ UNCHANGED processVars
    BY <1>16
  <2>2. /\ hpc' = hpc /\ hobj' = hobj /\ wpc' = wpc /\ wobj' = wobj
        /\ enqueueMap' = enqueueMap /\ processing' = processing
        /\ Entries' = Entries
    BY <2>1 DEF processVars, handlerVars, workerVars, queueVars, Entries, Range
  <2>3. ASSUME NEW o \in Object, Overtaken(o), RecoveredSince(o)
        PROVE  RecoveredSince(o)'
    BY <1>1, <2>1, <2>3, RecoveredStays DEF InOrder, Overtaken
  <2>4. Holders' /\ MarkWasOffered'
    BY <2>2 DEF Holders, MarkWasOffered
  <2>5. UnmarkJustified'
    <3>1. ASSUME hpc \in {"ready", "unmark"}
          PROVE  RecoveredSince(hobj)'
      <4>1. PICK o \in Object : o = hobj /\ Overtaken(o) /\ RecoveredSince(o)
        BY <1>1, <3>1 DEF UnmarkJustified, InOrder
      <4>2. RecoveredSince(o)' /\ o = hobj'
        BY <2>2, <2>3, <4>1
      <4>3. QED
        BY <4>2 DEF RecoveredSince
    <3>2. ASSUME wpc = "repaired"
          PROVE  RecoveredSince(wobj)'
      <4>1. PICK o \in Object : o = wobj /\ Overtaken(o) /\ RecoveredSince(o)
        BY <1>1, <3>2 DEF UnmarkJustified, InOrder, Holders
      <4>2. RecoveredSince(o)' /\ o = wobj'
        BY <2>2, <2>3, <4>1
      <4>3. QED
        BY <4>2 DEF RecoveredSince
    <3>3. QED
      BY <2>2, <3>1, <3>2 DEF UnmarkJustified
  <2>6. ASSUME NEW o \in Entries'
        PROVE  Accounted(o)'
    <3>1. o \in Object /\ Overtaken(o) /\ Accounted(o)
      BY <1>1, <1>2, <2>2, <2>6 DEF InOrder
    <3>2. RecoveredSince(o) => RecoveredSince(o)'
      BY <2>3, <3>1
    <3>3. QED
      BY <2>2, <3>1, <3>2 DEF Accounted
  <2>7. QED
    BY <1>2, <2>4, <2>5, <2>6
<1>17. CASE Crash
  <2>1. hpc' = "idle" /\ wpc' = "idle" /\ enqueueMap' = {} /\ Entries' = {}
    BY <1>17 DEF Crash, HandlerReturns, WorkerReturns, Entries, Range
  <2>2. QED
    BY <2>1 DEF Holders, UnmarkJustified, FirstEntryStaysMarked, MarkWasOffered
<1>18. CASE UNCHANGED vars
  <2>1. UNCHANGED <<hpc, hobj, latest, present, enqueueMap, queueVars, wpc, wobj>>
    BY <1>18 DEF vars, informerVars, processVars, handlerVars, workerVars
  <2>2. QED
    BY <1>12, <2>1 DEF UnmarkJustified
<1>19. QED
  BY NextCases, <1>3, <1>4, <1>5, <1>6, <1>7, <1>8, <1>9, <1>10, <1>11, <1>13,
     <1>14, <1>15, <1>16, <1>17, <1>18

-----------------------------------------------------------------------------
(* Marks, queue and worker implement Delivery. *)

\* A step that touches neither node nor version leaves what is out of date.
LEMMA OutdatedSame ==
    ASSUME UNCHANGED <<present, latest>>
    PROVE  Outdated' = Outdated
  BY DEF Outdated, RecoveredSince

\* Every step is one of Delivery, or invisible to it.
LEMMA StepDelivery ==
    TypeInv /\ QueueDiscipline /\ InOrder /\ Marks /\ [Next]_vars
        => [D!Next]_D!vars
<1> SUFFICES ASSUME TypeInv, QueueDiscipline, InOrder, Marks, [Next]_vars
             PROVE  [D!Next]_D!vars
  OBVIOUS
<1>1. /\ Entries \subseteq Object /\ processing \subseteq Object
      /\ hpc # "idle" => hobj \in Object
      /\ wpc # "idle" => wobj \in Object
      /\ latest \in [Nodes -> Object]
      /\ D!Known = Entries \union processing /\ D!Range(queue) = Entries
  BY DEF TypeInv, TypeOK, InformerTypeOK, Entries, Range, D!Known, D!Range
<1>2. CASE Enqueue
  <2>1. /\ hobj \in Object /\ Add(hobj) /\ hobj.node \notin enqueueMap
        /\ enqueueMap' = enqueueMap /\ Outdated' = Outdated
    BY <1>1, <1>2, OutdatedSame DEF Enqueue, hUnchanged
  <2>2. CASE hobj \in dirty \union processing
    BY <2>1, <2>2 DEF Add, D!vars
  <2>3. CASE hobj \notin dirty \union processing
    <3>1. hobj \notin D!Known
      BY <1>1, <2>3 DEF QueueDiscipline
    <3>2. queue' = Append(queue, hobj) /\ processing' = processing
      BY <2>1, <2>3 DEF Add
    <3>3. D!Offer(hobj)
      BY <2>1, <3>1, <3>2 DEF D!Offer
    <3>4. QED
      BY <2>1, <3>3 DEF D!Next
  <2>4. QED
    BY <2>2, <2>3
<1>3. CASE Mark
  <2>1. hobj \in D!Known
    BY <1>1, <1>3 DEF Mark, Marks, Holders
  <2>2. D!Bar(hobj)
    BY <1>3, OutdatedSame DEF Mark, hUnchanged, queueVars, D!Bar
  <2>3. QED
    BY <2>1, <2>2 DEF D!Next
<1>4. CASE HandlerUnmark
  <2>1. /\ hobj \in Object /\ hpc = "unmark" /\ Outdated' = Outdated
        /\ queue' = queue /\ processing' = processing
        /\ enqueueMap' = enqueueMap \ {hobj.node}
    BY <1>1, <1>4, OutdatedSame DEF HandlerUnmark, hUnchanged, queueVars
  <2>2. ASSUME NEW o \in Entries, o.node = hobj.node
        PROVE  o \in Outdated
    <3>1. RecoveredSince(hobj)
      BY <2>1 DEF Marks, UnmarkJustified
    <3>2. o.rev <= hobj.rev
      BY <2>1, <2>2 DEF InOrder
    <3>3. /\ o \in Object /\ o.rev \in Nat /\ hobj.rev \in Nat
          /\ latest[hobj.node].since \in Nat
      BY <1>1, <2>1, <2>2, ObjectFields
    <3>4. RecoveredSince(o)
      BY <2>2, <3>1, <3>2, <3>3 DEF RecoveredSince
    <3>5. QED
      BY <3>3, <3>4 DEF Outdated
  <2>3. D!Release(hobj.node)
    BY <1>1, <2>1, <2>2 DEF D!Release, D!HadOrOutdated
  <2>4. CASE hobj.node \in enqueueMap
    BY <2>3, <2>4 DEF D!Next
  <2>5. CASE hobj.node \notin enqueueMap
    <3>1. enqueueMap' = enqueueMap
      BY <2>1, <2>5
    <3>2. QED
      BY <2>1, <3>1 DEF D!vars
  <2>6. QED
    BY <2>4, <2>5
<1>5. CASE WorkerUnmark
  <2>1. /\ wpc # "idle" /\ Outdated' = Outdated
        /\ queue' = queue /\ processing' = processing
        /\ enqueueMap' = enqueueMap \ {wobj.node}
    BY <1>5, OutdatedSame DEF WorkerUnmark, wUnchanged, informerVars, queueVars
  <2>2. wobj \in processing
    BY <2>1 DEF Marks, Holders
  <2>3. D!Release(wobj.node)
    BY <2>1, <2>2 DEF D!Release, D!HadOrOutdated
  <2>4. CASE wobj.node \in enqueueMap
    BY <2>3, <2>4 DEF D!Next
  <2>5. CASE wobj.node \notin enqueueMap
    <3>1. enqueueMap' = enqueueMap
      BY <2>1, <2>5
    <3>2. QED
      BY <2>1, <3>1 DEF D!vars
  <2>6. QED
    BY <2>4, <2>5
<1>6. CASE Get
  <2>1. Take /\ enqueueMap' = enqueueMap /\ Outdated' = Outdated
    BY <1>6, OutdatedSame DEF Get, wUnchanged, informerVars
  <2>2. D!Deliver
    BY <2>1 DEF Take, D!Deliver, D!HandOver
  <2>3. QED
    BY <2>2 DEF D!Next
<1>7. CASE Crash
  BY <1>7, OutdatedSame DEF Crash, D!Next, D!Forget
<1>8. CASE UNCHANGED <<queue, processing, enqueueMap>>
  <2>1. Outdated' \in SUBSET Object
    BY DEF Outdated
  <2>2. D!Recover
    BY <1>8, <2>1 DEF D!Recover
  <2>3. QED
    BY <2>2 DEF D!Next
<1>9. QED
  BY <1>2, <1>3, <1>4, <1>5, <1>6, <1>7, <1>8, NextCases
  DEF vars, processVars, queueVars, HandleUpdate, AlreadyMarked, HandlerPoll,
      HandlerLookup, HandlerFoundMark, MustUnmark, Reboot, RebootFails,
      WorkerPoll, RebootAgain, Replace, WorkerPollAll

-----------------------------------------------------------------------------
(* The theorems. *)

LEMMA InitIInv == Init => IInv
  BY InitType, InitQueue, InitOrder, InitMarks DEF IInv, Marks

LEMMA StepIInv == IInv /\ [Next]_vars => IInv'
  BY StepType, StepQueue, StepOrder, StepMarks DEF IInv, Marks

\* IInv is inductive, so it holds of every reachable state.
THEOREM Inductive == Spec => []IInv
<1>1. Init => IInv
  BY InitIInv
<1>2. IInv /\ [Next]_vars => IInv'
  BY StepIInv
<1>3. QED
  BY <1>1, <1>2, PTL DEF Spec

\* Every variable of the controller stays in its range.
THEOREM TypeCorrect == Spec => []TypeOK
<1>1. IInv => TypeOK
  BY DEF IInv, TypeInv
<1>2. QED
  BY <1>1, Inductive, PTL

\* A mark dropped after a poll was dropped because the node did recover.
THEOREM UnmarkCorrect == Spec => []UnmarkJustified
<1>1. IInv => UnmarkJustified
  BY DEF IInv
<1>2. QED
  BY <1>1, Inductive, PTL

\* A queued node that did not recover keeps its mark until the worker had it.
THEOREM MarksCorrect == Spec => []FirstEntryStaysMarked
<1>1. IInv => FirstEntryStaysMarked
  BY DEF IInv
<1>2. QED
  BY <1>1, Inductive, PTL

\* A mark stands for a version that this process did offer to the worker.
THEOREM OffersCorrect == Spec => []MarkWasOffered
<1>1. IInv => MarkWasOffered
  BY DEF IInv
<1>2. QED
  BY <1>1, Inductive, PTL

\* The controller implements Delivery: marks and queue together.
THEOREM ImplementsDelivery == Spec => DeliverySpec
<1>1. Init => D!Init
  BY DEF Init, MemoryInit, QueueInit, D!Init, Outdated
<1>2. IInv /\ [Next]_vars => [D!Next]_D!vars
  BY StepDelivery DEF IInv, Marks
<1>3. QED
  BY <1>1, <1>2, Inductive, PTL DEF Spec, DeliverySpec, D!Spec

=============================================================================
