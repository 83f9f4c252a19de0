-------------------------- MODULE LifecycleProofs ---------------------------
(***************************************************************************)
(* Threads that are created, woken, waited for, printed and that exit: for *)
(* any number of such threads, under every interleaving, the queues, the   *)
(* scheduler, the tids and the references of thread.c are sound.           *)
(***************************************************************************)
EXTENDS ThreadProofs, FiniteSetTheorems

(***************************************************************************)
(* The clients of these theorems neither sleep nor suspend anyone, and end *)
(* no thread but themselves.                                               *)
(***************************************************************************)
Lifecycle ==
    /\ SleepMs = {}
    /\ SelfCalls \subseteq {"exit", "wait"}
    /\ OtherCalls \subseteq {"wake", "wait", "print"}

-----------------------------------------------------------------------------
(***************************************************************************)
(* The inductive invariant, in parts.                                      *)
(***************************************************************************)
\* The calls a client can be in at each place of the code.
CallsAt(l) ==
    CASE l = "run" -> {"none"}
      [] l = "store" -> {"create"}
      [] l \in {"inc", "poll", "dec", "dec2"} -> {"wait"}
      [] l \in {"fix", "drop", "yield", "resume"} -> {"exit"}
      [] l \in {"link", "push"} -> {"create", "wake", "exit"}
      [] l \in {"lock", "body", "unlock"} -> {"create", "wake", "wait", "print", "exit"}
      [] OTHER -> {}

\* A thread that has taken itself out of RUNNING in thread_exit.
Gone(n) ==
    /\ frame[n].op = "exit"
    /\ pc[n] \in {"fix", "drop", "link", "push", "unlock", "yield", "resume"}

\* n has a node in hand that is on no queue: frame[n].nd.
Held(n) ==
    \/ frame[n].op = "create" /\ pc[n] \in {"lock", "body", "store", "link", "push"}
    \/ frame[n].op \in {"wake", "exit"} /\ pc[n] \in {"fix", "drop", "link", "push"}
    \/ n = Cleaner /\ pc[n] = "c_free"

\* Where the threads are in the code, and with which locals.
Place(n) ==
    /\ n = Cleaner => /\ pc[n] \in {"c_start", "c_test", "c_reap", "c_free"}
                      /\ frame[n].op = "none"
    /\ n = Sleeper => pc[n] \in {"s_start", "s_test"} /\ frame[n] = NoCall
    /\ Client(n) => frame[n].op \in CallsAt(pc[n])
    /\ frame[n].op = "exit" => frame[n].arg = tid[n]
    /\ Gone(n) => frame[n].nd = n
    /\ frame[n].op = "wait" => frame[n].arg # 0
    /\ pc[n] \in {"lock", "body"} /\ frame[n].op # "create" => frame[n].nd = NULL

\* A thread that was created and has yet to run is at the start of its code.
Idle(m) == pc[m] = "run" /\ frame[m] = NoCall

IdleInv ==
    /\ \A m \in Queue("READY") : Idle(m)
    /\ \A n \in Node :
         pc[n] \in {"store", "link", "push"} /\ frame[n].op \in {"create", "wake"}
           => Idle(frame[n].nd)

\* The queues.
QueueInv ==
    /\ \A s \in Status : Proper(next, head[s])
    /\ QueuesSound
    /\ head["SUSPEND"] = NULL
    /\ {Cleaner, Sleeper} \subseteq Queue("RUNNING")
    /\ Cleaner \notin heap

\* The nodes in hand are allocated, on no queue, and each in one hand.
HandInv ==
    /\ \A n \in Node : Held(n) => /\ frame[n].nd \in heap
                                  /\ \A s \in Status : frame[n].nd \notin Queue(s)
    /\ \A n, k \in Node : Held(n) /\ Held(k) /\ frame[n].nd = frame[k].nd => n = k
    /\ \A n \in Node :
         /\ Held(n) /\ frame[n].op = "wake" => status[frame[n].nd] # "DIED"
         /\ pc[n] \in {"fix", "drop"} => status[frame[n].nd] # "SUSPEND"
         /\ pc[n] = "push" /\ (frame[n].op = "exit" => current = n)
              => /\ next[frame[n].nd] = head[Target(frame[n].op)]
                 /\ status[frame[n].nd] = Target(frame[n].op)

\* The pointers with which thread_cleaner walks the queue of the dead.
WalkInv ==
    LET f == frame[Cleaner]
        at == IF pc[Cleaner] = "c_free" THEN f.nx ELSE f.nd
        D == Queue("DIED")
    IN  pc[Cleaner] # "c_start" =>
            /\ at \in D \cup {NULL}
            /\ f.pv # NULL => f.pv \in D /\ next[f.pv] = at

\* The processor: a thread off RUNNING that still runs has fixed its
\* successor, or is about to and can still follow its own link.
CpuInv ==
    LET R == Queue("RUNNING")
    IN  /\ current \in Node
        /\ \A n \in Node : Gone(n) => n \notin R
        /\ current \in R => fix = NULL
        /\ current \notin R =>
             /\ Gone(current) /\ pc[current] # "resume"
             /\ IF pc[current] = "fix"
                THEN fix = NULL /\ next[current] \in R \cup {NULL}
                ELSE fix \in R

\* A thread in any other call, or in its own code, is on RUNNING.
ActiveInv == \A n \in Node : Idle(n) \/ Gone(n) \/ n \in Queue("RUNNING")

\* The tids; thread_create still has the map it read in a register.
TidInv ==
    /\ TidsUnique
    /\ tid[Cleaner] = 0
    /\ \A n \in Node : pc[n] = "store" => \A m \in Live : tid[m] \in frame[n].map

\* The threads that hold a reference to m.
Waiters(m) ==
    {n \in Node : /\ frame[n].op = "wait" /\ frame[n].nd = m
                  /\ pc[n] \in {"unlock", "poll", "dec", "dec2"}}

\* A thread that has not died is referred to as often as its ref says; one
\* that has, at most that often (two waiters that leave at once may lose a
\* decrement, never an increment).
Counted(m) ==
    /\ status[m] # "DIED" => ref[m] = Cardinality(Waiters(m))
    /\ ref[m] >= Cardinality(Waiters(m))
    /\ Waiters(m) # {} => m \in heap

\* What the threads that read or write a ref know of it.
Counting(n) ==
    /\ Held(n) /\ frame[n].op = "create" => Waiters(frame[n].nd) = {}
    /\ pc[n] \in {"store", "link"} /\ frame[n].op = "create" => status[frame[n].nd] # "DIED"
    /\ pc[n] = "inc" => /\ frame[n].nd \in Queue("RUNNING") \ {Cleaner}
                        /\ frame[n].reg = ref[frame[n].nd] + 1
    /\ pc[n] \in {"dec", "dec2"} => status[frame[n].nd] = "DIED"
    /\ pc[n] = "dec2" => frame[n].reg >= Cardinality(Waiters(frame[n].nd)) - 1
    /\ pc[n] \in {"c_reap", "c_free"} => ref[frame[n].nd] = 0

RefInv == \A n \in Node : Counted(n) /\ Counting(n)

LifeInv ==
    /\ TypeInv /\ MutualExclusion
    /\ \A n \in Node : Place(n)
    /\ QueueInv /\ IdleInv /\ HandInv /\ WalkInv /\ CpuInv /\ ActiveInv /\ TidInv
-----------------------------------------------------------------------------
(***************************************************************************)
(* The steps such threads take.                                            *)
(***************************************************************************)
ClientStep(n) ==
    \/ CallCreate(n) \/ CallOp(n) \/ Acquire(n) \/ Spin(n) \/ Body(n) \/ Store(n)
    \/ Fix(n) \/ Drop(n) \/ Link(n) \/ Push(n) \/ Inc(n) \/ Unlock(n) \/ Poll(n)
    \/ Dec(n) \/ Dec2(n) \/ Yield(n)

LifeNext ==
    \/ TimerIsr
    \/ \E n \in Node : Client(n) /\ ClientStep(n)
    \/ CleanerStep \/ SleeperStart \/ SleeperTest

\* What the invariant says of the queues, in the form of the queue lemmas.
LEMMA LifeLists == LifeInv => ListsOK /\ \A s \in Status : Queue(s) \subseteq Node
BY DEF LifeInv, QueueInv, QueuesSound, ListsOK, Queue, Reach

\* A thread that has exited never runs again, so nobody reaches thread_died's
\* panic or unlocks twice; nobody sleeps, so sleeper_polling finds no one.
LEMMA LifeSteps ==
    ASSUME Lifecycle, LifeInv, [Next]_vars
    PROVE  LifeNext \/ UNCHANGED vars
<1>0. \A n \in Node : Place(n)
    BY DEF LifeInv
<1> USE Constants
<1>1. ASSUME NEW n \in Node, Call(n) PROVE Client(n) /\ ClientStep(n)
    <2>1. ~ CallSleep(n)
        BY DEF CallSleep, Lifecycle
    <2> QED BY <1>1, <2>1 DEF Call, CallCreate, CallOp, ClientStep
<1>2. ASSUME NEW n \in Node, Step(n) PROVE Client(n) /\ ClientStep(n)
    <2>1. pc[n] \in {"lock", "body", "store", "fix", "drop", "drop2", "link", "push", "inc",
                     "unlock", "poll", "dec", "dec2", "yield", "resume"} /\ current = n
        BY <1>2 DEF Step, At, Acquire, Spin, Body, Store, Fix, Drop, Drop2, Link, Push, Inc,
                    Unlock, Poll, Dec, Dec2, Yield, Resume
    <2>2. Client(n) /\ frame[n].op \in CallsAt(pc[n])
        BY <1>0, <2>1 DEF Place, Client
    <2>3. ~ Drop2(n)
        BY <2>2 DEF Drop2, At, CallsAt
    <2>4. ~ Resume(n)
        <3>1. SUFFICES ASSUME pc[n] = "resume" PROVE FALSE
            BY DEF Resume, At
        <3>2. Gone(n)
            BY <2>2, <3>1 DEF Gone, CallsAt
        <3> QED BY <2>1, <3>1, <3>2 DEF LifeInv, CpuInv
    <2> QED BY <1>2, <2>2, <2>3, <2>4 DEF Step, ClientStep
<1>3. ASSUME SleeperStep PROVE SleeperStart \/ SleeperTest
    BY <1>0, <1>3 DEF SleeperStep, SleeperDue, SleeperWake, At, Place
<1> QED BY <1>1, <1>2, <1>3 DEF Next, Run, LifeNext

-----------------------------------------------------------------------------
(***************************************************************************)
(* The queues.                                                             *)
(***************************************************************************)
\* Steps that leave the queues and the heap alone.
Quiet == UNCHANGED <<head, next, status, heap>>

\* All but these steps leave the queues and the heap alone.
LEMMA QuietSteps ==
    ASSUME LifeNext \/ UNCHANGED vars
    PROVE  \/ Quiet
           \/ \E n \in Node : /\ Client(n)
                              /\ \/ CallCreate(n) \/ Link(n) \/ Push(n)
                                 \/ At(n, "body") /\ frame[n].op = "create" /\ CreateBody(n)
                                 \/ /\ At(n, "body") /\ frame[n].op \in {"wake", "suspend", "exit"}
                                    /\ MoveBody(n)
           \/ CleanerReap \/ CleanerFree
<1>1. ASSUME NEW n \in Node,
             \/ CallOp(n) \/ Acquire(n) \/ Spin(n) \/ Store(n) \/ Fix(n) \/ Drop(n)
             \/ Inc(n) \/ Unlock(n) \/ Poll(n) \/ Dec(n) \/ Dec2(n) \/ Yield(n)
      PROVE  Quiet
    BY <1>1 DEF CallOp, Acquire, Spin, Store, Fix, Drop, Inc, Unlock, Poll, Dec, Dec2,
                Yield, Quiet, queues, struct
<1>2. ASSUME NEW n \in Node, WaitBody(n) \/ PrintBody(n) PROVE Quiet
    BY <1>2 DEF WaitBody, PrintBody, Quiet, queues, struct
<1>3. TimerIsr \/ CleanerStart \/ CleanerTest \/ SleeperStart \/ SleeperTest \/ UNCHANGED vars
        => Quiet
    BY DEF TimerIsr, CleanerStart, CleanerTest, SleeperStart, SleeperTest, vars, Quiet,
           queues, struct
<1> QED BY <1>1, <1>2, <1>3 DEF LifeNext, ClientStep, Body, CleanerStep

\* A thread on a queue is in nobody's hand, so its tid is in use.
LEMMA QueuedLive ==
    ASSUME LifeInv, NEW s \in Status, NEW m \in Queue(s)
    PROVE  m \in Live
<1>1. m \in heap \cup {Cleaner}
    BY DEF LifeInv, QueueInv, QueuesSound
<1>2. \A k \in Node : Held(k) => frame[k].nd # m
    BY DEF LifeInv, HandInv
<1> QED BY <1>1, <1>2, Constants DEF Live, Held

\* The thread that runs is on RUNNING, unless it is in thread_exit.
LEMMA RunningQueued ==
    ASSUME LifeInv
    PROVE  /\ current \in Node
           /\ Gone(current) \/ current \in Queue("RUNNING")
           /\ current \in Queue("RUNNING") => ~ Gone(current)
BY DEF LifeInv, CpuInv

\* thread_exit finds the caller itself, by its tid; thread_wake a thread on
\* READY, or none.
LEMMA MoveEffect ==
    ASSUME LifeInv, NEW n \in Node, Client(n), At(n, "body"),
           frame[n].op \in {"wake", "suspend", "exit"}, MoveBody(n)
    PROVE  \/ frame[n].op = "wake" /\ Quiet /\ Goto(n, "unlock") /\ UNCHANGED frame
           \/ /\ frame[n].op = "exit" /\ n \in Queue("RUNNING") /\ Unlink(n, "RUNNING")
              /\ Goto(n, "fix") /\ Local(n, [frame[n] EXCEPT !.nd = n])
           \/ /\ frame[n].op = "wake"
              /\ \E m \in Queue("READY") :
                    /\ Unlink(m, "READY") /\ Goto(n, "link")
                    /\ Local(n, [frame[n] EXCEPT !.nd = m])
<1> DEFINE op == frame[n].op
           s == Source(op, frame[n].arg)
           m == FindByTid(frame[n].arg, s)
<1>0. current = n /\ pc[n] = "body"
    BY DEF At
<1>1. Place(n)
    BY DEF LifeInv
<1>2. op \in {"wake", "exit"}
    BY <1>0, <1>1 DEF Place, CallsAt
<1>3. CASE op = "exit"
    <2>1. n \in Queue("RUNNING")
        BY <1>0, RunningQueued DEF Gone
    <2>2. frame[n].arg = tid[n] /\ Self(n)
        BY <1>1, <1>3 DEF Place, Self
    <2>3. "RUNNING" \in Status
        BY DEF Status
    <2>4. FindByTid(tid[n], "RUNNING") = n
        <3>1. FindByTid(tid[n], "RUNNING") # NULL
            BY <2>1, FindIn
        <3>2. /\ FindByTid(tid[n], "RUNNING") \in Queue("RUNNING")
              /\ tid[FindByTid(tid[n], "RUNNING")] = tid[n]
            BY <3>1, FindIn
        <3>3. n \in Live /\ FindByTid(tid[n], "RUNNING") \in Live
            BY <2>1, <2>3, <3>2, QueuedLive
        <3> QED BY <3>2, <3>3 DEF LifeInv, TidInv, TidsUnique
    <2>5. s = "RUNNING" /\ m = n /\ m # NULL
        BY <1>3, <2>2, <2>4, Constants DEF Source, First
    <2> HIDE DEF s, m
    <2>6. Unlink(n, "RUNNING") /\ Goto(n, "fix") /\ Local(n, [frame[n] EXCEPT !.nd = n])
        BY <2>2, <2>5 DEF MoveBody, s, m
    <2> QED BY <1>3, <2>1, <2>6
<1>4. CASE op = "wake"
    <2>1. m = NULL => Quiet /\ Goto(n, "unlock") /\ UNCHANGED frame
        BY DEF MoveBody, Quiet, queues, struct
    <2>2. ASSUME m # NULL PROVE m \in Queue("READY") /\ s = "READY"
        <3>1. m \in Queue(s)
            BY <2>2, FindIn
        <3>2. Queue("SUSPEND") = {}
            BY ReachType, QueueIs DEF LifeInv, QueueInv
        <3>3. s \in {"READY", "SUSPEND"}
            BY <1>4 DEF Source, First, Second
        <3> HIDE DEF m, s
        <3> QED BY <3>1, <3>2, <3>3
    <2>3. m # NULL => /\ Unlink(m, s) /\ Goto(n, "link")
                      /\ Local(n, [frame[n] EXCEPT !.nd = m])
        BY <1>4 DEF MoveBody, Self
    <2> HIDE DEF m, s
    <2> QED BY <1>4, <2>1, <2>2, <2>3
<1> QED BY <1>2, <1>3, <1>4

\* Queues that no link, head or status of is touched.
Untouched ==
    /\ \A s \in Status : Queue(s)' = Queue(s) /\ Proper(next', head'[s])
    /\ \A s \in Status : \A m \in Queue(s) : next'[m] = next[m] /\ status'[m] = status[m]
    /\ UNCHANGED head

\* Changing the link and the status of a node in somebody's hand.
LEMMA InHand ==
    ASSUME LifeInv, NEW n \in Node, Held(n), NEW x \in Ptr, NEW y,
           next' = [next EXCEPT ![frame[n].nd] = x],
           status' = [status EXCEPT ![frame[n].nd] = y], UNCHANGED head
    PROVE  Untouched
<1>1. PICK m \in Node : m = frame[n].nd /\ \A s \in Status : m \notin Queue(s)
    BY DEF LifeInv, HandInv, TypeInv, TypeOK
<1>2. TypeInv /\ ListsOK /\ \A s \in Status : Queue(s) \subseteq Node
    BY LifeLists DEF LifeInv
<1>3. next' \in Links /\ \A a \in Node : a # m => next'[a] = next[a] /\ status'[a] = status[a]
    BY <1>1, <1>2 DEF TypeInv, TypeOK, Links
<1>4. \A s \in Status : Queue(s)' = Queue(s) /\ Proper(next', head'[s])
    BY <1>1, <1>2, <1>3, OffQueue
<1> QED BY <1>1, <1>2, <1>3, <1>4 DEF Untouched

\* The steps that touch no queue, the links of new nodes apart.
LEMMA UntouchedSteps ==
    ASSUME LifeInv
    PROVE  /\ Quiet => Untouched
           /\ \A n \in Node : CallCreate(n) => Untouched
           /\ \A n \in Node : At(n, "body") /\ frame[n].op = "create" /\ CreateBody(n)
                                => Untouched /\ Held(n)
           /\ \A n \in Node : Client(n) /\ Link(n) => Untouched /\ Held(n)
           /\ CleanerFree => Untouched /\ Held(Cleaner)
<1>1. UNCHANGED <<head, next, status>> => Untouched
    BY LifeLists, SameQueues DEF Untouched, ListsOK
<1>2. ASSUME NEW n \in Node, At(n, "body"), frame[n].op = "create", CreateBody(n)
      PROVE  Untouched /\ Held(n)
    <2>1. Held(n)
        BY <1>2 DEF At, Held
    <2>2. /\ next' = [next EXCEPT ![frame[n].nd] = NULL] /\ UNCHANGED head
          /\ status' = [status EXCEPT ![frame[n].nd] = "RUNNING"]
        BY <1>2 DEF CreateBody
    <2> QED BY <2>1, <2>2, InHand DEF Ptr
<1>3. ASSUME NEW n \in Node, Client(n), Link(n) PROVE Untouched /\ Held(n)
    <2>1. Held(n) /\ head[Target(frame[n].op)] \in Ptr
        BY <1>3 DEF Link, At, Held, LifeInv, Place, CallsAt, Target, TypeInv, TypeOK, Status
    <2>2. /\ next' = [next EXCEPT ![frame[n].nd] = head[Target(frame[n].op)]]
          /\ status' = [status EXCEPT ![frame[n].nd] = Target(frame[n].op)]
          /\ UNCHANGED head
        BY <1>3 DEF Link
    <2> QED BY <2>1, <2>2, InHand
<1>4. \A n \in Node : CallCreate(n) => Untouched
    BY <1>1 DEF CallCreate, queues, struct
<1>5. CleanerFree => Untouched /\ Held(Cleaner)
    BY <1>1 DEF CleanerFree, queues, struct, At, Held
<1> QED BY <1>1, <1>2, <1>3, <1>4, <1>5 DEF Quiet

\* What Push does to the queue it pushes to.
LEMMA PushQueues ==
    ASSUME LifeInv, NEW n \in Node, Client(n), Push(n)
    PROVE  \E s \in Status \ {"SUSPEND"}, m \in heap :
             /\ s = Target(frame[n].op) /\ m = frame[n].nd
             /\ status[m] = s /\ \A r \in Status : m \notin Queue(r)
             /\ Queue(s)' = Queue(s) \cup {m} /\ head' = [head EXCEPT ![s] = m]
             /\ \A r \in Status \ {s} : Queue(r)' = Queue(r)
             /\ \A r \in Status : Proper(next', head'[r])
             /\ UNCHANGED <<next, status, heap>>
<1>1. Held(n) /\ Target(frame[n].op) \in Status \ {"SUSPEND"} /\ frame[n].nd \in heap
    BY DEF Push, At, Held, LifeInv, Place, CallsAt, Target, HandInv, Status
<1>2. PICK s \in Status \ {"SUSPEND"}, m \in heap :
         s = Target(frame[n].op) /\ m = frame[n].nd
    BY <1>1
<1>3. /\ m \in Node /\ next[m] = head[s] /\ status[m] = s
      /\ \A r \in Status : m \notin Queue(r)
    BY <1>1, <1>2 DEF Push, At, LifeInv, HandInv, TypeInv, TypeOK
<1>4. head' = [head EXCEPT ![s] = m] /\ UNCHANGED <<next, status, heap>>
    BY <1>2 DEF Push, struct
<1>5. /\ Queue(s)' = Queue(s) \cup {m}
      /\ \A r \in Status \ {s} : Queue(r)' = Queue(r)
      /\ \A r \in Status : Proper(next', head'[r])
    <2>1. TypeInv /\ ListsOK
        BY LifeLists DEF LifeInv
    <2> QED BY <1>2, <1>3, <1>4, <2>1, PushEffect
<1> QED BY <1>2, <1>3, <1>4, <1>5

\* What thread_exit and thread_wake do to the queue they take a thread from.
LEMMA MoveQueues ==
    ASSUME LifeInv, NEW n \in Node, Client(n), At(n, "body"),
           frame[n].op \in {"wake", "suspend", "exit"}, MoveBody(n),
           ~ (Quiet /\ Goto(n, "unlock"))
    PROVE  \E s \in {"RUNNING", "READY"}, m \in heap :
             /\ IF s = "RUNNING"
                THEN m = n /\ frame[n].op = "exit" /\ Goto(n, "fix")
                ELSE frame[n].op = "wake" /\ Goto(n, "link")
             /\ Local(n, [frame[n] EXCEPT !.nd = m])
             /\ m \in Queue(s) /\ Queue(s)' = Queue(s) \ {m} /\ next'[m] = next[m]
             /\ \A r \in Status \ {s} : /\ Queue(r)' = Queue(r) /\ head'[r] = head[r]
                                        /\ \A a \in Queue(r) : next'[a] = next[a]
             /\ \A a \in Node \ Queue(s) : next'[a] = next[a]
             /\ \A r \in Status : Proper(next', head'[r])
             /\ UNCHANGED <<status, heap, current, fix, lock, tid, tidmap, ref>>
<1>1. PICK s \in {"RUNNING", "READY"}, m \in Node :
         /\ m \in Queue(s) /\ Unlink(m, s) /\ Local(n, [frame[n] EXCEPT !.nd = m])
         /\ IF s = "RUNNING"
            THEN m = n /\ frame[n].op = "exit" /\ Goto(n, "fix")
            ELSE frame[n].op = "wake" /\ Goto(n, "link")
    <2>1. \A x \in Queue("READY") \cup Queue("RUNNING") : x \in Node
        BY LifeLists DEF Status
    <2> QED BY <2>1, MoveEffect
<1>2. TypeInv /\ ListsOK /\ s \in Status /\ (\A r \in Status : Queue(r) \subseteq Node)
    BY LifeLists DEF LifeInv, Status
<1>3. /\ Queue(s)' = Queue(s) \ {m} /\ next'[m] = next[m]
      /\ \A r \in Status \ {s} : Queue(r)' = Queue(r)
      /\ \A r \in Status : Proper(next', head'[r])
      /\ \A a \in Node \ Queue(s) : next'[a] = next[a]
    BY <1>1, <1>2, UnlinkEffect
<1>4. \A r \in Status \ {s} : \A a \in Queue(r) : next'[a] = next[a]
    BY <1>2, <1>3 DEF ListsOK
<1>5. \A r \in Status \ {s} : head'[r] = head[r]
    BY <1>1, <1>2 DEF Unlink, queues, TypeInv, TypeOK
<1>6. m \in heap
    BY <1>1, <1>2, Constants DEF LifeInv, QueueInv, QueuesSound, Client, ListsOK, Status
<1>7. UNCHANGED <<status, heap, current, fix, lock, tid, tidmap, ref>>
    BY DEF MoveBody, struct, cpu
<1> QED BY <1>1, <1>3, <1>4, <1>5, <1>6, <1>7

\* What thread_cleaner does to the queue of the dead.
LEMMA ReapQueues ==
    ASSUME LifeInv, CleanerReap
    PROVE  \E m \in heap, p \in Ptr :
             /\ m = frame[Cleaner].nd /\ p = frame[Cleaner].pv /\ m \in Queue("DIED")
             /\ Queue("DIED")' \subseteq Queue("DIED") \ {m}
             /\ next[m] \in Queue("DIED")' \cup {NULL}
             /\ p # NULL => p \in Queue("DIED")' /\ next'[p] = next[m]
             /\ \A r \in Status \ {"DIED"} : /\ Queue(r)' = Queue(r) /\ head'[r] = head[r]
                                             /\ \A a \in Queue(r) : next'[a] = next[a]
             /\ \A r \in Status : Proper(next', head'[r])
             /\ \A a \in Node \ Queue("DIED") : next'[a] = next[a]
             /\ UNCHANGED <<status, heap>>
<1>1. /\ pc[Cleaner] = "c_reap" /\ frame[Cleaner].nd \in Node /\ frame[Cleaner].pv \in Ptr
      /\ frame[Cleaner].nd \in Queue("DIED")
      /\ frame[Cleaner].pv # NULL => /\ frame[Cleaner].pv \in Queue("DIED")
                                     /\ next[frame[Cleaner].pv] = frame[Cleaner].nd
    BY Constants
    DEF CleanerReap, At, TypeInv, TypeOK, PointersOK, Deref, Frame, LifeInv, WalkInv
<1>2. PICK m \in Node, p \in Ptr :
         /\ m = frame[Cleaner].nd /\ p = frame[Cleaner].pv /\ m \in Queue("DIED")
         /\ p # NULL => p \in Queue("DIED") /\ next[p] = m
    BY <1>1
<1>3. /\ IF p # NULL
         THEN next' = [next EXCEPT ![p] = next[m]] /\ UNCHANGED head
         ELSE head' = [head EXCEPT !["DIED"] = next[m]] /\ UNCHANGED next
      /\ UNCHANGED <<status, heap>>
    BY <1>2 DEF CleanerReap, struct
<1>4. TypeInv /\ ListsOK /\ (\A s \in Status : Queue(s) \subseteq Node) /\ "DIED" \in Status
    BY LifeLists DEF LifeInv, Status
<1>5. m \in heap
    BY <1>2, <1>4, Constants DEF LifeInv, QueueInv, QueuesSound, ListsOK, Status
<1>6. \A r \in Status \ {"DIED"} : Queue(r) \subseteq Node \ Queue("DIED")
    BY <1>4 DEF ListsOK
<1> QED BY <1>2, <1>3, <1>4, <1>5, <1>6, ReapEffect

\* The queues stay proper and hold allocated threads of their status.
LEMMA QueueStep ==
    ASSUME Lifecycle, LifeInv, LifeNext \/ UNCHANGED vars
    PROVE  QueueInv'
<1> USE Constants
<1>0. /\ QueueInv /\ ListsOK /\ {"RUNNING", "READY", "SUSPEND", "DIED"} = Status
    BY LifeLists DEF LifeInv, Status
<1>1. ASSUME Untouched, Cleaner \notin heap',
             \A s \in Status : \A m \in Queue(s) : m \in heap => m \in heap'
      PROVE  QueueInv'
    BY <1>0, <1>1 DEF QueueInv, QueuesSound, Untouched
<1>2. CASE Quiet
    BY <1>0, <1>1, <1>2, UntouchedSteps DEF Quiet, QueueInv
<1>3. ASSUME NEW n \in Node, CallCreate(n) PROVE QueueInv'
    BY <1>0, <1>1, <1>3, UntouchedSteps DEF CallCreate, QueueInv
<1>4. ASSUME NEW n \in Node, At(n, "body"), frame[n].op = "create", CreateBody(n)
      PROVE  QueueInv'
    <2>1. heap \ {frame[n].nd} \subseteq heap' /\ heap' \subseteq heap
        BY <1>4 DEF CreateBody
    <2>2. Untouched /\ \A s \in Status : frame[n].nd \notin Queue(s)
        BY <1>4, UntouchedSteps DEF LifeInv, HandInv
    <2> QED BY <1>0, <1>1, <2>1, <2>2 DEF QueueInv
<1>5. ASSUME NEW n \in Node, Client(n), At(n, "body"), frame[n].op \in {"wake", "suspend", "exit"},
             MoveBody(n), ~ Quiet
      PROVE  QueueInv'
    <2>1. PICK s \in {"RUNNING", "READY"}, m \in heap :
             /\ (s = "RUNNING" => m = n)
             /\ m \in Queue(s) /\ Queue(s)' = Queue(s) \ {m}
             /\ \A r \in Status \ {s} : Queue(r)' = Queue(r) /\ head'[r] = head[r]
             /\ \A r \in Status : Proper(next', head'[r])
             /\ UNCHANGED <<status, heap>>
        BY <1>5, MoveQueues
    <2>2. \A r \in Status : Queue(r)' \subseteq Queue(r)
        BY <2>1
    <2>3. {Cleaner, Sleeper} \subseteq Queue("RUNNING")' /\ head'["SUSPEND"] = NULL
        BY <1>0, <1>5, <2>1 DEF QueueInv, Client, ListsOK
    <2> QED BY <1>0, <2>1, <2>2, <2>3 DEF QueueInv, QueuesSound
<1>6. ASSUME NEW n \in Node, Client(n), Link(n) PROVE QueueInv'
    BY <1>0, <1>1, <1>6, UntouchedSteps DEF Link, QueueInv
<1>7. ASSUME NEW n \in Node, Client(n), Push(n) PROVE QueueInv'
    <2>1. PICK s \in Status \ {"SUSPEND"}, m \in heap :
             /\ status[m] = s /\ Queue(s)' = Queue(s) \cup {m} /\ head' = [head EXCEPT ![s] = m]
             /\ \A r \in Status \ {s} : Queue(r)' = Queue(r)
             /\ \A r \in Status : Proper(next', head'[r])
             /\ UNCHANGED <<status, heap>>
        BY <1>7, PushQueues
    <2>2. head'["SUSPEND"] = head["SUSPEND"] /\ Queue("RUNNING") \subseteq Queue("RUNNING")'
        BY <1>0, <2>1 DEF LifeInv, TypeInv, TypeOK
    <2> QED BY <1>0, <2>1, <2>2 DEF QueueInv, QueuesSound
<1>8. CASE CleanerReap
    <2>1. /\ Queue("DIED")' \subseteq Queue("DIED")
          /\ \A r \in Status \ {"DIED"} : Queue(r)' = Queue(r) /\ head'[r] = head[r]
          /\ \A r \in Status : Proper(next', head'[r])
          /\ UNCHANGED <<status, heap>>
        BY <1>8, ReapQueues
    <2> QED BY <1>0, <2>1 DEF QueueInv, QueuesSound
<1>9. CASE CleanerFree
    <2>1. heap \ {frame[Cleaner].nd} \subseteq heap' /\ heap' \subseteq heap
        BY <1>9 DEF CleanerFree
    <2>2. Untouched /\ \A s \in Status : frame[Cleaner].nd \notin Queue(s)
        BY <1>9, UntouchedSteps DEF LifeInv, HandInv
    <2> QED BY <1>0, <1>1, <2>1, <2>2 DEF QueueInv
<1> QED BY <1>2, <1>3, <1>4, <1>5, <1>6, <1>7, <1>8, <1>9, QuietSteps
-----------------------------------------------------------------------------
(***************************************************************************)
(* Where the threads are.                                                  *)
(***************************************************************************)
\* k does not move.
Still(k) == pc'[k] = pc[k] /\ frame'[k] = frame[k]

\* A thread that does not move stays well placed, if its tid stays.
LEMMA PlaceStill ==
    ASSUME NEW k \in Node, Place(k), Still(k), frame[k].op = "exit" => tid'[k] = tid[k]
    PROVE  Place(k)'
BY DEF Place, Still, Gone

\* Only the thread that executes moves, and the new thread in thread_create.
LEMMA OthersStill ==
    ASSUME LifeInv, NEW n \in Node, Client(n), ClientStep(n), NEW k \in Node, k # n
    PROVE  /\ Still(k) \/ (pc[n] = "body" /\ frame[n].op = "create" /\ k = frame[n].nd
                           /\ CreateBody(n) /\ Idle(k)')
           /\ frame[k].op = "exit" /\ Still(k) => tid'[k] = tid[k]
<1>t. /\ pc \in [Node -> PCs] /\ frame \in [Node -> Frame] /\ tid \in [Node -> Tids]
      /\ pc[n] \in Deref => frame[n].nd \in Node
      /\ pc[n] = "body" /\ frame[n].op = "create" => frame[n].nd \in Node
    BY DEF LifeInv, TypeInv, TypeOK, PointersOK
<1>1. CASE pc[n] = "body" /\ frame[n].op = "create" /\ CreateBody(n)
    <2>1. k = frame[n].nd => Idle(k)'
        BY <1>t, <1>1 DEF CreateBody, Idle
    <2>2. k # frame[n].nd => Still(k) /\ tid'[k] = tid[k]
        BY <1>t, <1>1 DEF CreateBody, Still
    <2>3. NoCall.op # "exit" /\ (k = frame[n].nd => frame'[k] = NoCall)
        BY <2>1 DEF NoCall, Idle
    <2> QED BY <1>1, <2>1, <2>2, <2>3 DEF Still
<1>2. CASE Store(n)
    <2>1. Still(k)
        BY <1>t, <1>2 DEF Store, Goto, Still
    <2>2. pc[n] = "store" /\ frame[n].op = "create"
        BY <1>2 DEF Store, At, LifeInv, Place, CallsAt
    <2>3. Idle(frame[n].nd)
        BY <2>2 DEF LifeInv, IdleInv
    <2>4. k = frame[n].nd => frame[k].op = "none"
        BY <2>3 DEF Idle, NoCall
    <2>5. k # frame[n].nd => tid'[k] = tid[k]
        BY <1>t, <1>2 DEF Store
    <2> QED BY <2>1, <2>4, <2>5
<1>3. CASE \/ CallCreate(n) \/ CallOp(n) \/ Acquire(n) \/ Spin(n)
           \/ Fix(n) \/ Drop(n) \/ Link(n) \/ Push(n) \/ Inc(n) \/ Unlock(n) \/ Poll(n)
           \/ Dec(n) \/ Dec2(n) \/ Yield(n)
    <2>1. UNCHANGED tid
        BY <1>3 DEF CallCreate, CallOp, Acquire, Spin, Fix, Drop, Link, Push, Inc,
                    Unlock, Poll, Dec, Dec2, Yield, struct
    <2>2. \/ UNCHANGED pc \/ \E l : pc' = [pc EXCEPT ![n] = l]
        BY <1>3 DEF CallCreate, CallOp, Acquire, Spin, Fix, Drop, Link, Push, Inc,
                    Unlock, Poll, Dec, Dec2, Yield, Goto, Return
    <2>3. \/ UNCHANGED frame \/ \E f : frame' = [frame EXCEPT ![n] = f]
        BY <1>3 DEF CallCreate, CallOp, Acquire, Spin, Fix, Drop, Link, Push, Inc,
                    Unlock, Poll, Dec, Dec2, Yield, Local, Return
    <2> QED BY <1>t, <2>1, <2>2, <2>3 DEF Still
<1>4. CASE WaitBody(n) \/ MoveBody(n) \/ PrintBody(n)
    <2>1. UNCHANGED tid
        BY <1>4 DEF WaitBody, MoveBody, PrintBody, struct
    <2>2. \E l : pc' = [pc EXCEPT ![n] = l]
        BY <1>4 DEF WaitBody, MoveBody, PrintBody, Goto
    <2>3. \/ UNCHANGED frame \/ \E f : frame' = [frame EXCEPT ![n] = f]
        BY <1>4 DEF WaitBody, MoveBody, PrintBody, Local
    <2> QED BY <1>t, <2>1, <2>2, <2>3 DEF Still
<1> QED BY <1>1, <1>2, <1>3, <1>4 DEF ClientStep, Body, At

\* Where a client's step takes it.
LEMMA PlaceMover ==
    ASSUME Lifecycle, LifeInv, NEW n \in Node, Client(n), ClientStep(n)
    PROVE  Place(n)'
<1> USE Constants
<1>t. /\ pc \in [Node -> PCs] /\ frame \in [Node -> Frame] /\ tid \in [Node -> Tids]
      /\ n # Cleaner /\ n # Sleeper /\ Place(n)
    BY DEF LifeInv, TypeInv, TypeOK, Client
<1>1. CASE CallCreate(n)
    BY <1>t, <1>1 DEF CallCreate, Goto, Local, Place, Gone, Client, CallsAt, NoCall
<1>2. CASE CallOp(n)
    <2>1. PICK op \in SelfCalls \cup OtherCalls, t \in Targets :
             /\ op \in IF t = tid[n] THEN SelfCalls ELSE OtherCalls
             /\ t = 0 => op = "wake"
             /\ Local(n, [NoCall EXCEPT !.op = op, !.arg = t])
        BY <1>2 DEF CallOp
    <2>2. pc'[n] = "lock" /\ frame'[n] = [NoCall EXCEPT !.op = op, !.arg = t] /\ tid'[n] = tid[n]
        BY <1>t, <1>2, <2>1 DEF CallOp, Goto, Local, struct
    <2>3. frame'[n].op = op /\ frame'[n].arg = t /\ frame'[n].nd = NULL
        BY <2>2 DEF NoCall
    <2>4. op \in {"wake", "wait", "print", "exit"} /\ (op = "exit" => t = tid[n])
        BY <2>1 DEF Lifecycle
    <2> QED BY <1>t, <2>1, <2>2, <2>3, <2>4 DEF Place, Gone, Client, CallsAt
<1>3. CASE Acquire(n)
    BY <1>t, <1>3 DEF Acquire, At, Goto, Place, Gone, Client, CallsAt, struct
<1>4. CASE Spin(n)
    BY <1>t, <1>4 DEF Spin, Place, Gone, struct
<1>5. CASE Body(n)
    <2>1. CASE frame[n].op = "create" /\ CreateBody(n)
        <3>1. /\ pc'[n] \in {"unlock", "store"}
              /\ frame'[n] = [frame[n] EXCEPT !.map = tidmap]
            BY <1>t, <2>1 DEF CreateBody
        <3>2. frame'[n].op = "create"
            BY <1>t, <2>1, <3>1 DEF Frame
        <3> QED BY <1>t, <3>1, <3>2 DEF Place, Gone, Client, CallsAt
    <2>2. CASE frame[n].op = "wait" /\ WaitBody(n)
        <3>1. pc'[n] \in {"unlock", "inc"} /\ frame'[n].op = "wait" /\ frame'[n].arg = frame[n].arg
            <4> DEFINE m == FindByTid(frame[n].arg, Source("wait", frame[n].arg))
                       r == (ref[m] + 1) % RefMod
            <4>1. \/ pc'[n] = "unlock" /\ frame' = frame
                  \/ pc'[n] = "inc" /\ frame'[n] = [frame[n] EXCEPT !.nd = m, !.reg = r]
                BY <1>t, <2>2 DEF WaitBody, Goto, Local
            <4> HIDE DEF m, r
            <4> QED BY <1>t, <2>2, <4>1 DEF Frame
        <3> QED BY <1>t, <2>2, <3>1 DEF Place, Gone, Client, CallsAt
    <2>3. CASE frame[n].op \in {"wake", "suspend", "exit"} /\ MoveBody(n)
        <3>1. \/ frame[n].op = "wake" /\ pc'[n] = "unlock" /\ frame' = frame
              \/ frame[n].op = "exit" /\ pc'[n] = "fix" /\ frame'[n] = [frame[n] EXCEPT !.nd = n]
              \/ /\ frame[n].op = "wake" /\ pc'[n] = "link"
                 /\ \E m : frame'[n] = [frame[n] EXCEPT !.nd = m]
            <4>1. At(n, "body")
                BY <1>5 DEF Body
            <4>2. \/ frame[n].op = "wake" /\ Goto(n, "unlock") /\ UNCHANGED frame
                  \/ /\ frame[n].op = "exit" /\ Goto(n, "fix")
                     /\ Local(n, [frame[n] EXCEPT !.nd = n])
                  \/ /\ frame[n].op = "wake" /\ Goto(n, "link")
                     /\ \E m : Local(n, [frame[n] EXCEPT !.nd = m])
                BY <2>3, <4>1, MoveEffect
            <4> QED BY <1>t, <4>2 DEF Goto, Local
        <3>2. tid' = tid
            BY <2>3 DEF MoveBody, struct
        <3>3. /\ frame'[n].op = frame[n].op /\ frame'[n].arg = frame[n].arg
              /\ frame[n].op = "exit" => frame'[n].nd = n
            BY <1>t, <3>1 DEF Frame
        <3> HIDE DEF Frame
        <3> QED BY <1>t, <3>1, <3>2, <3>3 DEF Place, Gone, Client, CallsAt
    <2>4. CASE frame[n].op = "print" /\ PrintBody(n)
        BY <1>t, <2>4 DEF PrintBody, Goto, Place, Gone, Client, CallsAt, struct
    <2> QED BY <1>5, <2>1, <2>2, <2>3, <2>4 DEF Body
<1>6. CASE Store(n)
    BY <1>t, <1>6 DEF Store, At, Goto, Place, Gone, Client, CallsAt
<1>7. CASE Fix(n)
    BY <1>t, <1>7 DEF Fix, At, Goto, Place, Gone, Client, CallsAt, struct
<1>8. CASE Drop(n)
    <2>1. pc[n] = "drop" /\ Gone(n) /\ frame[n].nd = n
        BY <1>t, <1>8 DEF Drop, At, Place, Gone, Client, CallsAt
    <2>2. status[n] # "SUSPEND"
        BY <2>1 DEF LifeInv, HandInv
    <2>3. pc'[n] = "link" /\ frame' = frame /\ tid' = tid
        BY <1>t, <1>8, <2>1, <2>2 DEF Drop, Goto, struct
    <2> QED BY <1>t, <2>1, <2>3 DEF Place, Gone, Client, CallsAt
<1>9. CASE Link(n) \/ Push(n) \/ Inc(n)
    BY <1>t, <1>9 DEF Link, Push, Inc, At, Goto, Place, Gone, Client, CallsAt, struct
<1>10. CASE Unlock(n)
    <2>1. tid' = tid /\ pc[n] = "unlock"
        BY <1>10 DEF Unlock, At, struct
    <2>2. \/ pc'[n] = "poll" /\ frame[n].op = "wait" /\ frame' = frame
          \/ pc'[n] = "yield" /\ frame[n].op = "exit" /\ frame' = frame
          \/ pc'[n] = "run" /\ frame'[n] = NoCall
        <3>1. frame[n].op # "suspend"
            BY <1>t, <2>1 DEF Place, Client, CallsAt
        <3> QED BY <1>t, <1>10, <3>1 DEF Unlock, Goto, Local, Return, Self
    <2>3. NoCall.op = "none"
        BY DEF NoCall
    <2> QED BY <1>t, <2>1, <2>2, <2>3 DEF Place, Gone, Client, CallsAt
<1>11. CASE Poll(n)
    BY <1>t, <1>11 DEF Poll, At, Goto, Place, Gone, Client, CallsAt, struct
<1>12. CASE Dec(n)
    <2>1. /\ pc[n] = "dec" /\ pc'[n] = "dec2"
          /\ frame'[n].op = frame[n].op /\ frame'[n].arg = frame[n].arg
        BY <1>t, <1>12 DEF Dec, At, Goto, Local, Frame
    <2> QED BY <1>t, <2>1 DEF Place, Gone, Client, CallsAt
<1>13. CASE Dec2(n)
    <2>1. pc'[n] = "run" /\ frame'[n].op = "none"
        BY <1>t, <1>13 DEF Dec2, Return, Goto, Local, NoCall
    <2> QED BY <1>t, <2>1 DEF Place, Gone, Client, CallsAt
<1>14. CASE Yield(n)
    BY <1>t, <1>14 DEF Yield, At, Goto, Place, Gone, Client, CallsAt, struct
<1> QED BY <1>1, <1>2, <1>3, <1>4, <1>5, <1>6, <1>7, <1>8, <1>9, <1>10, <1>11, <1>12,
           <1>13, <1>14 DEF ClientStep
\* The steps of thread_cleaner and of sleeper_polling move no other thread.
LEMMA KernelStill ==
    ASSUME LifeInv, NEW k \in Node
    PROVE  /\ CleanerStep /\ k # Cleaner => Still(k)
           /\ (SleeperStart \/ SleeperTest) /\ k # Sleeper => Still(k)
           /\ TimerIsr \/ UNCHANGED vars => Still(k)
           /\ CleanerStep \/ SleeperStart \/ SleeperTest \/ TimerIsr \/ UNCHANGED vars
                => UNCHANGED tid
<1>t. pc \in [Node -> PCs] /\ frame \in [Node -> Frame]
    BY DEF LifeInv, TypeInv, TypeOK
<1>1. CleanerStep /\ k # Cleaner => Still(k)
    BY <1>t DEF CleanerStep, CleanerStart, CleanerTest, CleanerReap, CleanerFree, Goto, Local, Still
<1>2. (SleeperStart \/ SleeperTest) /\ k # Sleeper => Still(k)
    BY <1>t DEF SleeperStart, SleeperTest, Goto, Local, Still
<1>3. TimerIsr \/ UNCHANGED vars => Still(k)
    BY DEF TimerIsr, vars, Still
<1>4. CleanerStep \/ SleeperStart \/ SleeperTest \/ TimerIsr \/ UNCHANGED vars => UNCHANGED tid
    BY DEF CleanerStep, CleanerStart, CleanerTest, CleanerReap, CleanerFree, SleeperStart,
           SleeperTest, TimerIsr, vars, struct
<1> QED BY <1>1, <1>2, <1>3, <1>4

\* The node thread_create works on is a client's.
LEMMA HeldIsClient ==
    ASSUME LifeInv, NEW n \in Node, Held(n)
    PROVE  Client(frame[n].nd) /\ frame[n].nd \in Node /\ frame[n].nd \notin Queue("RUNNING")
BY DEF LifeInv, HandInv, QueueInv, Client, TypeInv, TypeOK, Status

\* Every step leaves every thread at a place of the code where it can be.
LEMMA PlaceStep ==
    ASSUME Lifecycle, LifeInv, LifeNext \/ UNCHANGED vars, NEW k \in Node
    PROVE  Place(k)'
<1> USE Constants
<1>t. pc \in [Node -> PCs] /\ frame \in [Node -> Frame] /\ Place(k)
    BY DEF LifeInv, TypeInv, TypeOK
<1>1. ASSUME NEW n \in Node, Client(n), ClientStep(n) PROVE Place(k)'
    <2>1. CASE k = n
        BY <1>1, <2>1, PlaceMover
    <2>2. CASE k # n /\ Still(k)
        BY <1>1, <1>t, <2>2, OthersStill, PlaceStill
    <2>3. CASE k # n /\ pc[n] = "body" /\ frame[n].op = "create" /\ k = frame[n].nd /\ Idle(k)'
        <3>1. Held(n)
            BY <2>3 DEF Held
        <3>2. Client(k)
            BY <2>3, <3>1, HeldIsClient
        <3>3. pc'[k] = "run" /\ frame'[k].op = "none"
            BY <2>3 DEF Idle, NoCall
        <3> QED BY <3>2, <3>3 DEF Place, Gone, Client, CallsAt
    <2> QED BY <1>1, <2>1, <2>2, <2>3, OthersStill
<1>2. CASE CleanerStep
    <2>1. k # Cleaner => Place(k)'
        BY <1>2, <1>t, KernelStill, PlaceStill
    <2>2. ASSUME k = Cleaner PROVE Place(k)'
        <3>0. Cleaner # Sleeper
            BY ThreadAssumption
        <3>1. pc'[Cleaner] \in {"c_start", "c_test", "c_reap", "c_free"} /\ frame'[Cleaner].op = "none"
            <4>1. frame[Cleaner].op = "none" /\ pc[Cleaner] \in {"c_start", "c_test", "c_reap", "c_free"}
                BY <1>t, <2>2 DEF Place
            <4>2. CASE CleanerStart
                BY <1>t, <4>2 DEF CleanerStart, Goto, Local, NoCall
            <4>3. CASE CleanerTest
                <5>1. /\ \/ UNCHANGED pc \/ Goto(Cleaner, "c_start") \/ Goto(Cleaner, "c_reap")
                      /\ \/ UNCHANGED frame \/ Local(Cleaner, NoCall)
                         \/ \E p, q : Local(Cleaner, [NoCall EXCEPT !.pv = p, !.nd = q])
                    BY <4>3 DEF CleanerTest
                <5>2. pc'[Cleaner] \in {"c_start", "c_test", "c_reap", "c_free"}
                    BY <1>t, <4>1, <5>1 DEF Goto
                <5>3. \/ frame'[Cleaner] = frame[Cleaner] \/ frame'[Cleaner] = NoCall
                      \/ \E p, q : frame'[Cleaner] = [NoCall EXCEPT !.pv = p, !.nd = q]
                    BY <1>t, <5>1 DEF Local
                <5>4. NoCall.op = "none" /\ \A p, q : [NoCall EXCEPT !.pv = p, !.nd = q].op = "none"
                    BY DEF NoCall
                <5>5. frame'[Cleaner].op = "none"
                    BY <4>1, <5>3, <5>4
                <5> QED BY <5>2, <5>5
            <4>4. CASE CleanerReap
                BY <1>t, <4>1, <4>4 DEF CleanerReap, Goto, Local, Frame
            <4>5. CASE CleanerFree
                <5>1. Held(Cleaner)
                    BY <4>5 DEF CleanerFree, At, Held
                <5>2. frame[Cleaner].nd \in heap
                    BY <5>1 DEF LifeInv, HandInv
                <5>3. /\ Goto(Cleaner, "c_test")
                      /\ \E p, q : Local(Cleaner, [frame[Cleaner] EXCEPT !.nd = p, !.nx = q])
                    BY <4>5, <5>2 DEF CleanerFree
                <5>4. \E p, q : frame'[Cleaner] = [frame[Cleaner] EXCEPT !.nd = p, !.nx = q]
                    BY <1>t, <5>3 DEF Local
                <5>5. frame'[Cleaner].op = "none"
                    BY <1>t, <4>1, <5>4 DEF Frame
                <5> QED BY <1>t, <5>3, <5>5 DEF Goto
            <4> QED BY <1>2, <4>2, <4>3, <4>4, <4>5 DEF CleanerStep
        <3> QED BY <2>2, <3>0, <3>1 DEF Place, Gone, Client
    <2> QED BY <2>1, <2>2
<1>3. CASE SleeperStart \/ SleeperTest
    <2>1. k # Sleeper => Place(k)'
        BY <1>3, <1>t, KernelStill, PlaceStill
    <2>2. ASSUME k = Sleeper PROVE Place(k)'
        <3>0. Cleaner # Sleeper
            BY ThreadAssumption
        <3>1. pc'[Sleeper] \in {"s_start", "s_test"} /\ frame'[Sleeper] = NoCall
            <4>1. frame[Sleeper] = NoCall /\ frame[Sleeper].nd = NULL
                BY <1>t, <2>2 DEF Place, NoCall
            <4>2. CASE SleeperStart
                BY <1>t, <4>2 DEF SleeperStart, Goto, Local, NoCall, LifeInv, QueueInv
            <4>3. CASE SleeperTest
                BY <1>t, <4>1, <4>3 DEF SleeperTest, Goto, Local
            <4> QED BY <1>3, <4>2, <4>3
        <3>2. frame'[Sleeper].op = "none" /\ frame'[Sleeper].nd = NULL
            BY <3>1 DEF NoCall
        <3> QED BY <2>2, <3>0, <3>1, <3>2 DEF Place, Gone, Client
    <2> QED BY <2>1, <2>2
<1>4. CASE TimerIsr \/ UNCHANGED vars
    BY <1>4, <1>t, KernelStill, PlaceStill
<1> QED BY <1>1, <1>2, <1>3, <1>4 DEF LifeNext

-----------------------------------------------------------------------------
(***************************************************************************)
(* Threads that have yet to run.                                           *)
(***************************************************************************)
\* A thread that has yet to run and is not on RUNNING stays as it is.
LEMMA IdleKept ==
    ASSUME Lifecycle, LifeInv, LifeNext \/ UNCHANGED vars, NEW x \in Node, Idle(x),
           x \notin Queue("RUNNING")
    PROVE  Idle(x)'
<1>1. x # current
    BY RunningQueued DEF Idle, Gone, NoCall
<1>2. x # Cleaner /\ x # Sleeper
    BY DEF LifeInv, QueueInv
<1>3. Still(x) => Idle(x)'
    BY DEF Still, Idle
<1>4. ASSUME NEW n \in Node, Client(n), ClientStep(n) PROVE Idle(x)'
    <2>1. n = current
        BY <1>4 DEF ClientStep, CallCreate, CallOp, Acquire, Spin, Body, Store, Fix, Drop, Link,
                    Push, Inc, Unlock, Poll, Dec, Dec2, Yield, At
    <2> QED BY <1>1, <1>3, <1>4, <2>1, OthersStill
<1> QED BY <1>2, <1>3, <1>4, KernelStill DEF LifeNext

\* Threads on READY, and in the hands of their creator or waker, stay idle.
LEMMA IdleStep ==
    ASSUME Lifecycle, LifeInv, LifeNext \/ UNCHANGED vars
    PROVE  IdleInv'
<1> USE Constants
<1>0. /\ {"RUNNING", "READY", "SUSPEND", "DIED"} = Status /\ ListsOK
      /\ \A s \in Status : Queue(s) \subseteq Node
    BY LifeLists DEF Status
<1>t. /\ pc \in [Node -> PCs] /\ frame \in [Node -> Frame]
    BY DEF LifeInv, TypeInv, TypeOK
<1>1. \A m \in Queue("READY") : Idle(m) /\ m \notin Queue("RUNNING") /\ Idle(m)'
    BY <1>0, IdleKept DEF ListsOK, LifeInv, IdleInv
<1>2. ASSUME NEW n \in Node, pc[n] \in {"store", "link", "push"}, frame[n].op \in {"create", "wake"}
      PROVE  \E x \in Node : x = frame[n].nd /\ Idle(x)'
    <2>1. Held(n)
        BY <1>2, <1>t DEF Held, LifeInv, Place, CallsAt, Client
    <2>2. frame[n].nd \in Node /\ frame[n].nd \notin Queue("RUNNING") /\ Idle(frame[n].nd)
        BY <1>2, <2>1, HeldIsClient DEF LifeInv, IdleInv
    <2>3. PICK x \in Node : x = frame[n].nd
        BY <2>2
    <2>4. Idle(x)'
        BY <2>2, <2>3, IdleKept
    <2> QED BY <2>3, <2>4
\* READY
<1>3. ASSUME NEW x \in Queue("READY")' PROVE Idle(x)'
    <2>1. CASE x \in Queue("READY")
        BY <1>1, <2>1
    <2>2. CASE x \notin Queue("READY")
        <3>1. ~ Untouched
            BY <1>0, <2>2 DEF Untouched
        <3>2. ~ CleanerReap
            BY <1>0, <2>2, ReapQueues
        <3>3. ASSUME NEW n \in Node, Client(n), At(n, "body"), MoveBody(n), ~ Quiet,
                     frame[n].op \in {"wake", "suspend", "exit"}
              PROVE  FALSE
            <4>1. PICK s \in {"RUNNING", "READY"}, m \in heap :
                    /\ Queue(s)' = Queue(s) \ {m}
                    /\ \A r \in Status \ {s} : Queue(r)' = Queue(r)
                BY <3>3, MoveQueues
            <4>2. Queue("READY")' \subseteq Queue("READY")
                BY <1>0, <4>1
            <4> QED BY <2>2, <4>2
        <3>4. PICK n \in Node : Client(n) /\ Push(n)
            BY <3>1, <3>2, <3>3, QuietSteps, UntouchedSteps
        <3>5. x = frame[n].nd /\ Target(frame[n].op) = "READY"
            BY <1>0, <2>2, <3>4, PushQueues
        <3>6. pc[n] = "push" /\ frame[n].op = "create"
            BY <3>4, <3>5 DEF Push, At, Target, LifeInv, Place, CallsAt
        <3> QED BY <1>2, <3>5, <3>6
    <2> QED BY <2>1, <2>2
\* the nodes in hand
<1>4. ASSUME NEW k \in Node, pc'[k] \in {"store", "link", "push"}, frame'[k].op \in {"create", "wake"}
      PROVE  \E x \in Node : x = frame'[k].nd /\ Idle(x)'
    <2>1. CASE Still(k)
        BY <1>2, <1>4, <2>1 DEF Still
    <2>2. CASE ~ Still(k)
        <3>1. PICK n \in Node : Client(n) /\ ClientStep(n)
            <4>1. k \notin {Cleaner, Sleeper}
                BY <1>4, PlaceStep DEF Place
            <4> QED BY <2>2, <4>1, KernelStill DEF LifeNext
        <3>2. k = n
            BY <1>4, <2>2, <3>1, OthersStill DEF Idle
        <3>t. Place(n) /\ frame[n].op \in CallsAt(pc[n])
            BY <3>1 DEF LifeInv, Place
        <3>3. CASE pc[n] = "body" /\ frame[n].op = "create" /\ CreateBody(n)
            <4>1. Held(n)
                BY <3>3 DEF Held
            <4>2. PICK x \in Node : x = frame[n].nd /\ x # n
                <5>1. frame[n].nd # n
                    <6>1. current = n
                        BY <3>1, <3>3 DEF ClientStep, CallCreate, CallOp, Acquire, Spin, Body, Store, Fix,
                              Drop, Link, Push, Inc, Unlock, Poll, Dec, Dec2, Yield, At
                    <6>2. n \in Queue("RUNNING")
                        BY <3>3, <6>1, RunningQueued DEF Gone
                    <6> QED BY <4>1, <6>2, HeldIsClient
                <5> QED BY <4>1, <5>1, HeldIsClient
            <4>3. frame'[n] = [frame[n] EXCEPT !.map = tidmap] /\ Idle(x)'
                BY <1>t, <3>3, <4>2 DEF CreateBody, Idle
            <4>4. frame'[n].nd = frame[n].nd
                BY <1>t, <4>3 DEF Frame
            <4> QED BY <3>2, <4>2, <4>3, <4>4
        <3>4. CASE Store(n) \/ Link(n)
            <4>1. frame' = frame /\ pc[n] \in {"store", "link"}
                BY <3>4 DEF Store, Link, At
            <4> QED BY <1>2, <1>4, <3>2, <4>1
        <3>5. CASE /\ At(n, "body") /\ frame[n].op \in {"wake", "suspend", "exit"} /\ MoveBody(n)
            <4>1. PICK m \in Queue("READY") : Local(n, [frame[n] EXCEPT !.nd = m])
                <5>1. pc'[n] \notin {"unlock", "fix"}
                    BY <1>4, <3>2
                <5> QED BY <1>t, <3>1, <3>5, <5>1, MoveEffect DEF Goto
            <4>2. frame'[n].nd = m
                BY <1>t, <4>1 DEF Local, Frame
            <4> QED BY <1>0, <1>1, <3>2, <4>1, <4>2
        <3>6. ~ Drop(n)
            <4>1. SUFFICES ASSUME Drop(n) PROVE FALSE
                OBVIOUS
            <4>2. pc[n] = "drop" /\ frame[n].op = "exit"
                BY <3>t, <4>1 DEF Drop, At, CallsAt
            <4>3. \/ UNCHANGED frame \/ \E r : frame'[n] = [frame[n] EXCEPT !.reg = r]
                BY <1>t, <4>1 DEF Drop, Local
            <4>4. frame'[n].op = "exit"
                BY <1>t, <4>2, <4>3 DEF Frame
            <4> QED BY <1>4, <3>2, <4>4
        <3> QED
            <4>1. pc'[n] \in {"store", "link", "push"} /\ frame'[n].op \in {"create", "wake"} /\ ~ Still(n)
                BY <1>4, <2>2, <3>2
            <4>2. \/ Store(n) \/ Drop(n) \/ Link(n) \/ Body(n)
                <5>1. ~ (CallCreate(n) \/ CallOp(n) \/ Acquire(n) \/ Spin(n) \/ Push(n) \/ Inc(n))
                    BY <1>t, <4>1 DEF CallCreate, CallOp, Acquire, Spin, Push, Inc, Goto, Still
                <5>2. ~ (Unlock(n) \/ Poll(n) \/ Dec(n) \/ Dec2(n) \/ Yield(n))
                    BY <1>t, <4>1 DEF Unlock, Poll, Dec, Dec2, Yield, Goto, Return, Still
                <5>3. ~ Fix(n)
                    <6>1. Fix(n) => frame' = frame /\ frame[n].op = "exit"
                        BY <3>t DEF Fix, At, CallsAt
                    <6> QED BY <4>1, <6>1
                <5> QED BY <3>1, <5>1, <5>2, <5>3 DEF ClientStep
            <4>3. Body(n) => \/ frame[n].op = "create" /\ CreateBody(n) /\ pc[n] = "body"
                             \/ /\ At(n, "body") /\ frame[n].op \in {"wake", "suspend", "exit"}
                                /\ MoveBody(n)
                BY <1>t, <4>1 DEF Body, WaitBody, PrintBody, Goto, At
            <4> QED BY <3>3, <3>4, <3>5, <3>6, <4>2, <4>3
    <2> QED BY <2>1, <2>2
<1> QED BY <1>3, <1>4 DEF IdleInv
-----------------------------------------------------------------------------
(***************************************************************************)
(* The processor.                                                          *)
(***************************************************************************)
\* Only the current thread executes.
LEMMA ClientIsCurrent ==
    ASSUME NEW n \in Node, ClientStep(n)
    PROVE  current = n
BY DEF ClientStep, CallCreate, CallOp, Acquire, Spin, Body, Store, Fix, Drop, Link, Push, Inc,
       Unlock, Poll, Dec, Dec2, Yield, At

\* A thread of RUNNING has its successor on RUNNING, which is never empty.
LEMMA RunningLinks ==
    ASSUME LifeInv
    PROVE  /\ head["RUNNING"] \in Queue("RUNNING")
           /\ \A a \in Queue("RUNNING") : next[a] \in (Queue("RUNNING") \ {a}) \cup {NULL}
<1> DEFINE R == Queue("RUNNING")
           h == head["RUNNING"]
<1>1. /\ TypeInv /\ "RUNNING" \in Status /\ R = ReachIn(next, h) /\ Cleaner \in R
      /\ Proper(next, h)
    BY QueueIs DEF LifeInv, Status, QueueInv
<1>2. next \in Links /\ h \in Ptr
    BY <1>1, LinkTypes
<1>3. h \in R
    BY <1>1, <1>2, ReachType, ReachSelf DEF Ptr
<1>4. ASSUME NEW a \in R PROVE next[a] \in (R \ {a}) \cup {NULL}
    <2>1. next[a] \in R \cup {NULL}
        BY <1>1, <1>2, ReachClosed DEF ClosedIn
    <2>2. next[a] # NULL => next[a] \in Node
        BY <1>1, <2>1, ReachType
    <2>3. next[a] # a
        BY <1>1, <1>2, <2>2, NoCycle, ReachSelf, ReachType, Constants
    <2> QED BY <2>1, <2>3
<1> QED BY <1>3, <1>4

\* Whenever the scheduler is called it picks a thread of RUNNING.
LEMMA NextOnRunning ==
    ASSUME LifeInv PROVE NextThread \in Queue("RUNNING")
<1> DEFINE R == Queue("RUNNING")
<1>1. NULL \notin R
    BY Constants DEF Queue, Reach
<1>2. current \in R => NextThread \in R
    BY <1>1, RunningLinks DEF LifeInv, CpuInv, NextThread
<1>3. current \notin R => NextThread \in R
    BY <1>1, RunningLinks DEF LifeInv, CpuInv, NextThread
<1> QED BY <1>2, <1>3

\* How RUNNING changes: a thread exits, or one that has yet to run is woken.
LEMMA RunningStep ==
    ASSUME Lifecycle, LifeInv, LifeNext \/ UNCHANGED vars
    PROVE  \/ Queue("RUNNING")' = Queue("RUNNING")
           \/ \E n \in Node : /\ Client(n) /\ At(n, "body") /\ frame[n].op = "exit" /\ MoveBody(n)
                              /\ n \in Queue("RUNNING") /\ Queue("RUNNING")' = Queue("RUNNING") \ {n}
                              /\ next'[n] = next[n] /\ Goto(n, "fix")
                              /\ Local(n, [frame[n] EXCEPT !.nd = n])
                              /\ UNCHANGED <<current, fix>>
           \/ \E n \in Node : /\ Client(n) /\ Push(n) /\ frame[n].op = "wake"
                              /\ Queue("RUNNING")' = Queue("RUNNING") \cup {frame[n].nd}
<1>0. {"RUNNING", "READY", "SUSPEND", "DIED"} = Status
    BY DEF Status
<1>1. Untouched \/ CleanerReap => Queue("RUNNING")' = Queue("RUNNING")
    BY <1>0, ReapQueues DEF Untouched
<1>2. ASSUME NEW n \in Node, Client(n), Push(n), Queue("RUNNING")' # Queue("RUNNING")
      PROVE  frame[n].op = "wake" /\ Queue("RUNNING")' = Queue("RUNNING") \cup {frame[n].nd}
    <2>1. Target(frame[n].op) = "RUNNING" /\ Queue("RUNNING")' = Queue("RUNNING") \cup {frame[n].nd}
        BY <1>0, <1>2, PushQueues
    <2> QED BY <2>1 DEF Target
<1>3. ASSUME NEW n \in Node, Client(n), At(n, "body"), MoveBody(n), ~ Quiet,
             frame[n].op \in {"wake", "suspend", "exit"}, Queue("RUNNING")' # Queue("RUNNING")
      PROVE  /\ frame[n].op = "exit" /\ n \in Queue("RUNNING")
             /\ Queue("RUNNING")' = Queue("RUNNING") \ {n}
             /\ next'[n] = next[n] /\ Goto(n, "fix") /\ Local(n, [frame[n] EXCEPT !.nd = n])
             /\ UNCHANGED <<current, fix>>
    <2>1. PICK s \in {"RUNNING", "READY"}, m \in heap :
             /\ s = "RUNNING" => m = n /\ frame[n].op = "exit" /\ Goto(n, "fix")
             /\ Local(n, [frame[n] EXCEPT !.nd = m])
             /\ m \in Queue(s) /\ Queue(s)' = Queue(s) \ {m} /\ next'[m] = next[m]
             /\ \A r \in Status \ {s} : Queue(r)' = Queue(r)
             /\ UNCHANGED <<current, fix>>
        BY <1>3, MoveQueues
    <2>2. s = "RUNNING"
        BY <1>0, <1>3, <2>1
    <2> QED BY <2>1, <2>2
<1> QED BY <1>1, <1>2, <1>3, QuietSteps, UntouchedSteps

\* A call stays the call it is.
LEMMA BodyKeepsOp ==
    ASSUME LifeInv, NEW n \in Node, Body(n)
    PROVE  frame'[n].op = frame[n].op
<1>t. frame \in [Node -> Frame]
    BY DEF LifeInv, TypeInv, TypeOK
<1>1. CASE CreateBody(n)
    <2>1. frame'[n] = [frame[n] EXCEPT !.map = tidmap]
        BY <1>t, <1>1 DEF CreateBody
    <2> QED BY <1>t, <2>1 DEF Frame
<1>2. CASE WaitBody(n) \/ MoveBody(n) \/ PrintBody(n)
    <2>1. \/ UNCHANGED frame
          \/ \E m, r : frame'[n] = [frame[n] EXCEPT !.nd = m, !.reg = r]
          \/ \E m : frame'[n] = [frame[n] EXCEPT !.nd = m]
        BY <1>t, <1>2 DEF WaitBody, MoveBody, PrintBody, Local
    <2> QED BY <1>t, <2>1 DEF Frame
<1> QED BY <1>1, <1>2 DEF Body

\* thread_exit takes the caller out of RUNNING.
LEMMA ExitBody ==
    ASSUME LifeInv, NEW n \in Node, Client(n), At(n, "body"), frame[n].op = "exit", MoveBody(n)
    PROVE  /\ n \in Queue("RUNNING") /\ Queue("RUNNING")' = Queue("RUNNING") \ {n}
           /\ next'[n] = next[n] /\ Goto(n, "fix") /\ UNCHANGED <<current, fix>>
<1>1. n \in Queue("RUNNING") /\ Unlink(n, "RUNNING") /\ Goto(n, "fix")
    BY MoveEffect
<1>2. TypeInv /\ ListsOK /\ "RUNNING" \in Status
    BY LifeLists DEF LifeInv, Status
<1>3. Queue("RUNNING")' = Queue("RUNNING") \ {n} /\ next'[n] = next[n]
    BY <1>1, <1>2, UnlinkEffect
<1> QED BY <1>1, <1>3 DEF MoveBody, cpu

\* The current thread stays in thread_exit; nobody gets there without
\* leaving RUNNING.
LEMMA GoneStep ==
    ASSUME Lifecycle, LifeInv, LifeNext \/ UNCHANGED vars, NEW k \in Node
    PROVE  /\ k = current /\ Gone(k) => Gone(k)'
           /\ Gone(k)' => \/ Gone(k)
                          \/ At(k, "body") /\ frame[k].op = "exit" /\ Body(k)
<1>t. /\ pc \in [Node -> PCs] /\ frame \in [Node -> Frame] /\ Place(k)
    BY DEF LifeInv, TypeInv, TypeOK
<1>1. CASE Still(k)
    BY <1>1 DEF Still, Gone
<1>2. CASE ~ Still(k) /\ k \in {Cleaner, Sleeper}
    <2>1. ~ Gone(k) /\ ~ Gone(k)'
        BY <1>t, <1>2, PlaceStep DEF Place, Gone
    <2> QED BY <2>1
<1>3. CASE ~ Still(k) /\ k \notin {Cleaner, Sleeper}
    <2>1. PICK n \in Node : Client(n) /\ ClientStep(n)
        BY <1>3, KernelStill DEF LifeNext
    <2>c. current = n
        BY <2>1, ClientIsCurrent
    <2>2. CASE k # n
        <3>1. Idle(k)'
            BY <1>3, <2>1, <2>2, OthersStill
        <3>2. ~ Gone(k)'
            BY <3>1 DEF Gone, Idle, NoCall
        <3> QED BY <2>c, <2>2, <3>2
    <2>3. CASE k = n
        <3>t. frame[n].op \in CallsAt(pc[n]) /\ frame[n].op # "suspend"
            BY <1>t, <2>1, <2>3 DEF Place, CallsAt
        <3>1. CASE Body(n)
            BY <2>3, <3>1, BodyKeepsOp DEF Body, At, Gone
        <3>2. CASE \/ CallCreate(n) \/ CallOp(n)
            <4>1. pc[n] = "run" /\ pc'[n] = "lock"
                BY <1>t, <3>2 DEF CallCreate, CallOp, At, Goto
            <4> QED BY <2>3, <4>1 DEF Gone
        <3>3. CASE \/ Acquire(n) \/ Spin(n) \/ Inc(n) \/ Store(n) \/ Poll(n)
            <4>1. /\ pc[n] \in {"lock", "inc", "store", "poll"} /\ frame' = frame
                  /\ pc'[n] \in {"body", "lock", "unlock", "link", "poll", "dec"}
                  /\ pc[n] = "lock" => pc'[n] \in {"body", "lock"}
                BY <1>t, <3>3 DEF Acquire, Spin, Inc, Store, Poll, At, Goto
            <4>2. pc[n] # "lock" => frame[n].op # "exit"
                BY <3>t, <4>1 DEF CallsAt
            <4> QED BY <2>3, <4>1, <4>2 DEF Gone
        <3>4. CASE Dec(n) \/ Dec2(n)
            <4>1. pc[n] \in {"dec", "dec2"} /\ pc'[n] \in {"dec2", "run"}
                BY <1>t, <3>4 DEF Dec, Dec2, At, Goto, Return
            <4> QED BY <2>3, <4>1 DEF Gone
        <3>5. CASE Fix(n) \/ Link(n) \/ Push(n) \/ Yield(n)
            <4>1. /\ frame' = frame /\ pc[n] \in {"fix", "link", "push", "yield"}
                  /\ pc'[n] \in {"drop", "link", "push", "unlock", "resume"}
                BY <1>t, <3>5 DEF Fix, Link, Push, Yield, At, Goto
            <4> QED BY <2>3, <4>1 DEF Gone
        <3>6. CASE Drop(n)
            <4>1. pc[n] = "drop" /\ frame[n].op = "exit"
                BY <3>t, <3>6 DEF Drop, At, CallsAt
            <4>2. Gone(n) /\ frame[n].nd = n
                BY <1>t, <2>3, <4>1 DEF Gone, Place
            <4>3. status[n] # "SUSPEND"
                BY <4>1, <4>2 DEF LifeInv, HandInv
            <4>4. pc'[n] = "link" /\ frame' = frame
                BY <1>t, <3>6, <4>2, <4>3 DEF Drop, Goto
            <4> QED BY <2>3, <4>1, <4>2, <4>4 DEF Gone
        <3>7. CASE Unlock(n)
            <4>1. pc[n] = "unlock"
                BY <3>7 DEF Unlock, At
            <4>2. frame[n].op = "exit" => frame[n].nd = n /\ Self(n)
                BY <1>t, <2>3, <4>1 DEF Place, Gone, Self
            <4>3. frame[n].op = "exit" => pc'[n] = "yield" /\ frame' = frame
                BY <1>t, <2>1, <3>7, <4>2, Constants DEF Unlock, Goto, Client
            <4>4. frame[n].op # "exit" => \/ pc'[n] = "poll" /\ frame' = frame
                                         \/ pc'[n] = "run"
                BY <1>t, <2>1, <3>t, <3>7 DEF Unlock, Goto, Client, Self, Return
            <4> QED BY <2>3, <4>1, <4>3, <4>4 DEF Gone
        <3> QED BY <2>1, <3>1, <3>2, <3>3, <3>4, <3>5, <3>6, <3>7 DEF ClientStep
    <2> QED BY <2>2, <2>3
<1> QED BY <1>1, <1>2, <1>3

\* The current thread stays the same, with the same successor fixed, unless
\* the step calls the scheduler or fixes a successor.
LEMMA SwitchStep ==
    ASSUME LifeInv, LifeNext \/ UNCHANGED vars
    PROVE  \/ Switch /\ UNCHANGED <<head, next>>
           \/ UNCHANGED <<current, fix>>
           \/ \E n \in Node : Client(n) /\ Fix(n)
<1>1. TimerIsr \/ UNCHANGED vars \/ CleanerStep \/ SleeperStart \/ SleeperTest
        => UNCHANGED <<current, fix>> \/ (Switch /\ UNCHANGED <<head, next>>)
    BY DEF TimerIsr, vars, cpu, queues, CleanerStep, CleanerStart, CleanerTest, CleanerReap,
           CleanerFree, SleeperStart, SleeperTest
<1>2. ASSUME NEW n \in Node, ClientStep(n), ~ Fix(n)
      PROVE  UNCHANGED <<current, fix>> \/ (Switch /\ UNCHANGED <<head, next>>)
    BY <1>2 DEF ClientStep, CallCreate, CallOp, Acquire, Spin, Body, CreateBody, WaitBody, MoveBody,
                PrintBody, Store, Drop, Link, Push, Inc, Unlock, Poll, Dec, Dec2, Yield, cpu, queues
<1> QED BY <1>1, <1>2 DEF LifeNext

\* The scheduler's state after each step.
LEMMA CpuStep ==
    ASSUME Lifecycle, LifeInv, LifeNext \/ UNCHANGED vars
    PROVE  CpuInv'
<1> USE Constants
<1>t. /\ pc \in [Node -> PCs] /\ frame \in [Node -> Frame]
      /\ CpuInv /\ Queue("RUNNING") \subseteq Node
    BY LifeLists DEF LifeInv, TypeInv, TypeOK, Status
\* nobody in thread_exit is on RUNNING
<1>1. ASSUME NEW k \in Node, Gone(k)' PROVE k \notin Queue("RUNNING")'
    <2>1. CASE At(k, "body") /\ frame[k].op = "exit" /\ Body(k)
        <3>1. Client(k) /\ MoveBody(k)
            BY <2>1 DEF Body, Client, LifeInv, Place, At
        <3> QED BY <2>1, <3>1, ExitBody
    <2>2. CASE Gone(k)
        <3>1. k \notin Queue("RUNNING")
            BY <1>t, <2>2 DEF CpuInv
        <3>2. ASSUME NEW n \in Node, Push(n), frame[n].op = "wake" PROVE frame[n].nd # k
            <4>1. Idle(frame[n].nd)
                BY <3>2 DEF Push, At, LifeInv, IdleInv
            <4> QED BY <2>2, <4>1 DEF Gone, Idle, NoCall
        <3> QED BY <3>1, <3>2, RunningStep
    <2> QED BY <1>1, <2>1, <2>2, GoneStep
\* a new slice
<1>2. CASE Switch /\ UNCHANGED <<head, next>>
    <2>1. current' \in Queue("RUNNING")' /\ fix' = NULL
        BY <1>2, NextOnRunning, SameQueues DEF Switch
    <2>2. current' \in Node
        BY <1>2, <1>t, NextOnRunning DEF Switch
    <2> QED BY <1>1, <2>1, <2>2 DEF CpuInv
\* thread_exit fixes the successor
<1>3. ASSUME NEW n \in Node, Client(n), Fix(n) PROVE CpuInv'
    <2>1. Place(n) /\ current = n /\ pc[n] = "fix" /\ frame[n].op = "exit" /\ Gone(n) /\ frame[n].nd = n
        BY <1>3 DEF Fix, At, LifeInv, Place, CallsAt, Gone
    <2>2. current' = n /\ pc'[n] = "drop" /\ UNCHANGED <<head, next>> /\ Gone(n)'
        BY <1>3, <1>t, <2>1 DEF Fix, Goto, queues, Gone
    <2>3. fix' \in Queue("RUNNING")'
        <3>1. next[n] \in Queue("RUNNING") \cup {NULL}
            BY <1>t, <2>1 DEF CpuInv
        <3> QED BY <1>3, <2>1, <2>2, <3>1, RunningLinks, SameQueues DEF Fix
    <2> QED BY <1>1, <2>2, <2>3 DEF CpuInv
\* every other step leaves the thread and its successor
<1>4. CASE UNCHANGED <<current, fix>> /\ ~ \E n \in Node : Client(n) /\ Fix(n)
    <2>1. CASE current \in Queue("RUNNING") /\ current \in Queue("RUNNING")'
        BY <1>1, <1>4, <1>t, <2>1 DEF CpuInv
    <2>2. CASE current \in Queue("RUNNING") /\ current \notin Queue("RUNNING")'
        <3>1. PICK n \in Node : /\ At(n, "body") /\ frame[n].op = "exit"
                                /\ n \in Queue("RUNNING")
                                /\ Queue("RUNNING")' = Queue("RUNNING") \ {n}
                                /\ next'[n] = next[n] /\ Goto(n, "fix")
                                /\ Local(n, [frame[n] EXCEPT !.nd = n])
            BY <2>2, RunningStep
        <3>2. current' = n /\ pc'[n] = "fix" /\ frame'[n].op = "exit" /\ fix' = NULL
            BY <1>4, <1>t, <2>2, <3>1 DEF At, Goto, Local, CpuInv, Frame
        <3>3. next'[n] \in Queue("RUNNING")' \cup {NULL}
            BY <3>1, RunningLinks
        <3>4. Gone(n)'
            BY <3>2 DEF Gone
        <3> QED BY <1>1, <3>2, <3>3, <3>4 DEF CpuInv
    <2>3. CASE current \notin Queue("RUNNING")
        <3>1. PICK c \in Node : c = current
            BY <1>t DEF CpuInv
        <3>2. Gone(c) /\ pc[c] # "resume" /\ c \notin Queue("RUNNING")
            BY <1>t, <2>3, <3>1 DEF CpuInv
        <3>3. Gone(c)' /\ current' = c /\ c \notin Queue("RUNNING")'
            BY <1>1, <1>4, <3>1, <3>2, GoneStep
        <3>4. fix \in Queue("RUNNING") => fix \in Queue("RUNNING")'
            <4>1. ASSUME NEW n \in Node, At(n, "body") PROVE n \in Queue("RUNNING")
                BY <4>1, RunningQueued DEF At, Gone
            <4> QED BY <2>3, RunningStep DEF At
        <3>5. CASE TimerIsr \/ UNCHANGED vars
            <4>1. UNCHANGED <<head, next, pc>>
                BY <3>5 DEF TimerIsr, vars, queues
            <4>2. Queue("RUNNING")' = Queue("RUNNING")
                BY <4>1, SameQueues
            <4> QED BY <1>1, <1>4, <1>t, <3>1, <3>2, <3>3, <4>1, <4>2 DEF CpuInv
        <3>6. ASSUME NEW n \in Node, Client(n), ClientStep(n) PROVE CpuInv'
            <4>1. n = c
                BY <3>1, <3>6, ClientIsCurrent
            <4>2. pc[c] \in {"fix", "drop", "link", "push", "unlock", "yield"}
                BY <3>2 DEF Gone
            <4>3. Drop(c) \/ Link(c) \/ Push(c) \/ Unlock(c) \/ Yield(c)
                BY <1>4, <3>6, <4>1, <4>2
                DEF ClientStep, CallCreate, CallOp, Acquire, Spin, Body, Store, Inc, Poll, Dec, Dec2, At
            <4>4. ~ Yield(c)
                BY <1>4, <2>3, NextOnRunning DEF Yield, Switch
            <4>5. pc[c] # "fix" /\ pc'[c] \notin {"fix", "resume"}
                BY <1>t, <4>3, <4>4 DEF Drop, Link, Push, Unlock, At, Goto, Return
            <4>6. fix \in Queue("RUNNING")
                BY <1>t, <2>3, <3>1, <4>5 DEF CpuInv
            <4> QED BY <1>1, <1>4, <3>3, <3>4, <4>5, <4>6 DEF CpuInv
        <3>7. CleanerStep \/ SleeperStart \/ SleeperTest => current \in {Cleaner, Sleeper}
            BY DEF CleanerStep, CleanerStart, CleanerTest, CleanerReap, CleanerFree, SleeperStart,
                   SleeperTest, At
        <3> QED BY <2>3, <3>5, <3>6, <3>7 DEF LifeNext, LifeInv, QueueInv
    <2> QED BY <2>1, <2>2, <2>3
<1> QED BY <1>2, <1>3, <1>4, SwitchStep
-----------------------------------------------------------------------------
(***************************************************************************)
(* The walk of thread_cleaner.                                             *)
(***************************************************************************)
\* A step of another thread takes nobody off DIED and changes no link in it.
LEMMA DiedKept ==
    ASSUME Lifecycle, LifeInv, LifeNext \/ UNCHANGED vars, ~ CleanerReap
    PROVE  /\ Queue("DIED") \subseteq Queue("DIED")'
           /\ \A a \in Queue("DIED") : next'[a] = next[a]
<1>0. {"RUNNING", "READY", "SUSPEND", "DIED"} = Status
    BY DEF Status
<1>1. CASE Untouched
    BY <1>0, <1>1 DEF Untouched
<1>2. ASSUME NEW n \in Node, Client(n), Push(n)
      PROVE  Queue("DIED") \subseteq Queue("DIED")' /\ UNCHANGED next
    BY <1>0, <1>2, PushQueues
<1>3. ASSUME NEW n \in Node, Client(n), At(n, "body"), MoveBody(n), ~ Quiet,
             frame[n].op \in {"wake", "suspend", "exit"}
      PROVE  Queue("DIED")' = Queue("DIED") /\ \A a \in Queue("DIED") : next'[a] = next[a]
    <2>1. PICK s \in {"RUNNING", "READY"} :
             \A r \in Status \ {s} : Queue(r)' = Queue(r) /\ \A a \in Queue(r) : next'[a] = next[a]
        BY <1>3, MoveQueues
    <2> QED BY <1>0, <2>1
<1> QED BY <1>1, <1>2, <1>3, QuietSteps, UntouchedSteps

\* thread_cleaner's pointers stay in the queue of the dead, whoever joins it.
LEMMA WalkStep ==
    ASSUME Lifecycle, LifeInv, LifeNext \/ UNCHANGED vars
    PROVE  WalkInv'
<1> USE Constants
<1>t. /\ pc \in [Node -> PCs] /\ frame \in [Node -> Frame]
      /\ WalkInv /\ "DIED" \in Status /\ TypeInv /\ next \in Links
    BY LinkTypes DEF LifeInv, TypeInv, TypeOK, Status
<1>1. CASE Still(Cleaner) /\ ~ CleanerReap
    BY <1>1, <1>t, DiedKept DEF Still, WalkInv
<1>2. CASE CleanerStart
    <2>1. pc'[Cleaner] = "c_test" /\ frame'[Cleaner] = [NoCall EXCEPT !.nd = head["DIED"]]
        BY <1>2, <1>t DEF CleanerStart, Goto, Local
    <2>2. frame'[Cleaner].nd = head["DIED"] /\ frame'[Cleaner].pv = NULL
        BY <2>1 DEF NoCall
    <2>3. head["DIED"] \in Queue("DIED")' \cup {NULL}
        <3>1. Queue("DIED")' = Queue("DIED")
            BY <1>2, SameQueues DEF CleanerStart, queues
        <3> QED BY <1>t, <3>1, QueueIs, ReachSelf, LinkTypes DEF Ptr
    <2> QED BY <2>1, <2>2, <2>3 DEF WalkInv
<1>3. CASE CleanerTest
    <2>0. UNCHANGED <<head, next>> /\ Queue("DIED")' = Queue("DIED") /\ pc[Cleaner] = "c_test"
        BY <1>3, SameQueues DEF CleanerTest, queues, At
    <2>1. CASE pc'[Cleaner] = "c_start"
        BY <2>1 DEF WalkInv
    <2>2. CASE pc'[Cleaner] = "c_reap" /\ UNCHANGED frame
        BY <1>t, <2>0, <2>2 DEF WalkInv
    <2>3. CASE UNCHANGED pc /\ \E m \in Node : /\ m = frame[Cleaner].nd
                                              /\ frame'[Cleaner] = [NoCall EXCEPT !.pv = m, !.nd = next[m]]
        <3>1. PICK m \in Node : m = frame[Cleaner].nd /\ frame'[Cleaner] = [NoCall EXCEPT !.pv = m, !.nd = next[m]]
            BY <2>3
        <3>2. frame'[Cleaner].pv = m /\ frame'[Cleaner].nd = next[m]
            BY <3>1 DEF NoCall
        <3>3. m \in Queue("DIED")
            BY <1>t, <2>0, <3>1 DEF WalkInv
        <3>4. next[m] \in Queue("DIED") \cup {NULL}
            BY <1>t, <3>3, QueueIs, ReachClosed DEF ClosedIn
        <3> QED BY <2>0, <2>3, <3>2, <3>3, <3>4 DEF WalkInv
    <2>4. frame[Cleaner].nd \in Ptr
        BY <1>t DEF Frame
    <2>5. \/ pc'[Cleaner] = "c_start"
          \/ pc'[Cleaner] = "c_reap" /\ UNCHANGED frame
          \/ UNCHANGED pc /\ \E m \in Node : /\ m = frame[Cleaner].nd
                                            /\ frame'[Cleaner] = [NoCall EXCEPT !.pv = m, !.nd = next[m]]
        <3>1. PICK m \in Ptr : m = frame[Cleaner].nd
            BY <2>4
        <3>2. \/ Goto(Cleaner, "c_start")
              \/ Goto(Cleaner, "c_reap") /\ UNCHANGED frame
              \/ UNCHANGED pc /\ m # NULL /\ Local(Cleaner, [NoCall EXCEPT !.pv = m, !.nd = next[m]])
            BY <1>3, <3>1 DEF CleanerTest
        <3> QED BY <1>t, <3>1, <3>2 DEF Goto, Local, Ptr
    <2> QED BY <2>1, <2>2, <2>3, <2>5
<1>4. CASE CleanerReap
    <2>1. PICK m \in heap, p \in Ptr :
             /\ m = frame[Cleaner].nd /\ p = frame[Cleaner].pv
             /\ next[m] \in Queue("DIED")' \cup {NULL}
             /\ p # NULL => p \in Queue("DIED")' /\ next'[p] = next[m]
        BY <1>4, ReapQueues
    <2>2. pc'[Cleaner] = "c_free" /\ frame'[Cleaner] = [frame[Cleaner] EXCEPT !.nx = next[m]]
        BY <1>4, <1>t, <2>1 DEF CleanerReap, Goto, Local
    <2>3. frame'[Cleaner].nx = next[m] /\ frame'[Cleaner].pv = p
        BY <1>t, <2>1, <2>2 DEF Frame
    <2> QED BY <2>1, <2>2, <2>3 DEF WalkInv
<1>5. CASE CleanerFree
    <2>1. Held(Cleaner) /\ pc[Cleaner] = "c_free"
        BY <1>5 DEF CleanerFree, At, Held
    <2>2. frame[Cleaner].nd \in heap
        BY <2>1 DEF LifeInv, HandInv
    <2>3. /\ pc'[Cleaner] = "c_test"
          /\ \E x : x = frame[Cleaner].nx /\ frame'[Cleaner] = [frame[Cleaner] EXCEPT !.nd = x, !.nx = NULL]
        BY <1>5, <1>t, <2>2 DEF CleanerFree, Goto, Local
    <2>4. frame'[Cleaner].nd = frame[Cleaner].nx /\ frame'[Cleaner].pv = frame[Cleaner].pv
        BY <1>t, <2>3 DEF Frame
    <2>5. Queue("DIED")' = Queue("DIED") /\ UNCHANGED next
        BY <1>5, SameQueues DEF CleanerFree, queues
    <2> QED BY <1>t, <2>1, <2>3, <2>4, <2>5 DEF WalkInv
<1>6. ~ Still(Cleaner) => CleanerStep
    <2>1. ASSUME NEW n \in Node, Client(n), ClientStep(n) PROVE Still(Cleaner)
        <3>1. pc[n] = "body" /\ frame[n].op = "create" => Cleaner # frame[n].nd
            BY HeldIsClient DEF Held, Client
        <3> QED BY <2>1, <3>1, OthersStill DEF Client
    <2>2. Cleaner # Sleeper
        BY ThreadAssumption
    <2> QED BY <2>1, <2>2, KernelStill DEF LifeNext
<1> QED BY <1>1, <1>2, <1>3, <1>4, <1>5, <1>6 DEF CleanerStep
-----------------------------------------------------------------------------
(***************************************************************************)
(* The nodes in hand.                                                      *)
(***************************************************************************)
\* Nobody but its holder writes the link or the status of a node in hand.
LEMMA HandWrites ==
    ASSUME Lifecycle, LifeInv, LifeNext \/ UNCHANGED vars, NEW k \in Node, Held(k),
           NEW x \in Node, x = frame[k].nd,
           ~ Link(k), ~ (At(k, "body") /\ frame[k].op = "create" /\ CreateBody(k))
    PROVE  next'[x] = next[x] /\ status'[x] = status[x]
<1>t. /\ next \in [Node -> Ptr] /\ status \in [Node -> Status] /\ HandInv
    BY DEF LifeInv, TypeInv, TypeOK
<1>0. \A s \in Status : x \notin Queue(s)
    BY <1>t DEF HandInv
<1>1. CASE Quiet
    BY <1>1 DEF Quiet
<1>2. ASSUME NEW n \in Node, CallCreate(n) \/ Push(n)
      PROVE  next' = next /\ status' = status
    BY <1>2 DEF CallCreate, Push, queues, struct
<1>3. ASSUME NEW n \in Node, Client(n),
             Link(n) \/ (At(n, "body") /\ frame[n].op = "create" /\ CreateBody(n))
      PROVE  next'[x] = next[x] /\ status'[x] = status[x]
    <2>1. Held(n) /\ n # k
        BY <1>3, UntouchedSteps
    <2>2. frame[n].nd # x
        BY <1>t, <2>1 DEF HandInv
    <2> QED BY <1>3, <1>t, <2>2 DEF Link, CreateBody
<1>4. ASSUME NEW n \in Node, Client(n), At(n, "body"), MoveBody(n), ~ Quiet,
             frame[n].op \in {"wake", "suspend", "exit"}
      PROVE  next'[x] = next[x] /\ status'[x] = status[x]
    <2>1. PICK s \in {"RUNNING", "READY"} :
             /\ \A a \in Node \ Queue(s) : next'[a] = next[a]
             /\ UNCHANGED status
        BY <1>4, MoveQueues
    <2> QED BY <1>0, <2>1 DEF Status
<1>5. CASE CleanerReap
    BY <1>0, <1>5, ReapQueues DEF Status
<1>6. CASE CleanerFree
    BY <1>6 DEF CleanerFree, queues, struct
<1> QED BY <1>1, <1>2, <1>3, <1>4, <1>5, <1>6, QuietSteps

\* What a step takes into a hand was free or on a queue before.
LEMMA HandTaken ==
    ASSUME Lifecycle, LifeInv, LifeNext \/ UNCHANGED vars, NEW k \in Node, Held(k)', ~ Held(k)
    PROVE  /\ k = current
           /\ \E x \in heap' :
                /\ x = frame'[k].nd
                /\ \A s \in Status : x \notin Queue(s)'
                /\ x \notin heap \/ \E s \in Status : x \in Queue(s)
                /\ frame'[k].op = "create" => x \notin heap
                /\ frame'[k].op = "wake" => status'[x] = "READY"
                /\ pc'[k] \in {"fix", "drop"} => status'[x] = "RUNNING"
<1> USE Constants
<1>0. /\ {"RUNNING", "READY", "SUSPEND", "DIED"} = Status /\ ListsOK
      /\ \A s \in Status : Queue(s) \subseteq Node
    BY LifeLists DEF Status
<1>t. /\ pc \in [Node -> PCs] /\ frame \in [Node -> Frame] /\ Place(k) /\ QueueInv
    BY DEF LifeInv, TypeInv, TypeOK
<1>1. ~ Still(k)
    BY DEF Still, Held
<1>2. CASE k \in {Cleaner, Sleeper}
    <2>1. k = Cleaner /\ pc'[k] = "c_free" /\ pc[k] # "c_free" /\ frame'[k].op = "none"
        BY <1>2, <1>t, PlaceStep DEF Place, Held, NoCall
    <2>2. CleanerReap
        <3>1. CleanerStep
            <4>1. ASSUME NEW n \in Node, Client(n), ClientStep(n) PROVE FALSE
                <5>1. pc[n] = "body" /\ frame[n].op = "create" => k # frame[n].nd
                    BY <2>1, HeldIsClient DEF Held, Client
                <5> QED BY <1>1, <2>1, <4>1, <5>1, OthersStill DEF Client
            <4>2. Cleaner # Sleeper
                BY ThreadAssumption
            <4> QED BY <1>1, <2>1, <4>1, <4>2, KernelStill DEF LifeNext
        <3> QED BY <1>t, <2>1, <3>1 DEF CleanerStep, CleanerStart, CleanerTest, CleanerFree, Goto
    <2>3. PICK m \in heap :
             /\ m = frame[Cleaner].nd /\ m \in Queue("DIED")
             /\ Queue("DIED")' \subseteq Queue("DIED") \ {m}
             /\ \A r \in Status \ {"DIED"} : Queue(r)' = Queue(r)
             /\ UNCHANGED <<status, heap>>
        BY <2>2, ReapQueues
    <2>4. \A s \in Status : m \notin Queue(s)'
        BY <1>0, <2>3 DEF ListsOK
    <2>5. \E y : frame'[Cleaner] = [frame[Cleaner] EXCEPT !.nx = y]
        BY <1>t, <2>2 DEF CleanerReap, Local
    <2>6. frame'[Cleaner].nd = m
        BY <1>t, <2>3, <2>5 DEF Frame
    <2>7. current = Cleaner
        BY <2>2 DEF CleanerReap, At
    <2> QED BY <1>0, <2>1, <2>3, <2>4, <2>6, <2>7
<1>3. CASE k \notin {Cleaner, Sleeper}
    <2>1. PICK n \in Node : Client(n) /\ ClientStep(n)
        BY <1>1, <1>3, KernelStill DEF LifeNext
    <2>2. k = n
        BY <1>1, <1>3, <2>1, OthersStill DEF Idle, Held
    <2>3. current = n
        BY <2>1, ClientIsCurrent
    <2>4. Place(n) /\ frame[n].op \in CallsAt(pc[n])
        BY <1>t, <2>1, <2>2 DEF Place
    <2>5. CASE CallCreate(n)
        <3>1. PICK m \in Node \ (heap \cup {Cleaner}) :
                 /\ heap' = heap \cup {m}
                 /\ Local(n, [NoCall EXCEPT !.op = "create", !.nd = m])
            BY <2>5 DEF CallCreate
        <3>2. frame'[n] = [NoCall EXCEPT !.op = "create", !.nd = m] /\ pc'[n] = "lock"
            BY <1>t, <2>5, <3>1 DEF Local, CallCreate, Goto
        <3>3. frame'[n].op = "create" /\ frame'[n].nd = m
            BY <3>2 DEF NoCall
        <3>4. \A s \in Status : m \notin Queue(s)'
            <4>1. \A s \in Status : Queue(s)' = Queue(s)
                BY <2>5, SameQueues DEF CallCreate, queues
            <4> QED BY <1>t, <3>1, <4>1 DEF QueueInv, QueuesSound
        <3> QED BY <2>2, <2>3, <3>1, <3>2, <3>3, <3>4
    <2>6. CASE At(n, "body") /\ frame[n].op \in {"wake", "suspend", "exit"} /\ MoveBody(n)
        <3>0. ~ Goto(n, "unlock")
            BY <1>3, <1>t, <2>2 DEF Held, Goto
        <3>1. PICK s \in {"RUNNING", "READY"}, m \in heap :
                 /\ IF s = "RUNNING"
                    THEN m = n /\ frame[n].op = "exit" /\ Goto(n, "fix")
                    ELSE frame[n].op = "wake" /\ Goto(n, "link")
                 /\ Local(n, [frame[n] EXCEPT !.nd = m])
                 /\ m \in Queue(s) /\ Queue(s)' = Queue(s) \ {m}
                 /\ \A r \in Status \ {s} : Queue(r)' = Queue(r)
                 /\ UNCHANGED <<status, heap>>
            BY <2>1, <2>6, <3>0, MoveQueues
        <3>2. frame'[n] = [frame[n] EXCEPT !.nd = m]
            BY <1>t, <3>1 DEF Local
        <3>3. frame'[n].nd = m /\ frame'[n].op = frame[n].op
            BY <1>t, <3>2 DEF Frame
        <3>4. \A r \in Status : m \notin Queue(r)'
            BY <1>0, <3>1 DEF ListsOK
        <3>5. status[m] = s
            BY <1>0, <1>t, <3>1 DEF QueueInv, QueuesSound
        <3>6. pc'[n] = IF s = "RUNNING" THEN "fix" ELSE "link"
            BY <1>t, <3>1 DEF Goto
        <3> QED BY <1>0, <2>2, <2>3, <3>1, <3>3, <3>4, <3>5, <3>6
    <2>7. CallCreate(n) \/ (/\ At(n, "body") /\ frame[n].op \in {"wake", "suspend", "exit"}
                            /\ MoveBody(n))
        <3>0. /\ pc'[n] \in {"lock", "body", "store", "link", "push", "fix", "drop"}
              /\ pc'[n] \in {"lock", "body"} => frame'[n].op = "create"
            BY <1>3, <2>2 DEF Held
        <3>1. ~ (Acquire(n) \/ Spin(n))
            BY <1>t, <2>2, <3>0 DEF Acquire, Spin, Goto, At, Held
        <3>2. ~ (Store(n) \/ Fix(n) \/ Drop(n) \/ Link(n))
            BY <2>2, <2>4 DEF Store, Fix, Drop, Link, At, CallsAt, Held
        <3>3. ~ (Push(n) \/ Inc(n) \/ Unlock(n) \/ Dec(n) \/ Dec2(n) \/ Yield(n))
            BY <1>t, <2>1, <3>0 DEF Push, Inc, Unlock, Dec, Dec2, Yield, Goto, Return, Client
        <3>4. ~ (Poll(n) \/ CallOp(n))
            <4>1. Poll(n) => pc'[n] \in {"poll", "dec"}
                BY <1>t DEF Poll, Goto, At
            <4>2. CallOp(n) => pc'[n] = "lock" /\ frame'[n].op \in SelfCalls \cup OtherCalls
                <5>1. SUFFICES ASSUME CallOp(n) PROVE pc'[n] = "lock" /\ frame'[n].op \in SelfCalls \cup OtherCalls
                    OBVIOUS
                <5>2. PICK op \in SelfCalls \cup OtherCalls, a \in Targets :
                         Local(n, [NoCall EXCEPT !.op = op, !.arg = a])
                    BY <5>1 DEF CallOp
                <5>3. frame'[n] = [NoCall EXCEPT !.op = op, !.arg = a] /\ pc'[n] = "lock"
                    BY <1>t, <5>1, <5>2 DEF CallOp, Local, Goto
                <5>4. frame'[n].op = op
                    BY <5>3 DEF NoCall
                <5> QED BY <5>2, <5>3, <5>4
            <4> QED BY <3>0, <4>1, <4>2
        <3>5. Body(n) => /\ At(n, "body") /\ frame[n].op \in {"wake", "suspend", "exit"}
                         /\ MoveBody(n)
            <4>1. ~ (At(n, "body") /\ frame[n].op = "create")
                BY <2>2 DEF At, Held
            <4>2. ~ (WaitBody(n) \/ PrintBody(n))
                BY <1>t, <3>0 DEF WaitBody, PrintBody, Goto
            <4> QED BY <4>1, <4>2 DEF Body
        <3> QED BY <2>1, <3>1, <3>2, <3>3, <3>4, <3>5 DEF ClientStep
    <2> QED BY <2>5, <2>6, <2>7
<1> QED BY <1>2, <1>3

\* What stays in a hand is the same node, still allocated and on no queue.
LEMMA HandKept ==
    ASSUME Lifecycle, LifeInv, LifeNext \/ UNCHANGED vars, NEW k \in Node, Held(k)', Held(k)
    PROVE  \E x \in heap' : /\ x = frame[k].nd /\ x = frame'[k].nd
                            /\ frame'[k].op = frame[k].op
                            /\ \A s \in Status : x \notin Queue(s)'
<1> USE Constants
<1>0. /\ {"RUNNING", "READY", "SUSPEND", "DIED"} = Status /\ ListsOK
    BY LifeLists DEF Status
<1>t. /\ pc \in [Node -> PCs] /\ frame \in [Node -> Frame] /\ Place(k) /\ HandInv
    BY DEF LifeInv, TypeInv, TypeOK
<1>1. PICK x \in Node : x = frame[k].nd /\ x \in heap /\ \A s \in Status : x \notin Queue(s)
    BY <1>t DEF HandInv, LifeInv, TypeInv, TypeOK
\* the hand
<1>2. frame'[k].nd = x /\ frame'[k].op = frame[k].op
    <2>1. CASE Still(k)
        BY <1>1, <2>1 DEF Still
    <2>2. CASE ~ Still(k) /\ k \in {Cleaner, Sleeper}
        <3>1. k = Cleaner /\ pc[k] = "c_free" /\ pc'[k] = "c_free"
            BY <1>t, <2>2, PlaceStep DEF Place, Held, NoCall
        <3>2. ~ CleanerStep
            BY <1>t, <3>1 DEF CleanerStep, CleanerStart, CleanerTest, CleanerReap, CleanerFree, At, Goto
        <3>3. ASSUME NEW n \in Node, Client(n), ClientStep(n) PROVE FALSE
            <4>1. pc[n] = "body" /\ frame[n].op = "create" => k # frame[n].nd
                BY <3>1, HeldIsClient DEF Held, Client
            <4> QED BY <2>2, <3>1, <3>3, <4>1, OthersStill DEF Client
        <3>4. Cleaner # Sleeper
            BY ThreadAssumption
        <3> QED BY <2>2, <3>1, <3>2, <3>3, <3>4, KernelStill DEF LifeNext
    <2>3. CASE ~ Still(k) /\ k \notin {Cleaner, Sleeper}
        <3>1. PICK n \in Node : Client(n) /\ ClientStep(n)
            BY <2>3, KernelStill DEF LifeNext
        <3>2. k = n
            BY <2>3, <3>1, OthersStill DEF Idle, Held
        <3>3. pc[n] \in {"lock", "body", "store", "fix", "drop", "link", "push"} /\ frame[n].op \in CallsAt(pc[n])
            BY <1>t, <3>1, <3>2 DEF Held, Client, Place
        <3>4. CASE Body(n)
            <4>1. frame[n].op = "create" /\ CreateBody(n)
                BY <3>2, <3>4 DEF Body, Held, At
            <4>2. frame'[n] = [frame[n] EXCEPT !.map = tidmap]
                BY <1>t, <4>1 DEF CreateBody
            <4> QED BY <1>1, <1>t, <3>2, <4>2 DEF Frame
        <3>5. CASE Drop(n)
            <4>1. UNCHANGED frame \/ \E r : frame'[n] = [frame[n] EXCEPT !.reg = r]
                BY <1>t, <3>5 DEF Drop, Local
            <4> QED BY <1>1, <1>t, <3>2, <4>1 DEF Frame
        <3>6. CASE ~ Body(n) /\ ~ Drop(n)
            <4>1. UNCHANGED frame
                BY <3>1, <3>3, <3>6
                DEF ClientStep, CallCreate, CallOp, Acquire, Spin, Store, Fix, Link, Push, Inc, Unlock,
                    Poll, Dec, Dec2, Yield, At
            <4> QED BY <1>1, <3>2, <4>1
        <3> QED BY <3>4, <3>5, <3>6
    <2> QED BY <2>1, <2>2, <2>3
\* the queues and the heap
<1>3. x \in heap' /\ \A s \in Status : x \notin Queue(s)'
    <2>1. CASE Quiet
        BY <1>1, <2>1, UntouchedSteps DEF Quiet, Untouched
    <2>2. ASSUME NEW n \in Node, CallCreate(n) PROVE x \in heap' /\ \A s \in Status : x \notin Queue(s)'
        BY <1>1, <2>2, UntouchedSteps DEF CallCreate, Untouched
    <2>3. ASSUME NEW n \in Node, Client(n), Link(n) PROVE x \in heap' /\ \A s \in Status : x \notin Queue(s)'
        BY <1>1, <2>3, UntouchedSteps DEF Link, Untouched
    <2>4. ASSUME NEW n \in Node, Client(n), Push(n) PROVE x \in heap' /\ \A s \in Status : x \notin Queue(s)'
        <3>1. PICK s \in Status, m \in heap :
                /\ m = frame[n].nd /\ Queue(s)' = Queue(s) \cup {m}
                /\ \A r \in Status \ {s} : Queue(r)' = Queue(r) /\ UNCHANGED heap
            BY <2>4, PushQueues
        <3>2. UNCHANGED heap
            BY <2>4 DEF Push
        <3>3. Held(n) /\ pc'[n] = "unlock"
            BY <1>t, <2>4 DEF Push, At, Goto, Held, LifeInv, Place, CallsAt
        <3>4. n # k
            BY <3>3 DEF Held
        <3>5. m # x
            BY <1>1, <1>t, <3>1, <3>3, <3>4 DEF HandInv
        <3> QED BY <1>1, <3>1, <3>2, <3>5
    <2>5. ASSUME NEW n \in Node, At(n, "body"), frame[n].op = "create", CreateBody(n)
          PROVE  x \in heap' /\ \A s \in Status : x \notin Queue(s)'
        <3>1. Held(n) /\ Untouched
            BY <2>5, UntouchedSteps
        <3>2. frame[n].nd = x => n = k
            BY <1>1, <1>t, <3>1 DEF HandInv
        <3>3. n = k => tidmap # Tids
            <4>1. tidmap = Tids => pc'[n] = "unlock"
                BY <1>t, <2>5 DEF CreateBody
            <4> QED BY <4>1 DEF Held
        <3> QED BY <1>1, <2>5, <3>1, <3>2, <3>3 DEF CreateBody, Untouched
    <2>6. ASSUME NEW n \in Node, Client(n), At(n, "body"), MoveBody(n), ~ Quiet,
                 frame[n].op \in {"wake", "suspend", "exit"}
          PROVE  x \in heap' /\ \A s \in Status : x \notin Queue(s)'
        <3>1. PICK s \in {"RUNNING", "READY"}, m \in heap :
                 /\ Queue(s)' = Queue(s) \ {m}
                 /\ \A r \in Status \ {s} : Queue(r)' = Queue(r)
                 /\ UNCHANGED heap
            BY <2>6, MoveQueues
        <3> QED BY <1>1, <3>1
    <2>7. CASE CleanerReap
        BY <1>0, <1>1, <2>7, ReapQueues
    <2>8. CASE CleanerFree
        <3>1. Held(Cleaner) /\ Untouched /\ pc[Cleaner] = "c_free"
            BY <2>8, UntouchedSteps DEF CleanerFree, At
        <3>2. k # Cleaner
            <4>1. pc'[Cleaner] # "c_free" /\ pc'[Cleaner] \in {"c_test", "panic"}
                BY <1>t, <2>8 DEF CleanerFree, Goto
            <4> QED BY <4>1 DEF Held
        <3>3. x # frame[Cleaner].nd
            BY <1>1, <1>t, <3>1, <3>2 DEF HandInv
        <3> QED BY <1>1, <2>8, <3>1, <3>3 DEF CleanerFree, Untouched
    <2> QED BY <2>1, <2>2, <2>3, <2>4, <2>5, <2>6, <2>7, <2>8, QuietSteps
<1> QED BY <1>1, <1>2, <1>3

\* A thread that is about to push a node holds the node the next head links to.
LEMMA PushReady ==
    ASSUME Lifecycle, LifeInv, LifeNext \/ UNCHANGED vars, NEW k \in Node, pc'[k] = "push",
           frame'[k].op = "exit" => current' = k
    PROVE  /\ next'[frame'[k].nd] = head'[Target(frame'[k].op)]
           /\ status'[frame'[k].nd] = Target(frame'[k].op)
<1> USE Constants
<1>t. /\ pc \in [Node -> PCs] /\ frame \in [Node -> Frame] /\ Place(k) /\ HandInv
      /\ head \in [Status -> Ptr] /\ next \in [Node -> Ptr] /\ status \in [Node -> Status]
      /\ TypeInv /\ MutualExclusion
    BY DEF LifeInv, TypeInv, TypeOK
<1>k. k \notin {Cleaner, Sleeper}
    BY PlaceStep DEF Place
<1>1. CASE Link(k)
    <2>1. frame[k].nd \in Node
        BY <1>1, <1>t DEF Link, At, TypeInv, PointersOK, Deref
    <2> QED BY <1>1, <1>t, <2>1 DEF Link
<1>2. CASE ~ Link(k)
    <2>1. Still(k)
        <3>1. SUFFICES ASSUME ~ Still(k) PROVE FALSE
            OBVIOUS
        <3>2. PICK n \in Node : Client(n) /\ ClientStep(n)
            BY <1>k, <3>1, KernelStill DEF LifeNext
        <3>3. k = n
            BY <3>1, <3>2, OthersStill DEF Idle
        <3>4. ~ (\/ CallCreate(n) \/ CallOp(n) \/ Acquire(n) \/ Spin(n) \/ Store(n) \/ Push(n)
                 \/ Inc(n) \/ Dec(n) \/ Dec2(n) \/ Yield(n))
            BY <1>t, <3>1, <3>3
            DEF CallCreate, CallOp, Acquire, Spin, Store, Push, Inc, Dec, Dec2, Yield, Goto, Return, Still
        <3>5. ~ (Fix(n) \/ Drop(n) \/ Unlock(n) \/ Poll(n))
            BY <1>t, <3>1, <3>3 DEF Fix, Drop, Unlock, Poll, Goto, Return, Still
        <3>6. ~ Body(n)
            BY <1>t, <3>3 DEF Body, CreateBody, WaitBody, MoveBody, PrintBody, Goto
        <3> QED BY <1>2, <3>2, <3>3, <3>4, <3>5, <3>6 DEF ClientStep
    <2>2. /\ pc[k] = "push" /\ frame'[k] = frame[k] /\ Held(k)
          /\ Client(k) /\ frame[k].op \in {"create", "wake", "exit"}
        BY <1>k, <1>t, <2>1 DEF Still, Held, Place, CallsAt, Client
    <2>3. frame[k].op = "exit" => current = k
        <3>1. SUFFICES ASSUME frame[k].op = "exit", current # k PROVE FALSE
            OBVIOUS
        <3>2. current' = k /\ current' # current
            BY <2>2, <3>1
        <3>3. current' \in Queue("RUNNING")
            <4>1. ~ UNCHANGED current
                BY <3>2
            <4>2. \A n \in Node : ~ Fix(n)
                BY <4>1 DEF Fix
            <4> QED BY <4>1, <4>2, SwitchStep, NextOnRunning DEF Switch
        <3>4. Gone(k)
            BY <2>2, <3>1 DEF Gone
        <3> QED BY <3>2, <3>3, <3>4 DEF LifeInv, CpuInv
    <2>4. PICK x \in Node, s \in Status :
            /\ x = frame[k].nd /\ s = Target(frame[k].op) /\ next[x] = head[s] /\ status[x] = s
            /\ s = "DIED" => frame[k].op = "exit"
        <3>1. Target(frame[k].op) \in Status
            BY <2>2 DEF Target, Status
        <3>2. frame[k].nd \in Node
            BY <1>t, <2>2 DEF TypeInv, PointersOK, Deref
        <3>3. Target(frame[k].op) = "DIED" => frame[k].op = "exit"
            BY <2>2 DEF Target
        <3> QED BY <1>t, <2>2, <2>3, <3>1, <3>2, <3>3 DEF HandInv
    <2>5. next'[x] = next[x] /\ status'[x] = status[x]
        <3>1. ~ At(k, "body")
            BY <2>2 DEF At
        <3> QED BY <1>2, <2>2, <2>4, <3>1, HandWrites
    <2>6. head'[s] = head[s]
        <3>1. CASE Untouched
            BY <3>1 DEF Untouched
        <3>2. ASSUME NEW n \in Node, Push(n) \/ At(n, "body"), Client(n), pc'[n] # pc[n] PROVE FALSE
            <4>1. Crit(n) /\ Crit(k) /\ n # k
                BY <2>1, <2>2, <3>2 DEF Crit, Push, At, Still
            <4> QED BY <1>t, <4>1 DEF MutualExclusion
        <3>3. \A n \in Node : Push(n) => pc'[n] # pc[n]
            BY <1>t DEF Push, Goto, At
        <3>4. \A n \in Node : At(n, "body") /\ MoveBody(n) => pc'[n] # pc[n]
            BY <1>t DEF MoveBody, Goto, At
        <3>5. CASE CleanerReap
            <4>1. s # "DIED"
                BY <1>k, <2>3, <2>4, <3>5 DEF CleanerReap, At
            <4> QED BY <3>5, <4>1, ReapQueues
        <3> QED BY <3>1, <3>2, <3>3, <3>4, <3>5, QuietSteps, UntouchedSteps
    <2> QED BY <2>2, <2>4, <2>5, <2>6
<1> QED BY <1>1, <1>2

\* The nodes in hand stay allocated, off the queues and in one hand each.
LEMMA HandStep ==
    ASSUME Lifecycle, LifeInv, LifeNext \/ UNCHANGED vars
    PROVE  HandInv'
<1> USE Constants
<1>t. /\ pc \in [Node -> PCs] /\ frame \in [Node -> Frame] /\ HandInv
      /\ status \in [Node -> Status] /\ TypeInv
    BY DEF LifeInv, TypeInv, TypeOK
<1>1. ASSUME NEW k \in Node, Held(k)'
      PROVE  frame'[k].nd \in heap' /\ \A s \in Status : frame'[k].nd \notin Queue(s)'
    BY <1>1, HandKept, HandTaken
<1>2. ASSUME NEW k \in Node, NEW j \in Node, Held(k)', Held(j)', frame'[k].nd = frame'[j].nd
      PROVE  k = j
    <2>1. CASE Held(k) /\ Held(j)
        <3>1. frame[k].nd = frame[j].nd
            BY <1>2, <2>1, HandKept
        <3> QED BY <1>t, <2>1, <3>1 DEF HandInv
    <2>2. CASE ~ Held(k) /\ ~ Held(j)
        BY <1>2, <2>2, HandTaken
    <2>3. ASSUME NEW a \in Node, NEW b \in Node, Held(a)', Held(b)', ~ Held(a), Held(b)
          PROVE  frame'[a].nd # frame'[b].nd
        <3>1. PICK x \in heap' : x = frame'[a].nd /\ (x \notin heap \/ \E s \in Status : x \in Queue(s))
            BY <2>3, HandTaken
        <3>2. frame'[b].nd = frame[b].nd
            BY <2>3, HandKept
        <3>3. frame[b].nd # x
            BY <1>t, <2>3, <3>1 DEF HandInv
        <3> QED BY <3>1, <3>2, <3>3
    <2> QED BY <1>2, <2>1, <2>2, <2>3
<1>3. ASSUME NEW k \in Node, Held(k)', frame'[k].op = "wake" PROVE status'[frame'[k].nd] # "DIED"
    <2>1. CASE ~ Held(k)
        BY <1>3, <2>1, HandTaken
    <2>2. CASE Held(k)
        <3>1. PICK x \in Node : x = frame[k].nd /\ x = frame'[k].nd /\ frame[k].op = "wake" /\ status[x] # "DIED"
            <4>1. /\ frame[k].nd = frame'[k].nd /\ frame[k].op = "wake" /\ frame[k].nd \in Node
                BY <1>3, <2>2, HandKept, HeldIsClient
            <4> QED BY <1>t, <2>2, <4>1 DEF HandInv
        <3>2. CASE Link(k)
            BY <1>t, <3>1, <3>2 DEF Link, Target
        <3>3. CASE ~ Link(k)
            BY <2>2, <3>1, <3>3, HandWrites
        <3> QED BY <3>1, <3>2, <3>3
    <2> QED BY <2>1, <2>2
<1>4. ASSUME NEW k \in Node, pc'[k] \in {"fix", "drop"} PROVE status'[frame'[k].nd] # "SUSPEND"
    <2>0. Held(k)' /\ frame'[k].op = "exit" /\ frame'[k].nd = k
        BY <1>4, PlaceStep DEF Place, Held, CallsAt, Client, Gone
    <2>1. CASE ~ Held(k)
        BY <1>4, <2>0, <2>1, HandTaken
    <2>2. CASE Held(k)
        <3>1. frame[k].nd = k /\ frame[k].op = "exit" /\ pc[k] \in {"fix", "drop", "link", "push"}
            <4>1. frame[k].nd = k /\ frame[k].op = "exit"
                BY <2>0, <2>2, HandKept
            <4>2. k # Cleaner
                BY <4>1 DEF LifeInv, Place
            <4> QED BY <2>2, <4>1, <4>2 DEF Held
        <3>2. pc[k] \in {"fix", "drop"}
            <4>1. SUFFICES ASSUME pc[k] \in {"link", "push"} PROVE FALSE
                BY <3>1
            <4>2. ~ Still(k) /\ k \notin {Cleaner, Sleeper}
                BY <1>4, <4>1 DEF Still, LifeInv, Place
            <4>3. PICK n \in Node : Client(n) /\ ClientStep(n)
                BY <4>2, KernelStill DEF LifeNext
            <4>4. k = n
                BY <1>4, <4>2, <4>3, OthersStill DEF Idle
            <4>5. Link(k) \/ Push(k)
                BY <4>1, <4>3, <4>4
                DEF ClientStep, CallCreate, CallOp, Acquire, Spin, Body, Store, Fix, Drop, Inc, Unlock,
                    Poll, Dec, Dec2, Yield, At
            <4> QED BY <1>4, <1>t, <4>5 DEF Link, Push, Goto
        <3>3. ~ Link(k) /\ ~ At(k, "body") /\ status[k] # "SUSPEND"
            BY <1>t, <3>1, <3>2 DEF Link, At, HandInv
        <3>4. status'[k] = status[k]
            BY <2>2, <3>1, <3>3, HandWrites
        <3> QED BY <2>0, <3>3, <3>4
    <2> QED BY <2>1, <2>2
<1> QED BY <1>1, <1>2, <1>3, <1>4, PushReady DEF HandInv
-----------------------------------------------------------------------------
(***************************************************************************)
(* The tids.                                                               *)
(***************************************************************************)
\* Threads that have started and have not exited stay on RUNNING.
LEMMA ActiveStep ==
    ASSUME Lifecycle, LifeInv, LifeNext \/ UNCHANGED vars
    PROVE  ActiveInv'
<1> SUFFICES ASSUME NEW k \in Node PROVE Idle(k)' \/ Gone(k)' \/ k \in Queue("RUNNING")'
    BY DEF ActiveInv
<1>t. /\ pc \in [Node -> PCs] /\ frame \in [Node -> Frame]
    BY DEF LifeInv, TypeInv, TypeOK
<1>1. k \in Queue("RUNNING") => k \in Queue("RUNNING")' \/ Gone(k)'
    <2>1. SUFFICES ASSUME k \in Queue("RUNNING"), k \notin Queue("RUNNING")' PROVE Gone(k)'
        OBVIOUS
    <2>2. /\ frame[k].op = "exit" /\ Goto(k, "fix") /\ Local(k, [frame[k] EXCEPT !.nd = k])
        BY <2>1, RunningStep
    <2>3. pc'[k] = "fix" /\ frame'[k].op = "exit"
        BY <1>t, <2>2 DEF Goto, Local, Frame
    <2> QED BY <2>3 DEF Gone
<1>2. CASE Still(k)
    BY <1>1, <1>2 DEF Still, Idle, Gone, LifeInv, ActiveInv
<1>3. CASE ~ Still(k) /\ k \in {Cleaner, Sleeper}
    BY <1>3, QueueStep DEF QueueInv
<1>4. CASE ~ Still(k) /\ k \notin {Cleaner, Sleeper}
    <2>1. PICK n \in Node : Client(n) /\ ClientStep(n)
        BY <1>4, KernelStill DEF LifeNext
    <2>2. k # n => Idle(k)'
        BY <1>4, <2>1, OthersStill
    <2>3. k = n => Gone(k) \/ k \in Queue("RUNNING")
        BY <2>1, ClientIsCurrent, RunningQueued
    <2>4. k = n /\ Gone(k) => Gone(k)'
        BY <2>1, ClientIsCurrent, GoneStep
    <2> QED BY <1>1, <2>2, <2>3, <2>4
<1> QED BY <1>2, <1>3, <1>4

\* The hands that hold a node without a tid.
Untagged(n) ==
    \/ frame[n].op = "create" /\ pc[n] \in {"lock", "body", "store"}
    \/ n = Cleaner /\ pc[n] = "c_free"

LEMMA LiveIs ==
    /\ Live = {m \in heap \cup {Cleaner} : \A n \in Node : Untagged(n) => frame[n].nd # m}
    /\ Live' = {m \in heap' \cup {Cleaner} : \A n \in Node : Untagged(n)' => frame'[n].nd # m}
<1>1. Live = {m \in heap \cup {Cleaner} : \A n \in Node : Untagged(n) => frame[n].nd # m}
    BY Constants DEF Live, Untagged
<1>2. Live' = {m \in heap' \cup {Cleaner} : \A n \in Node : Untagged(n)' => frame'[n].nd # m}
    BY Constants DEF Live, Untagged
<1> QED BY <1>1, <1>2

\* A node leaves such a hand with a tid, or as free memory.
LEMMA UntaggedStep ==
    ASSUME Lifecycle, LifeInv, LifeNext \/ UNCHANGED vars, NEW n \in Node, Untagged(n)
    PROVE  \/ Untagged(n)' /\ frame'[n].nd = frame[n].nd
           \/ Store(n) /\ Client(n)
           \/ frame[n].nd \notin heap' \cup {Cleaner}
<1> USE Constants
<1>t. /\ pc \in [Node -> PCs] /\ frame \in [Node -> Frame] /\ Place(n)
    BY DEF LifeInv, TypeInv, TypeOK
<1>0. Held(n) /\ frame[n].nd \in heap /\ frame[n].nd # Cleaner
    <2>1. Held(n)
        BY DEF Untagged, Held
    <2> QED BY <2>1, HeldIsClient DEF LifeInv, HandInv, Client
<1>1. CASE Still(n)
    BY <1>1 DEF Still, Untagged
<1>2. CASE ~ Still(n) /\ n \in {Cleaner, Sleeper}
    <2>1. n = Cleaner /\ pc[n] = "c_free"
        BY <1>2, <1>t DEF Place, Untagged, NoCall
    <2>2. CleanerStep
        <3>1. ASSUME NEW k \in Node, Client(k), ClientStep(k) PROVE FALSE
            <4>1. pc[k] = "body" /\ frame[k].op = "create" => n # frame[k].nd
                BY <2>1, HeldIsClient DEF Held, Client
            <4> QED BY <1>2, <2>1, <3>1, <4>1, OthersStill DEF Client
        <3>2. Cleaner # Sleeper
            BY ThreadAssumption
        <3> QED BY <1>2, <2>1, <3>1, <3>2, KernelStill DEF LifeNext
    <2>3. CleanerFree
        BY <2>1, <2>2 DEF CleanerStep, CleanerStart, CleanerTest, CleanerReap, At
    <2> QED BY <1>0, <2>1, <2>3 DEF CleanerFree
<1>3. CASE ~ Still(n) /\ n \notin {Cleaner, Sleeper}
    <2>0. frame[n].op = "create" /\ pc[n] \in {"lock", "body", "store"}
        BY <1>3 DEF Untagged
    <2>1. n \in Queue("RUNNING")
        BY <2>0 DEF LifeInv, ActiveInv, Idle, Gone, NoCall
    <2>2. PICK k \in Node : Client(k) /\ ClientStep(k)
        BY <1>3, KernelStill DEF LifeNext
    <2>3. k = n
        <3>1. pc[k] = "body" /\ frame[k].op = "create" => n # frame[k].nd
            BY <2>1, HeldIsClient DEF Held
        <3> QED BY <1>3, <2>2, <3>1, OthersStill
    <2>4. Acquire(n) \/ Spin(n) \/ Body(n) \/ Store(n)
        BY <2>0, <2>2, <2>3
        DEF ClientStep, CallCreate, CallOp, Fix, Drop, Link, Push, Inc, Unlock, Poll, Dec, Dec2, Yield, At
    <2>5. CASE Acquire(n) \/ Spin(n)
        BY <1>t, <2>0, <2>5 DEF Acquire, Spin, Goto, Untagged
    <2>6. CASE Body(n)
        <3>1. CreateBody(n)
            BY <2>0, <2>6 DEF Body
        <3>2. CASE tidmap = Tids
            BY <1>0, <3>1, <3>2 DEF CreateBody
        <3>3. CASE tidmap # Tids
            <4>1. pc'[n] = "store" /\ frame'[n] = [frame[n] EXCEPT !.map = tidmap]
                BY <1>t, <3>1, <3>3 DEF CreateBody
            <4>2. frame'[n].op = frame[n].op /\ frame'[n].nd = frame[n].nd
                BY <1>t, <4>1 DEF Frame
            <4> QED BY <2>0, <4>1, <4>2 DEF Untagged
        <3> QED BY <3>2, <3>3
    <2> QED BY <2>2, <2>3, <2>4, <2>5, <2>6
<1> QED BY <1>1, <1>2, <1>3

\* Threads get a tid in Store only.
LEMMA LiveStep ==
    ASSUME Lifecycle, LifeInv, LifeNext \/ UNCHANGED vars, NEW x \in Live'
    PROVE  x \in Live \/ \E n \in Node : Client(n) /\ Store(n) /\ x = frame[n].nd
<1>1. CASE \E n \in Node : Untagged(n) /\ frame[n].nd = x
    BY <1>1, LiveIs, UntaggedStep
<1>2. CASE \A n \in Node : Untagged(n) => frame[n].nd # x
    <2>1. SUFFICES x \in heap \cup {Cleaner}
        BY <1>2, LiveIs
    <2>2. SUFFICES ASSUME x \notin heap \cup {Cleaner} PROVE FALSE
        OBVIOUS
    <2>3. x \in heap' /\ x \notin heap
        BY <2>2, LiveIs
    <2>4. PICK n \in Node : CallCreate(n)
        BY <2>3, QuietSteps DEF Quiet, Link, Push, CreateBody, MoveBody, CleanerReap, CleanerFree
    <2>5. PICK m \in Node : /\ heap' = heap \cup {m}
                            /\ Local(n, [NoCall EXCEPT !.op = "create", !.nd = m])
        BY <2>4 DEF CallCreate
    <2>6. frame'[n] = [NoCall EXCEPT !.op = "create", !.nd = m] /\ pc'[n] = "lock"
        BY <2>4, <2>5 DEF Local, CallCreate, Goto, LifeInv, TypeInv, TypeOK
    <2>7. frame'[n].op = "create" /\ frame'[n].nd = m
        BY <2>6 DEF NoCall
    <2>8. Untagged(n)' /\ x = m
        BY <2>3, <2>5, <2>6, <2>7 DEF Untagged
    <2> QED BY <2>7, <2>8, LiveIs
<1> QED BY <1>1, <1>2

\* Two threads never share a tid, though thread_cleaner clears bits of the
\* bitmap while thread_create holds a copy of it.
LEMMA TidStep ==
    ASSUME Lifecycle, LifeInv, LifeNext \/ UNCHANGED vars
    PROVE  TidInv'
<1> USE Constants
<1>t. /\ pc \in [Node -> PCs] /\ frame \in [Node -> Frame] /\ tid \in [Node -> Tids]
      /\ TypeInv /\ TidInv /\ TidsUnique /\ MutualExclusion /\ HandInv /\ heap \subseteq Node
    BY DEF LifeInv, TypeInv, TypeOK, TidInv
\* thread_create clears the tid of the new thread, which is not in use
<1>1. ASSUME NEW n \in Node, At(n, "body"), frame[n].op = "create", CreateBody(n)
      PROVE  TidInv'
    <2>1. PICK x \in Node : /\ x = frame[n].nd /\ Held(n) /\ Untagged(n) /\ x # Cleaner
                            /\ tid' = [tid EXCEPT ![x] = 0] /\ UNCHANGED tidmap
        <3>1. Held(n) /\ Untagged(n)
            BY <1>1 DEF At, Held, Untagged
        <3> QED BY <1>1, <3>1, HeldIsClient DEF CreateBody, Client
    <2>2. x \notin Live'
        <3>1. \/ Untagged(n)' /\ frame'[n].nd = x
              \/ x \notin heap' \cup {Cleaner}
            BY <1>1, <2>1, UntaggedStep DEF Store, At
        <3> QED BY <3>1, LiveIs
    <2>3. Live' \subseteq Live
        BY <1>1, LiveStep DEF Store, At
    <2>4. \A m \in Live' : m \in Live /\ tid'[m] = tid[m]
        BY <1>t, <2>1, <2>2, <2>3 DEF Live
    <2>5. TidsUnique'
        BY <1>t, <2>1, <2>4 DEF TidsUnique
    <2>6. tid'[Cleaner] = 0
        BY <1>t, <2>1 DEF TidInv
    <2>7. ASSUME NEW k \in Node, pc'[k] = "store" PROVE \A m \in Live' : tid'[m] \in frame'[k].map
        <3>1. k = n
            <4>1. SUFFICES ASSUME k # n PROVE FALSE
                OBVIOUS
            <4>2. k # x /\ pc[k] = "store"
                BY <1>1, <1>t, <2>1, <2>7, <4>1 DEF CreateBody
            <4>3. Crit(k) /\ Crit(n)
                BY <1>1, <4>2 DEF Crit, At
            <4> QED BY <1>t, <4>1, <4>3 DEF MutualExclusion
        <3>2. frame'[n] = [frame[n] EXCEPT !.map = tidmap]
            BY <1>1, <1>t DEF CreateBody
        <3>3. frame'[n].map = tidmap
            BY <1>t, <3>2 DEF Frame
        <3> QED BY <1>t, <2>4, <3>1, <3>3 DEF TidsUnique
    <2> QED BY <2>5, <2>6, <2>7 DEF TidInv
\* the tid it stores is free in its copy of the bitmap, which has all in use
<1>2. ASSUME NEW n \in Node, Client(n), Store(n) PROVE TidInv'
    <2>1. pc[n] = "store" /\ frame[n].op = "create" /\ Held(n)
        BY <1>2 DEF Store, At, LifeInv, Place, CallsAt, Held
    <2>2. PICK x \in Node, t \in Tids :
            /\ x = frame[n].nd /\ x # Cleaner /\ t \notin frame[n].map
            /\ tidmap' = frame[n].map \cup {t} /\ tid' = [tid EXCEPT ![x] = t]
        <3>1. frame[n].map \in SUBSET Tids /\ frame[n].map # Tids
            BY <1>t, <2>1 DEF Frame, TypeInv, PointersOK
        <3>2. (CHOOSE i \in Tids \ frame[n].map : \A j \in Tids \ frame[n].map : i <= j)
                \in Tids \ frame[n].map
            BY <3>1, LowestFree
        <3>3. frame[n].nd \in Node /\ frame[n].nd # Cleaner
            BY <2>1, HeldIsClient DEF Client
        <3> QED BY <1>2, <3>2, <3>3 DEF Store
    <2>3. \A m \in Live : tid[m] \in frame[n].map
        BY <1>t, <2>1 DEF TidInv
    <2>4. \A m \in Live' : m \in Node /\ (m # x => m \in Live)
        <3>1. \A k \in Node : Store(k) => k = n
            BY <1>2 DEF Store, At
        <3> QED BY <1>t, <2>2, <3>1, LiveStep DEF Live
    <2>5. \A m \in Live' : tid'[m] = IF m = x THEN t ELSE tid[m]
        BY <1>t, <2>2, <2>4
    <2>6. TidsUnique'
        BY <1>t, <2>2, <2>3, <2>4, <2>5 DEF TidsUnique
    <2>7. tid'[Cleaner] = 0
        BY <1>t, <2>2 DEF TidInv
    <2>8. \A k \in Node : pc'[k] # "store"
        <3>1. ASSUME NEW k \in Node, k # n, pc[k] = "store" PROVE FALSE
            BY <1>t, <2>1, <3>1 DEF MutualExclusion, Crit
        <3> QED BY <1>2, <1>t, <3>1 DEF Store, Goto
    <2> QED BY <2>6, <2>7, <2>8 DEF TidInv
\* thread_cleaner gives back the tid of the one thread it reaps
<1>3. CASE CleanerReap
    <2>1. PICK x \in Node : x = frame[Cleaner].nd /\ x \in Live /\ tidmap' = tidmap \ {tid[x]}
        <3>1. PICK m \in heap : m = frame[Cleaner].nd /\ m \in Queue("DIED")
            BY <1>3, ReapQueues
        <3>2. m \in Live
            BY <3>1, QueuedLive DEF Status
        <3> QED BY <1>3, <1>t, <3>1, <3>2 DEF CleanerReap
    <2>2. x \notin Live'
        <3>1. \E y : frame'[Cleaner] = [frame[Cleaner] EXCEPT !.nx = y]
            BY <1>3, <1>t DEF CleanerReap, Local
        <3>2. frame'[Cleaner].nd = x
            BY <1>t, <2>1, <3>1 DEF Frame
        <3>3. Untagged(Cleaner)'
            BY <1>3, <1>t DEF CleanerReap, Goto, Untagged
        <3> QED BY <3>2, <3>3, LiveIs
    <2>3. \A m \in Live' : m \in Live /\ m # x
        <3>1. \A k \in Node : Client(k) => ~ Store(k)
            BY <1>3 DEF Store, CleanerReap, At, Client
        <3> QED BY <2>2, <3>1, LiveStep
    <2>4. tid' = tid
        BY <1>3 DEF CleanerReap, struct
    <2>5. ASSUME NEW k \in Node, pc'[k] = "store" PROVE pc[k] = "store" /\ frame'[k] = frame[k]
        BY <1>3, <1>t, <2>5 DEF CleanerReap, Goto, Local
    <2> QED BY <1>t, <2>1, <2>3, <2>4, <2>5 DEF TidInv, TidsUnique
\* no other step changes a tid or the bitmap
<1>4. CASE /\ ~ CleanerReap /\ UNCHANGED <<tid, tidmap>>
           /\ \A k \in Node : ~ Store(k)
           /\ \A k \in Node : pc'[k] = "store" => Still(k)
    <2>1. Live' \subseteq Live
        BY <1>4, LiveStep
    <2> QED BY <1>4, <1>t, <2>1 DEF TidInv, TidsUnique, Still
<1>5. ASSUME ~ CleanerReap, \A n \in Node : Client(n) => ~ Store(n),
             ~ \E n \in Node : At(n, "body") /\ frame[n].op = "create" /\ CreateBody(n)
      PROVE  /\ UNCHANGED <<tid, tidmap>>
             /\ \A k \in Node : pc'[k] = "store" => Still(k)
             /\ \A k \in Node : ~ Store(k)
    <2>1. \A k \in Node : ~ Store(k)
        BY <1>5 DEF Store, At, Client, LifeInv, Place
    <2>2. TimerIsr \/ UNCHANGED vars \/ CleanerStep \/ SleeperStart \/ SleeperTest
            => UNCHANGED <<tid, tidmap>>
        BY <1>5 DEF TimerIsr, vars, CleanerStep, CleanerStart, CleanerTest, CleanerFree, SleeperStart,
                    SleeperTest, struct
    <2>3. ASSUME NEW n \in Node, ClientStep(n) PROVE UNCHANGED <<tid, tidmap>>
        <3>1. CASE Body(n)
            BY <1>5, <3>1 DEF Body, WaitBody, MoveBody, PrintBody, struct
        <3>2. CASE ~ Body(n)
            BY <2>1, <2>3, <3>2
            DEF ClientStep, CallCreate, CallOp, Acquire, Spin, Fix, Drop, Link, Push, Inc, Unlock,
                Poll, Dec, Dec2, Yield, struct
        <3> QED BY <3>1, <3>2
    <2>4. ASSUME NEW k \in Node, pc'[k] = "store", ~ Still(k) PROVE FALSE
        <3>1. k \notin {Cleaner, Sleeper}
            BY <2>4, PlaceStep DEF Place
        <3>2. PICK n \in Node : Client(n) /\ ClientStep(n)
            BY <2>4, <3>1, KernelStill DEF LifeNext
        <3>3. k = n
            BY <2>4, <3>2, OthersStill DEF Idle
        <3>4. ~ (\/ CallCreate(n) \/ CallOp(n) \/ Acquire(n) \/ Spin(n) \/ Push(n) \/ Link(n)
                 \/ Inc(n) \/ Dec(n) \/ Dec2(n) \/ Yield(n))
            BY <1>t, <2>4, <3>3
            DEF CallCreate, CallOp, Acquire, Spin, Push, Link, Inc, Dec, Dec2, Yield, Goto, Return, Still
        <3>5. ~ (Fix(n) \/ Drop(n) \/ Unlock(n) \/ Poll(n))
            BY <1>t, <2>4, <3>3 DEF Fix, Drop, Unlock, Poll, Goto, Return, Still
        <3>6. ~ Body(n)
            BY <1>5, <1>t, <2>4, <3>3 DEF Body, WaitBody, MoveBody, PrintBody, Goto
        <3> QED BY <2>1, <3>2, <3>4, <3>5, <3>6 DEF ClientStep
    <2> QED BY <2>1, <2>2, <2>3, <2>4 DEF LifeNext
<1> QED BY <1>1, <1>2, <1>3, <1>4, <1>5
-----------------------------------------------------------------------------
(***************************************************************************)
(* The state start_thread leaves.                                          *)
(***************************************************************************)
\* The invariant holds when the threads start.
LEMMA LifeInit == Init => LifeInv
<1> SUFFICES ASSUME Init PROVE LifeInv
    OBVIOUS
<1> USE Constants
<1>0. /\ TypeInv /\ {"RUNNING", "READY", "SUSPEND", "DIED"} = Status
      /\ Sleeper \in Booted /\ Cleaner \notin Booted /\ Booted \subseteq Node /\ Cleaner # Sleeper
    BY InitTypeInv, BootType, ThreadAssumption DEF Status, Booted
<1>1. /\ pc = [n \in Node |-> CASE n = Cleaner -> "c_start" [] n = Sleeper -> "s_start" [] OTHER -> "run"]
      /\ frame = [n \in Node |-> NoCall] /\ heap = Booted /\ current = Cleaner /\ fix = NULL
    BY DEF Init
<1>2. ASSUME NEW n \in Node
      PROVE  /\ pc[n] = CASE n = Cleaner -> "c_start" [] n = Sleeper -> "s_start" [] OTHER -> "run"
             /\ frame[n] = NoCall /\ frame[n].op = "none" /\ frame[n].nd = NULL
    BY <1>1 DEF NoCall
<1>3. \A n \in Node : /\ pc[n] \in {"c_start", "s_start", "run"}
                      /\ pc[n] = "c_start" <=> n = Cleaner
                      /\ pc[n] = "s_start" <=> n = Sleeper
    BY <1>0, <1>2
<1>4. \A n \in Node : Place(n)
    BY <1>0, <1>2, <1>3 DEF Place, Gone, Client, CallsAt
<1>5. MutualExclusion
    BY <1>3 DEF MutualExclusion, Crit
<1>6. \A n \in Node : ~ Held(n) /\ ~ Gone(n)
    BY <1>2, <1>3 DEF Held, Gone
<1>7. QueueInv
    <2>1. QueuesSound
        BY <1>0, <1>1, BootQueue DEF QueuesSound, Init
    <2>2. head["SUSPEND"] = NULL
        BY <1>0 DEF Init
    <2> QED BY <1>0, <1>1, <2>1, <2>2, BootQueue DEF QueueInv
<1>8. IdleInv
    BY <1>0, <1>3, BootQueue DEF IdleInv
<1>9. HandInv
    BY <1>3, <1>6 DEF HandInv
<1>10. WalkInv
    BY <1>3 DEF WalkInv
<1>11. CpuInv
    BY <1>0, <1>1, <1>6, BootQueue DEF CpuInv
<1>12. ActiveInv
    BY <1>0, <1>2, <1>3, BootQueue DEF ActiveInv, Idle
<1>13. TidInv
    <2>1. Live \subseteq Booted \cup {Cleaner}
        BY <1>1 DEF Live
    <2>2. \A m \in Booted : tid[m] = Slot(m) /\ tid[m] \in 1 .. Len(Boot) /\ Boot[tid[m]] = m
        BY <1>0, BootType DEF Init
    <2>3. tid[Cleaner] = 0
        BY <1>0 DEF Init
    <2>4. tidmap = 0 .. Len(Boot) /\ Len(Boot) \in Nat
        BY BootType DEF Init
    <2>5. TidsUnique
        BY <2>1, <2>2, <2>3, <2>4 DEF TidsUnique
    <2> QED BY <1>3, <2>3, <2>5 DEF TidInv
<1> QED BY <1>0, <1>4, <1>5, <1>7, <1>8, <1>9, <1>10, <1>11, <1>12, <1>13 DEF LifeInv

\* The invariant is inductive.
LEMMA LifeStep ==
    ASSUME Lifecycle, LifeInv, [Next]_vars
    PROVE  LifeInv'
<1>1. LifeNext \/ UNCHANGED vars
    BY LifeSteps
<1>2. TypeInv'
    BY TypeStep DEF LifeInv
<1>3. MutualExclusion'
    <2>1. [\A n \in Node : ~ Resume(n)]_vars
        <3>1. ASSUME NEW n \in Node, Resume(n) PROVE FALSE
            <4>1. current = n /\ pc[n] = "resume" /\ Place(n)
                BY <3>1 DEF Resume, At, LifeInv
            <4>2. Gone(n)
                BY <4>1, Constants DEF Place, CallsAt, Client, Gone
            <4> QED BY <4>1, <4>2 DEF LifeInv, CpuInv
        <3> QED BY <3>1
    <2> QED BY <2>1, MutexStep DEF LifeInv
<1>4. \A k \in Node : Place(k)'
    BY <1>1, PlaceStep
<1>5. QueueInv' /\ IdleInv' /\ HandInv' /\ WalkInv' /\ CpuInv' /\ ActiveInv' /\ TidInv'
    BY <1>1, QueueStep, IdleStep, HandStep, WalkStep, CpuStep, ActiveStep, TidStep
<1> QED BY <1>2, <1>3, <1>4, <1>5 DEF LifeInv

\* It holds in every reachable state, whatever such threads do.
LEMMA LifeAlways == Lifecycle => (Spec => []LifeInv)
<1>1. LifeInv /\ Lifecycle /\ [Next]_vars => LifeInv'
    BY LifeStep
<1> SUFFICES ASSUME Lifecycle PROVE Spec => []LifeInv
    OBVIOUS
<1>2. LifeInv /\ [Next]_vars => LifeInv'
    BY <1>1
<1> QED BY <1>2, LifeInit, PTL DEF Spec

-----------------------------------------------------------------------------
(***************************************************************************)
(* The theorems.                                                           *)
(***************************************************************************)
\* The queues of thread.c hold allocated threads of the queue's status only,
\* through thread_create, thread_wake, thread_exit and the reaping of the
\* dead that thread_cleaner does without the lock.
THEOREM LifecycleQueues == Lifecycle => (Spec => []QueuesSound)
<1>1. LifeInv => QueuesSound
    BY DEF LifeInv, QueueInv
<1> QED BY <1>1, LifeAlways, PTL

\* thread_schedule always finds a thread of RUNNING, also when it interrupts
\* a thread that has just taken itself out of that queue.
THEOREM LifecycleScheduler == Lifecycle => (Spec => []SchedulerSound)
<1>1. LifeInv => SchedulerSound
    BY NextOnRunning DEF LifeInv, QueueInv, SchedulerSound
<1> QED BY <1>1, LifeAlways, PTL

\* Neither free's assertion in thread_cleaner nor thread_died's PANIC fails.
THEOREM LifecycleNoPanic == Lifecycle => (Spec => []NoPanic)
<1>1. LifeInv => NoPanic
    <2>1. SUFFICES ASSUME LifeInv, NEW n \in Node PROVE pc[n] # "panic"
        BY DEF NoPanic
    <2> QED BY <2>1 DEF LifeInv, Place, Client, CallsAt
<1> QED BY <1>1, LifeAlways, PTL

\* No two threads share a tid, though thread_cleaner clears bits of
\* tid_bitmap without thread_lock.
THEOREM LifecycleTids == Lifecycle => (Spec => []TidsUnique)
<1>1. LifeInv => TidsUnique
    BY DEF LifeInv, TidInv
<1> QED BY <1>1, LifeAlways, PTL

\* thread_lock is exclusive: nobody comes back to the second pe_unlock at
\* the end of thread_exit.
THEOREM LifecycleMutex == Lifecycle => (Spec => []MutualExclusion)
<1>1. LifeInv => MutualExclusion
    BY DEF LifeInv
<1> QED BY <1>1, LifeAlways, PTL
-----------------------------------------------------------------------------
(***************************************************************************)
(* The references.  A 4 GiB address space has room for fewer than 2^32     *)
(* threads, so that a ref never overflows.                                 *)
(***************************************************************************)
Countable == IsFiniteSet(Node) /\ Cardinality(Node) < RefMod

\* The waiters of a thread are finitely many.
LEMMA WaitersFinite ==
    ASSUME Countable, NEW m
    PROVE  /\ IsFiniteSet(Waiters(m)) /\ Cardinality(Waiters(m)) \in Nat
           /\ Waiters(m) = {} <=> Cardinality(Waiters(m)) = 0
           /\ \A n \in Node \ Waiters(m) : Cardinality(Waiters(m)) + 1 < RefMod
<1>1. Waiters(m) \subseteq Node
    BY DEF Waiters
<1>2. IsFiniteSet(Waiters(m)) /\ Cardinality(Waiters(m)) \in Nat
    BY <1>1, FS_Subset, FS_CardinalityType DEF Countable
<1>3. ASSUME NEW n \in Node \ Waiters(m) PROVE Cardinality(Waiters(m)) + 1 < RefMod
    <2>1. Waiters(m) \cup {n} \in SUBSET Node
        BY <1>1
    <2>2. Cardinality(Waiters(m) \cup {n}) = Cardinality(Waiters(m)) + 1
        BY <1>2, FS_AddElement
    <2>3. Cardinality(Waiters(m) \cup {n}) <= Cardinality(Node) /\ Cardinality(Node) \in Nat
        BY <2>1, FS_Subset, FS_CardinalityType DEF Countable
    <2> QED BY <1>2, <2>2, <2>3, Constants DEF Countable
<1> QED BY <1>2, <1>3, FS_EmptySet

Waits(n, m) == frame[n].op = "wait" /\ frame[n].nd = m /\ pc[n] \in {"unlock", "poll", "dec", "dec2"}

\* A thread joins the waiters in Inc and leaves them in Dec2.
LEMMA WaitsStep ==
    ASSUME Lifecycle, LifeInv, LifeNext \/ UNCHANGED vars, NEW k \in Node, NEW m \in Node
    PROVE  Waits(k, m)' <=> \/ Waits(k, m) /\ ~ Dec2(k)
                            \/ Inc(k) /\ frame[k].nd = m
<1> USE Constants
<1>t. /\ pc \in [Node -> PCs] /\ frame \in [Node -> Frame] /\ Place(k)
    BY DEF LifeInv, TypeInv, TypeOK
<1>1. CASE Still(k)
    <2>1. ~ Inc(k) /\ ~ Dec2(k)
        BY <1>1, <1>t DEF Still, Inc, Dec2, At, Goto, Return
    <2> QED BY <1>1, <2>1 DEF Still, Waits
<1>2. CASE ~ Still(k) /\ k \in {Cleaner, Sleeper}
    <2>1. frame[k].op = "none" /\ frame'[k].op = "none" /\ pc[k] \notin {"inc", "dec2"}
        BY <1>2, <1>t, PlaceStep DEF Place, NoCall
    <2> QED BY <2>1 DEF Waits, Inc, At
<1>3. CASE ~ Still(k) /\ k \notin {Cleaner, Sleeper}
    <2>1. PICK n \in Node : Client(n) /\ ClientStep(n)
        BY <1>3, KernelStill DEF LifeNext
    <2>c. current = n
        BY <2>1, ClientIsCurrent
    <2>2. CASE k # n
        <3>1. pc[n] = "body" /\ frame[n].op = "create" /\ k = frame[n].nd /\ Idle(k)'
            BY <1>3, <2>1, <2>2, OthersStill
        <3>2. k \notin Queue("RUNNING")
            BY <3>1, HeldIsClient DEF Held
        <3>3. ~ Waits(k, m)
            <4>1. Idle(k) \/ Gone(k)
                BY <3>2 DEF LifeInv, ActiveInv
            <4> QED BY <4>1 DEF Idle, Gone, Waits
        <3> QED BY <2>2, <2>c, <3>1, <3>3 DEF Waits, Idle, Inc, At
    <2>3. CASE k = n
        <3>t. frame[n].op \in CallsAt(pc[n])
            BY <1>t, <2>1, <2>3 DEF Place
        <3>1. CASE Inc(n)
            <4>1. pc[n] = "inc" /\ pc'[n] = "unlock" /\ frame' = frame /\ frame[n].op = "wait" /\ ~ Dec2(n)
                BY <1>t, <3>1, <3>t DEF Inc, At, Goto, CallsAt, Dec2
            <4> QED BY <2>3, <3>1, <4>1 DEF Waits
        <3>2. CASE Dec2(n)
            <4>1. pc'[n] = "run" /\ ~ Inc(n)
                BY <1>t, <3>2 DEF Dec2, At, Goto, Return, Inc
            <4> QED BY <2>3, <3>2, <4>1 DEF Waits
        <3>3. CASE Unlock(n)
            <4>1. pc[n] = "unlock" /\ ~ Inc(n) /\ ~ Dec2(n)
                BY <3>3 DEF Unlock, At, Inc, Dec2
            <4>2. frame[n].op = "wait" /\ frame[n].nd # NULL => pc'[n] = "poll" /\ frame' = frame
                BY <1>t, <2>1, <3>3 DEF Unlock, Goto, Client, Self
            <4>3. frame[n].op = "wait" /\ frame[n].nd = NULL => pc'[n] = "run"
                BY <1>t, <2>1, <3>3 DEF Unlock, Goto, Client, Return
            <4>4. frame[n].op # "wait" => pc'[n] = "run" \/ frame'[n].op = frame[n].op
                BY <1>t, <2>1, <3>3 DEF Unlock, Goto, Client, Return
            <4> QED BY <2>3, <4>1, <4>2, <4>3, <4>4 DEF Waits
        <3>4. CASE Poll(n)
            BY <1>t, <2>3, <3>4 DEF Poll, At, Goto, Waits, Inc, Dec2
        <3>5. CASE Dec(n)
            <4>1. pc[n] = "dec" /\ pc'[n] = "dec2" /\ \E r : frame'[n] = [frame[n] EXCEPT !.reg = r]
                BY <1>t, <3>5 DEF Dec, At, Goto, Local
            <4>2. frame'[n].op = frame[n].op /\ frame'[n].nd = frame[n].nd
                BY <1>t, <4>1 DEF Frame
            <4> QED BY <2>3, <4>1, <4>2 DEF Waits, Inc, Dec2, At
        <3>6. CASE Body(n)
            <4>1. pc[n] = "body"
                BY <3>6 DEF Body, At
            <4>2. ~ Waits(n, m)'
                <5>1. frame[n].op = "wait" => WaitBody(n) /\ frame[n].nd = NULL
                    BY <1>t, <2>3, <3>6, <4>1 DEF Body, Place
                <5>2. WaitBody(n) => pc'[n] = "inc" \/ frame' = frame
                    BY <1>t DEF WaitBody, Goto
                <5> QED BY <3>6, <5>1, <5>2, BodyKeepsOp DEF Waits
            <4> QED BY <2>3, <4>1, <4>2 DEF Waits, Inc, At
        <3>7. CASE \/ CallCreate(n) \/ CallOp(n) \/ Acquire(n) \/ Spin(n)
            BY <1>t, <2>3, <3>7 DEF CallCreate, CallOp, Acquire, Spin, At, Goto, Waits, Inc
        <3>8. CASE Store(n) \/ Fix(n) \/ Drop(n) \/ Link(n) \/ Push(n) \/ Yield(n)
            <4>1. pc[n] \in {"store", "fix", "drop", "link", "push", "yield"}
                BY <3>8 DEF Store, Fix, Drop, Link, Push, Yield, At
            <4>2. frame[n].op # "wait" /\ ~ Inc(n)
                BY <3>t, <4>1 DEF CallsAt, Inc, At
            <4>3. pc'[n] # "unlock" \/ frame' = frame
                BY <1>t, <3>8 DEF Store, Fix, Drop, Link, Push, Yield, Goto
            <4>4. pc'[n] \in {"link", "drop", "drop2", "push", "unlock", "resume"}
                BY <1>t, <3>8 DEF Store, Fix, Drop, Link, Push, Yield, Goto
            <4> QED BY <2>3, <4>2, <4>3, <4>4 DEF Waits
        <3> QED BY <2>1, <3>1, <3>2, <3>3, <3>4, <3>5, <3>6, <3>7, <3>8 DEF ClientStep
    <2> QED BY <2>2, <2>3
<1> QED BY <1>1, <1>2, <1>3

\* Where the threads that count come from.
LEMMA CountingFrom ==
    ASSUME Lifecycle, LifeInv, LifeNext \/ UNCHANGED vars, NEW k \in Node, ~ Still(k)
    PROVE  /\ pc'[k] = "inc" => At(k, "body") /\ frame[k].op = "wait" /\ WaitBody(k)
           /\ pc'[k] = "dec" => Poll(k)
           /\ pc'[k] = "dec2" => Dec(k)
           /\ pc'[k] \in {"c_reap", "c_free"} => k = Cleaner /\ (CleanerTest \/ CleanerReap)
<1> USE Constants
<1>t. /\ pc \in [Node -> PCs] /\ frame \in [Node -> Frame]
    BY DEF LifeInv, TypeInv, TypeOK
<1>1. ASSUME pc'[k] \in {"inc", "dec", "dec2"}
      PROVE  /\ pc'[k] = "inc" => At(k, "body") /\ frame[k].op = "wait" /\ WaitBody(k)
             /\ pc'[k] = "dec" => Poll(k)
             /\ pc'[k] = "dec2" => Dec(k)
    <2>1. k \notin {Cleaner, Sleeper}
        BY <1>1, PlaceStep DEF Place
    <2>2. PICK n \in Node : Client(n) /\ ClientStep(n)
        BY <2>1, KernelStill DEF LifeNext
    <2>3. k = n
        BY <1>1, <2>2, OthersStill DEF Idle
    <2>4. ~ (\/ CallCreate(n) \/ CallOp(n) \/ Acquire(n) \/ Spin(n) \/ Push(n) \/ Link(n)
             \/ Inc(n) \/ Dec2(n) \/ Yield(n) \/ Store(n))
        BY <1>1, <1>t, <2>3
        DEF CallCreate, CallOp, Acquire, Spin, Push, Link, Inc, Dec2, Yield, Store, Goto, Return, Still
    <2>5. ~ (Fix(n) \/ Drop(n) \/ Unlock(n))
        BY <1>1, <1>t, <2>3 DEF Fix, Drop, Unlock, Goto, Return
    <2>6. Body(n) => pc'[n] = "inc" /\ At(n, "body") /\ frame[n].op = "wait" /\ WaitBody(n)
        BY <1>1, <1>t, <2>3 DEF Body, CreateBody, WaitBody, MoveBody, PrintBody, Goto
    <2>7. (Poll(n) => pc'[n] = "dec") /\ (Dec(n) => pc'[n] = "dec2")
        BY <1>1, <1>t, <2>3 DEF Poll, Dec, Goto, At
    <2> QED BY <1>1, <2>2, <2>3, <2>4, <2>5, <2>6, <2>7 DEF ClientStep
<1>2. ASSUME pc'[k] \in {"c_reap", "c_free"} PROVE k = Cleaner /\ (CleanerTest \/ CleanerReap)
    <2>1. k = Cleaner
        BY <1>2, PlaceStep DEF Place, Client, CallsAt
    <2>2. CleanerStep
        <3>1. ASSUME NEW n \in Node, Client(n), ClientStep(n) PROVE FALSE
            <4>1. pc[n] = "body" /\ frame[n].op = "create" => k # frame[n].nd
                BY <2>1, HeldIsClient DEF Held, Client
            <4> QED BY <2>1, <3>1, <4>1, OthersStill DEF Client
        <3>2. Cleaner # Sleeper
            BY ThreadAssumption
        <3> QED BY <2>1, <3>1, <3>2, KernelStill DEF LifeNext
    <2>3. ~ CleanerStart /\ ~ CleanerFree
        BY <1>2, <1>t, <2>1 DEF CleanerStart, CleanerFree, Goto
    <2> QED BY <2>1, <2>2, <2>3 DEF CleanerStep
<1> QED BY <1>1, <1>2

\* Only waiters and thread_create write a ref.
LEMMA RefWrites ==
    ASSUME LifeInv, LifeNext \/ UNCHANGED vars, NEW x \in Node
    PROVE  \/ ref'[x] = ref[x]
           \/ \E n \in Node : /\ Client(n) /\ frame[n].nd = x
                              /\ \/ Inc(n) \/ Dec2(n)
                                 \/ At(n, "body") /\ frame[n].op = "create" /\ CreateBody(n)
<1>t. ref \in [Node -> 0 .. RefMod - 1]
    BY DEF LifeInv, TypeInv, TypeOK
<1>1. TimerIsr \/ UNCHANGED vars \/ CleanerStep \/ SleeperStart \/ SleeperTest => ref' = ref
    BY DEF TimerIsr, vars, CleanerStep, CleanerStart, CleanerTest, CleanerReap, CleanerFree,
           SleeperStart, SleeperTest, struct
<1>2. ASSUME NEW n \in Node, ClientStep(n), ~ Inc(n), ~ Dec2(n), ~ Body(n) PROVE ref' = ref
    BY <1>2 DEF ClientStep, CallCreate, CallOp, Acquire, Spin, Store, Fix, Drop, Link, Push,
                Unlock, Poll, Dec, Yield, struct
<1>3. ASSUME NEW n \in Node, Inc(n) \/ Dec2(n) \/ CreateBody(n), frame[n].nd # x PROVE ref'[x] = ref[x]
    BY <1>3, <1>t DEF Inc, Dec2, CreateBody
<1>4. ASSUME NEW n \in Node, WaitBody(n) \/ MoveBody(n) \/ PrintBody(n) PROVE ref' = ref
    BY <1>4 DEF WaitBody, MoveBody, PrintBody, struct
<1> QED BY <1>1, <1>2, <1>3, <1>4 DEF LifeNext, Body

\* Only the holder of a node writes its status.
LEMMA StatusWrites ==
    ASSUME LifeInv, LifeNext \/ UNCHANGED vars, NEW x \in Node
    PROVE  \/ status'[x] = status[x]
           \/ \E n \in Node : /\ Client(n) /\ frame[n].nd = x
                              /\ \/ Link(n)
                                 \/ At(n, "body") /\ frame[n].op = "create" /\ CreateBody(n)
<1>t. status \in [Node -> Status]
    BY DEF LifeInv, TypeInv, TypeOK
<1>1. ASSUME NEW n \in Node, Link(n) \/ CreateBody(n), frame[n].nd # x PROVE status'[x] = status[x]
    BY <1>1, <1>t DEF Link, CreateBody
<1>2. ASSUME NEW n \in Node, CallCreate(n) \/ Push(n) \/ MoveBody(n) \/ CleanerReap \/ CleanerFree
      PROVE  status' = status
    BY <1>2 DEF CallCreate, Push, MoveBody, CleanerReap, CleanerFree, struct
<1> QED BY <1>1, <1>2, Constants, QuietSteps DEF Quiet

\* Memory is freed from the hands that hold it without a tid.
LEMMA HeapWrites ==
    ASSUME LifeInv, LifeNext \/ UNCHANGED vars, NEW x \in heap, x \notin heap'
    PROVE  \/ CleanerFree /\ frame[Cleaner].nd = x
           \/ \E n \in Node : /\ frame[n].nd = x /\ At(n, "body") /\ frame[n].op = "create"
                              /\ CreateBody(n)
<1>1. ASSUME NEW n \in Node, CallCreate(n) \/ Link(n) \/ Push(n) \/ MoveBody(n) \/ CleanerReap
      PROVE  heap \subseteq heap'
    BY <1>1 DEF CallCreate, Link, Push, MoveBody, CleanerReap
<1>2. ASSUME NEW n \in Node, CreateBody(n) PROVE frame[n].nd = x
    BY <1>2 DEF CreateBody
<1>3. CleanerFree => frame[Cleaner].nd = x
    BY DEF CleanerFree
<1> QED BY <1>1, <1>2, <1>3, Constants, QuietSteps DEF Quiet

\* The waiters of a thread after a step.
LEMMA WaitersStep ==
    ASSUME Lifecycle, LifeInv, LifeNext \/ UNCHANGED vars, NEW m \in Node
    PROVE  /\ \A n \in Node : Inc(n) /\ frame[n].nd = m
                => n \notin Waiters(m) /\ Waiters(m)' = Waiters(m) \cup {n}
           /\ \A n \in Node : Dec2(n) /\ frame[n].nd = m
                => n \in Waiters(m) /\ Waiters(m)' = Waiters(m) \ {n}
           /\ (\A n \in Node : frame[n].nd = m => ~ Inc(n) /\ ~ Dec2(n))
                => Waiters(m)' = Waiters(m)
<1>1. /\ Waiters(m) = {n \in Node : Waits(n, m)}
      /\ Waiters(m)' = {n \in Node : Waits(n, m)'}
    BY DEF Waiters, Waits
<1>2. \A n \in Node : Waits(n, m)' <=> \/ Waits(n, m) /\ ~ Dec2(n)
                                       \/ Inc(n) /\ frame[n].nd = m
    BY WaitsStep
<1>3. \A n, k \in Node : (Inc(n) \/ Dec2(n)) /\ (Inc(k) \/ Dec2(k)) => n = k /\ ~ (Inc(n) /\ Dec2(n))
    BY DEF Inc, Dec2, At
<1>4. \A n \in Node : Waits(n, m) => frame[n].nd = m /\ ~ Inc(n)
    BY DEF Waits, Inc, At
<1>5. \A n \in Node : Dec2(n) /\ frame[n].nd = m => Waits(n, m)
    <2>1. SUFFICES ASSUME NEW n \in Node, Dec2(n), frame[n].nd = m PROVE Waits(n, m)
        OBVIOUS
    <2>2. Place(n) /\ pc[n] = "dec2"
        BY <2>1 DEF Dec2, At, LifeInv
    <2> QED BY <2>1, <2>2, Constants DEF Place, CallsAt, Client, Waits
<1> QED BY <1>1, <1>2, <1>3, <1>4, <1>5

\* A waiter of a thread is not the new thread of a thread_create.
LEMMA FreshUnwaited ==
    ASSUME LifeInv, RefInv, NEW n \in Node, At(n, "body"), frame[n].op = "create"
    PROVE  Waiters(frame[n].nd) = {} /\ Held(n) /\ frame[n].nd \in Node
BY HeldIsClient DEF RefInv, Counting, Held, At

\* The count of every thread stays right.
LEMMA CountedStep ==
    ASSUME Lifecycle, Countable, LifeInv, RefInv, LifeNext \/ UNCHANGED vars, NEW m \in Node
    PROVE  Counted(m)'
<1> USE Constants
<1>t. /\ ref \in [Node -> 0 .. RefMod - 1] /\ status \in [Node -> Status] /\ frame \in [Node -> Frame]
      /\ Counted(m) /\ HandInv
    BY DEF LifeInv, TypeInv, TypeOK, RefInv
<1>w. /\ IsFiniteSet(Waiters(m)) /\ Cardinality(Waiters(m)) \in Nat
      /\ Waiters(m) = {} <=> Cardinality(Waiters(m)) = 0
    BY WaitersFinite
\* memory is freed only where nobody waits
<1>h. m \in heap /\ Waiters(m) # {} => m \in heap'
    <2>1. SUFFICES ASSUME m \in heap, m \notin heap' PROVE Waiters(m) = {}
        OBVIOUS
    <2>2. CASE CleanerFree /\ frame[Cleaner].nd = m
        <3>1. ref[m] = 0
            BY <2>2 DEF CleanerFree, At, RefInv, Counting
        <3> QED BY <1>t, <1>w, <3>1 DEF Counted
    <2> QED BY <2>1, <2>2, HeapWrites, FreshUnwaited
\* ++ref
<1>1. ASSUME NEW n \in Node, Inc(n), frame[n].nd = m PROVE Counted(m)'
    <2>1. m \in Queue("RUNNING") \ {Cleaner} /\ frame[n].reg = ref[m] + 1
        BY <1>1 DEF Inc, At, RefInv, Counting
    <2>2. status[m] = "RUNNING" /\ m \in heap
        BY <2>1 DEF LifeInv, QueueInv, QueuesSound, Status
    <2>3. n \notin Waiters(m) /\ Waiters(m)' = Waiters(m) \cup {n}
        BY <1>1, WaitersStep
    <2>4. Cardinality(Waiters(m) \cup {n}) = Cardinality(Waiters(m)) + 1
        BY <1>w, <2>3, FS_AddElement
    <2>5. ref'[m] = ref[m] + 1 /\ heap' = heap /\ status' = status
        BY <1>1, <1>t, <2>1 DEF Inc
    <2> QED BY <1>t, <1>w, <2>2, <2>3, <2>4, <2>5 DEF Counted
\* --ref
<1>2. ASSUME NEW n \in Node, Dec2(n), frame[n].nd = m PROVE Counted(m)'
    <2>1. status[m] = "DIED" /\ frame[n].reg >= Cardinality(Waiters(m)) - 1
        BY <1>2 DEF Dec2, At, RefInv, Counting
    <2>2. n \in Waiters(m) /\ Waiters(m)' = Waiters(m) \ {n}
        BY <1>2, WaitersStep
    <2>3. Cardinality(Waiters(m) \ {n}) = Cardinality(Waiters(m)) - 1
        BY <1>w, <2>2, FS_RemoveElement
    <2>4. ref'[m] = frame[n].reg /\ heap' = heap /\ status' = status
        BY <1>2, <1>t DEF Dec2
    <2> QED BY <1>t, <1>w, <2>1, <2>2, <2>3, <2>4 DEF Counted
<1>3. CASE \A n \in Node : frame[n].nd = m => ~ Inc(n) /\ ~ Dec2(n)
    <2>0. Waiters(m)' = Waiters(m)
        BY <1>3, WaitersStep
    \* a new thread
    <2>1. ASSUME NEW n \in Node, At(n, "body"), frame[n].op = "create", CreateBody(n), frame[n].nd = m
          PROVE  Counted(m)'
        <3>1. Waiters(m) = {}
            BY <2>1, FreshUnwaited
        <3>2. ref'[m] = 0
            BY <1>t, <2>1 DEF CreateBody
        <3> QED BY <1>w, <2>0, <3>1, <3>2 DEF Counted
    <2>2. CASE \A n \in Node : ~ (/\ frame[n].nd = m /\ At(n, "body") /\ frame[n].op = "create"
                                  /\ CreateBody(n))
        <3>1. ref'[m] = ref[m]
            BY <1>3, <2>2, RefWrites
        <3>2. status[m] = "DIED" => status'[m] = "DIED"
            <4>1. SUFFICES ASSUME status[m] = "DIED", status'[m] # "DIED" PROVE FALSE
                OBVIOUS
            <4>2. PICK n \in Node : Client(n) /\ frame[n].nd = m /\ Link(n)
                BY <2>2, <4>1, StatusWrites
            <4>3. Held(n) /\ pc[n] = "link" /\ frame[n].op \in {"create", "wake", "exit"}
                BY <4>2, UntouchedSteps DEF Link, At, LifeInv, Place, CallsAt
            <4>4. frame[n].op = "exit"
                BY <1>t, <4>1, <4>2, <4>3 DEF RefInv, Counting, HandInv
            <4>5. status'[m] = Target(frame[n].op)
                BY <1>t, <4>2 DEF Link
            <4> QED BY <4>1, <4>4, <4>5 DEF Target
        <3> QED BY <1>h, <1>t, <1>w, <2>0, <3>1, <3>2 DEF Counted
    <2> QED BY <2>1, <2>2
<1> QED BY <1>1, <1>2, <1>3

\* A new thread is written by the thread_create that holds it.
LEMMA CreatingFrom ==
    ASSUME Lifecycle, LifeInv, LifeNext \/ UNCHANGED vars, NEW k \in Node, ~ Still(k),
           pc'[k] \in {"store", "link"}, frame'[k].op = "create"
    PROVE  Store(k) \/ (At(k, "body") /\ frame[k].op = "create" /\ CreateBody(k))
<1> USE Constants
<1>t. pc \in [Node -> PCs] /\ frame \in [Node -> Frame] /\ Place(k)
    BY DEF LifeInv, TypeInv, TypeOK
<1>1. k \notin {Cleaner, Sleeper}
    BY PlaceStep DEF Place
<1>2. PICK n \in Node : Client(n) /\ ClientStep(n)
    BY <1>1, KernelStill DEF LifeNext
<1>3. k = n
    BY <1>2, OthersStill DEF Idle
<1>4. frame[n].op \in CallsAt(pc[n])
    BY <1>1, <1>3, <1>t DEF Place, Client
<1>5. ~ (\/ CallCreate(n) \/ CallOp(n) \/ Acquire(n) \/ Spin(n) \/ Push(n) \/ Link(n)
         \/ Inc(n) \/ Dec2(n) \/ Yield(n))
    BY <1>3, <1>t
    DEF CallCreate, CallOp, Acquire, Spin, Push, Link, Inc, Dec2, Yield, Goto, Return, Still
<1>6. ~ (Unlock(n) \/ Poll(n) \/ Dec(n))
    BY <1>3, <1>t DEF Unlock, Poll, Dec, Goto, Return, Still
<1>7. ~ Fix(n) /\ ~ Drop(n)
    <2>1. Fix(n) \/ Drop(n) => frame[n].op = "exit"
        BY <1>4 DEF Fix, Drop, At, CallsAt
    <2>2. Fix(n) => frame' = frame
        BY DEF Fix
    <2>3. Drop(n) => frame' = frame
        BY <1>3, <1>t DEF Drop, Goto
    <2> QED BY <1>3, <2>1, <2>2, <2>3
<1>8. Body(n) => At(n, "body") /\ frame[n].op = "create" /\ CreateBody(n)
    <2>1. Body(n) => frame'[n].op = frame[n].op
        BY BodyKeepsOp
    <2> QED BY <1>3, <2>1 DEF Body
<1> QED BY <1>2, <1>3, <1>5, <1>6, <1>7, <1>8 DEF ClientStep

\* What the threads that count know stays right.
LEMMA CountingStep ==
    ASSUME Lifecycle, Countable, LifeInv, RefInv, [Next]_vars, NEW k \in Node
    PROVE  Counting(k)'
<1> USE Constants
<1>s. (LifeNext \/ UNCHANGED vars) /\ TypeInv'
    BY LifeSteps, TypeStep DEF LifeInv
<1>t. /\ pc \in [Node -> PCs] /\ frame \in [Node -> Frame] /\ HandInv /\ MutualExclusion
      /\ ref \in [Node -> 0 .. RefMod - 1] /\ status \in [Node -> Status] /\ TypeInv
      /\ Counting(k) /\ Place(k)
    BY DEF LifeInv, TypeInv, TypeOK, RefInv
<1>q. \A x \in Queue("RUNNING") : x \in Node /\ status[x] = "RUNNING" /\ (x # Cleaner => x \in heap)
    BY LifeLists DEF LifeInv, QueueInv, QueuesSound, Status
\* whoever joins the waiters joins those of a thread on RUNNING
<1>i. \A n \in Node : Inc(n) => frame[n].nd \in Queue("RUNNING") \ {Cleaner}
    BY DEF RefInv, Counting, Inc, At
<1>d. \A n \in Node : Dec2(n) => status[frame[n].nd] = "DIED"
    BY DEF RefInv, Counting, Dec2, At
\* a thread's new node
<1>1. ASSUME Held(k)', frame'[k].op = "create" PROVE \E x \in Node : x = frame'[k].nd /\ Waiters(x)' = {}
    <2>1. PICK x \in Node : /\ x = frame'[k].nd /\ Waiters(x) = {}
                            /\ x \notin Queue("RUNNING") \ {Cleaner}
        <3>1. CASE Held(k)
            <4>1. frame'[k].nd = frame[k].nd /\ frame[k].op = "create" /\ frame[k].nd \in Node
                BY <1>s, <1>1, <3>1, HandKept, HeldIsClient
            <4> QED BY <1>t, <3>1, <4>1 DEF Counting, HandInv, Status
        <3>2. CASE ~ Held(k)
            <4>1. PICK x \in heap' : x = frame'[k].nd /\ x \notin heap
                BY <1>s, <1>1, <3>2, HandTaken
            <4>2. x \in Node
                BY <1>s, <4>1 DEF TypeInv, TypeOK
            <4> QED BY <1>q, <4>1, <4>2 DEF RefInv, Counted
        <3> QED BY <3>1, <3>2
    <2>2. \A n \in Node : frame[n].nd = x => ~ Inc(n)
        BY <1>i, <2>1
    <2>3. Waiters(x)' = {}
        BY <1>s, <2>1, <2>2, WaitersStep
    <2> QED BY <2>1, <2>3
<1>2. ASSUME pc'[k] \in {"store", "link"}, frame'[k].op = "create" PROVE status'[frame'[k].nd] # "DIED"
    <2>1. CASE Still(k)
        <3>1. /\ Held(k) /\ frame'[k] = frame[k] /\ pc[k] \in {"store", "link"}
              /\ status[frame[k].nd] # "DIED" /\ frame[k].nd \in Node
            BY <1>2, <1>t, <2>1, HeldIsClient DEF Still, Held, Counting
        <3>2. ~ Link(k) /\ ~ At(k, "body")
            BY <1>t, <2>1, <3>1 DEF Link, At, Goto, Still
        <3> QED BY <1>s, <3>1, <3>2, HandWrites
    <2>2. CASE Store(k)
        <3>1. frame[k].op = "create" /\ pc[k] = "store" /\ frame' = frame /\ status' = status
            BY <1>2, <2>2 DEF Store, At
        <3> QED BY <1>t, <3>1 DEF Counting
    <2>3. CASE At(k, "body") /\ frame[k].op = "create" /\ CreateBody(k)
        <3>1. frame[k].nd \in Node
            BY <2>3, HeldIsClient DEF Held, At
        <3>2. frame'[k] = [frame[k] EXCEPT !.map = tidmap] /\ status'[frame[k].nd] = "RUNNING"
            BY <1>t, <2>3, <3>1 DEF CreateBody
        <3>3. frame'[k].nd = frame[k].nd
            BY <1>t, <3>2 DEF Frame
        <3> QED BY <3>2, <3>3
    <2> QED BY <1>2, <1>s, <2>1, <2>2, <2>3, CreatingFrom
\* thread_wait's ++ref
<1>3. ASSUME pc'[k] = "inc"
      PROVE  /\ frame'[k].nd \in Queue("RUNNING")' \ {Cleaner}
             /\ frame'[k].reg = ref'[frame'[k].nd] + 1
    <2>1. CASE Still(k)
        <3>1. /\ pc[k] = "inc" /\ frame'[k] = frame[k] /\ frame[k].nd \in Queue("RUNNING") \ {Cleaner}
              /\ frame[k].reg = ref[frame[k].nd] + 1
            BY <1>3, <1>t, <2>1 DEF Still, Counting
        <3>2. \A n \in Node : Crit(n) => n = k
            BY <1>t, <3>1 DEF MutualExclusion, Crit
        <3>3. ~ Inc(k)
            BY <1>t, <2>1, <3>1 DEF Inc, Goto, Still
        <3>4. \A n \in Node : ~ At(n, "body") /\ ~ Push(n) /\ ~ Inc(n)
            BY <3>1, <3>2, <3>3 DEF Crit, At, Push, Inc
        <3>5. Queue("RUNNING")' = Queue("RUNNING")
            BY <1>s, <3>4, RunningStep
        <3>6. \A n \in Node : Dec2(n) => frame[n].nd # frame[k].nd
            BY <1>d, <1>q, <3>1
        <3>7. ref'[frame[k].nd] = ref[frame[k].nd]
            BY <1>s, <1>q, <3>1, <3>4, <3>6, RefWrites
        <3> QED BY <3>1, <3>5, <3>7
    <2>2. CASE ~ Still(k)
        <3>1. At(k, "body") /\ frame[k].op = "wait" /\ WaitBody(k)
            BY <1>s, <1>3, <2>2, CountingFrom
        <3>2. PICK m \in Node : /\ m \in Queue("RUNNING") /\ tid[m] = frame[k].arg
                                /\ frame'[k] = [frame[k] EXCEPT !.nd = m, !.reg = (ref[m] + 1) % RefMod]
            <4> DEFINE s == Source("wait", frame[k].arg)
                       m == FindByTid(frame[k].arg, s)
            <4>1. m # NULL /\ frame'[k] = [frame[k] EXCEPT !.nd = m, !.reg = (ref[m] + 1) % RefMod]
                BY <1>3, <1>t, <3>1 DEF WaitBody, Goto, Local
            <4>2. m \in Queue(s) /\ tid[m] = frame[k].arg
                BY <4>1, FindIn
            <4>3. s \in {"RUNNING", "SUSPEND"} /\ Queue("SUSPEND") = {}
                BY ReachType, QueueIs DEF Source, First, Second, LifeInv, QueueInv
            <4> HIDE DEF m, s
            <4>4. m \in Queue("RUNNING")
                BY <4>2, <4>3
            <4> QED BY <1>q, <4>1, <4>2, <4>4
        <3>3. m # Cleaner
            <4>1. frame[k].arg # 0
                BY <3>1 DEF LifeInv, Place
            <4> QED BY <3>2, <4>1 DEF LifeInv, TidInv
        <3>4. (ref[m] + 1) % RefMod = ref[m] + 1
            <4>1. k \notin Waiters(m)
                BY <3>1 DEF Waiters, At
            <4>2. ref[m] = Cardinality(Waiters(m)) /\ ref[m] + 1 < RefMod /\ ref[m] \in Nat
                BY <1>q, <3>2, <4>1, WaitersFinite DEF RefInv, Counted
            <4> QED BY <4>2
        <3>5. frame'[k].nd = m /\ frame'[k].reg = ref[m] + 1
            BY <1>t, <3>2, <3>4 DEF Frame
        <3>6. UNCHANGED <<head, next, ref>>
            BY <3>1 DEF WaitBody, queues, struct
        <3> QED BY <3>2, <3>3, <3>5, <3>6, SameQueues
    <2> QED BY <2>1, <2>2
\* its --ref
<1>p. \A n \in Node : pc[n] \in {"poll", "dec", "dec2"}
            => frame[n].op = "wait" /\ frame[n].nd \in Node /\ n \in Waiters(frame[n].nd)
    <2>1. SUFFICES ASSUME NEW n \in Node, pc[n] \in {"poll", "dec", "dec2"}
                   PROVE  frame[n].op = "wait" /\ frame[n].nd \in Node /\ n \in Waiters(frame[n].nd)
        OBVIOUS
    <2>2. Place(n)
        BY DEF LifeInv
    <2>3. frame[n].op = "wait"
        BY <2>1, <2>2 DEF Place, Client, CallsAt
    <2>4. frame[n].nd \in Node
        BY <1>t, <2>1 DEF TypeInv, PointersOK, Deref
    <2> QED BY <2>1, <2>3, <2>4 DEF Waiters
<1>e. ASSUME pc'[k] \in {"dec", "dec2"}
      PROVE  \E x \in Node : /\ x = frame[k].nd /\ x = frame'[k].nd /\ status[x] = "DIED"
                             /\ k \in Waiters(x)
    <2>1. CASE Still(k)
        BY <1>e, <1>p, <1>t, <2>1 DEF Still, Counting
    <2>2. CASE Poll(k)
        <3>1. pc[k] = "poll" /\ frame' = frame /\ status[frame[k].nd] = "DIED"
            BY <1>e, <1>t, <2>2 DEF Poll, At
        <3> QED BY <1>p, <3>1
    <2>3. CASE Dec(k)
        <3>1. pc[k] = "dec" /\ \E r : frame'[k] = [frame[k] EXCEPT !.reg = r]
            BY <1>t, <2>3 DEF Dec, At, Local
        <3>2. frame'[k].nd = frame[k].nd
            BY <1>t, <3>1 DEF Frame
        <3> QED BY <1>p, <1>t, <3>1, <3>2 DEF Counting
    <2> QED BY <1>e, <1>s, <2>1, <2>2, <2>3, CountingFrom
<1>4. ASSUME pc'[k] \in {"dec", "dec2"} PROVE status'[frame'[k].nd] = "DIED"
    <2>1. PICK x \in Node : /\ x = frame[k].nd /\ x = frame'[k].nd /\ status[x] = "DIED"
                            /\ k \in Waiters(x)
        BY <1>4, <1>e
    <2>2. ASSUME NEW n \in Node, Client(n), frame[n].nd = x, Link(n), status'[x] # "DIED" PROVE FALSE
        <3>1. Held(n) /\ pc[n] = "link" /\ frame[n].op \in {"create", "wake", "exit"}
            BY <2>2, UntouchedSteps DEF Link, At, LifeInv, Place, CallsAt
        <3>2. frame[n].op = "exit"
            BY <1>t, <2>1, <2>2, <3>1 DEF RefInv, Counting, HandInv
        <3>3. status'[x] = Target(frame[n].op)
            BY <1>t, <2>2 DEF Link
        <3> QED BY <2>2, <3>2, <3>3 DEF Target
    <2>3. ASSUME NEW n \in Node, frame[n].nd = x, At(n, "body"), frame[n].op = "create" PROVE FALSE
        BY <2>1, <2>3, FreshUnwaited
    <2> QED BY <1>s, <2>1, <2>2, <2>3, StatusWrites
<1>5. ASSUME pc'[k] = "dec2"
      PROVE  \E x \in Node : /\ x = frame'[k].nd
                             /\ frame'[k].reg >= Cardinality(Waiters(x)') - 1
    <2>1. PICK x \in Node : /\ x = frame[k].nd /\ x = frame'[k].nd /\ status[x] = "DIED"
                            /\ k \in Waiters(x)
        BY <1>5, <1>e
    <2>2. /\ IsFiniteSet(Waiters(x)) /\ Cardinality(Waiters(x)) \in Nat /\ Cardinality(Waiters(x)) # 0
        BY <2>1, WaitersFinite
    <2>3. frame'[k].reg >= Cardinality(Waiters(x)) - 1 /\ frame'[k].reg \in Nat
        <3>1. CASE Still(k)
            <4>1. pc[k] = "dec2" /\ frame'[k] = frame[k] /\ frame[k].reg \in Nat
                BY <1>5, <1>t, <3>1 DEF Still, Frame
            <4> QED BY <1>t, <2>1, <4>1 DEF Counting
        <3>2. CASE Dec(k)
            <4>1. frame'[k] = [frame[k] EXCEPT !.reg = (ref[x] + RefMod - 1) % RefMod]
                BY <1>t, <2>1, <3>2 DEF Dec, Local
            <4>2. frame'[k].reg = (ref[x] + RefMod - 1) % RefMod
                BY <1>t, <4>1 DEF Frame
            <4>3. ref[x] >= Cardinality(Waiters(x)) /\ ref[x] \in 0 .. RefMod - 1
                BY <1>t DEF RefInv, Counted
            <4>4. (ref[x] + RefMod - 1) % RefMod = ref[x] - 1
                BY <2>2, <4>3
            <4> QED BY <2>2, <4>2, <4>3, <4>4
        <3> QED BY <1>5, <1>s, <3>1, <3>2, CountingFrom
    <2>4. Cardinality(Waiters(x)') <= Cardinality(Waiters(x)) /\ Cardinality(Waiters(x)') \in Nat
        <3>1. \A n \in Node : frame[n].nd = x => ~ Inc(n)
            BY <1>i, <1>q, <2>1
        <3>2. Waiters(x)' = Waiters(x) \/ \E n \in Waiters(x) : Waiters(x)' = Waiters(x) \ {n}
            BY <1>s, <3>1, WaitersStep
        <3>3. \A n \in Waiters(x) : Cardinality(Waiters(x) \ {n}) = Cardinality(Waiters(x)) - 1
            BY <2>2, FS_RemoveElement
        <3> QED BY <2>2, <3>2, <3>3
    <2> QED BY <2>1, <2>2, <2>3, <2>4
\* thread_cleaner reaps what nobody refers to
<1>6. ASSUME pc'[k] \in {"c_reap", "c_free"} PROVE ref'[frame'[k].nd] = 0
    <2>1. CASE Still(k)
        <3>1. k = Cleaner /\ pc[k] \in {"c_reap", "c_free"} /\ frame'[k] = frame[k]
            BY <1>6, <1>t, <2>1 DEF Still, Place, Client, CallsAt
        <3>2. PICK x \in Node : x = frame[k].nd /\ ref[x] = 0
            BY <1>t, <3>1 DEF Counting, TypeInv, PointersOK, Deref
        <3>3. pc[k] = "c_reap" => x \in Queue("DIED") /\ status[x] = "DIED"
            <4>1. x # NULL
                BY <3>2
            <4> QED BY <3>1, <3>2, <4>1 DEF LifeInv, WalkInv, QueueInv, QueuesSound, Status
        <3>4. pc[k] = "c_free" => Held(k)
            BY <3>1 DEF Held
        <3>5. ASSUME NEW n \in Node, Inc(n), frame[n].nd = x PROVE FALSE
            BY <1>i, <1>q, <3>1, <3>2, <3>3, <3>4, <3>5, HeldIsClient
        <3>6. ASSUME NEW n \in Node, Dec2(n), frame[n].nd = x PROVE FALSE
            <4>1. n \in Waiters(x)
                BY <1>p, <3>6 DEF Dec2, At
            <4> QED BY <3>2, <4>1, WaitersFinite DEF RefInv, Counted
        <3>7. ASSUME NEW n \in Node, Client(n), frame[n].nd = x, At(n, "body"), frame[n].op = "create"
              PROVE  FALSE
            <4>1. Held(n)
                BY <3>7 DEF Held, At
            <4> QED BY <1>t, <3>1, <3>2, <3>3, <3>4, <3>7, <4>1 DEF HandInv, Status, Client
        <3> QED BY <1>s, <3>1, <3>2, <3>5, <3>6, <3>7, RefWrites
    <2>2. CASE CleanerTest /\ k = Cleaner
        <3>1. ref' = ref /\ frame' = frame /\ ref[frame[Cleaner].nd] = 0
            BY <1>6, <1>t, <2>2 DEF CleanerTest, At, Goto, struct
        <3> QED BY <2>2, <3>1
    <2>3. CASE CleanerReap /\ k = Cleaner
        <3>1. /\ ref' = ref /\ pc[k] = "c_reap"
              /\ \E y : frame'[k] = [frame[k] EXCEPT !.nx = y]
            BY <1>t, <2>3 DEF CleanerReap, At, Local, struct
        <3>2. frame'[k].nd = frame[k].nd
            BY <1>t, <3>1 DEF Frame
        <3> QED BY <1>t, <3>1, <3>2 DEF Counting
    <2> QED BY <1>6, <1>s, <2>1, <2>2, <2>3, CountingFrom
<1> QED BY <1>1, <1>2, <1>3, <1>4, <1>5, <1>6 DEF Counting, Waiters

\* At the start nobody waits and nobody is referred to.
LEMMA RefInit == Countable /\ Init => RefInv
<1> SUFFICES ASSUME Countable, Init, NEW n \in Node PROVE Counted(n) /\ Counting(n)
    BY DEF RefInv
<1> USE Constants
<1>1. frame[n] = NoCall /\ NoCall.op = "none" /\ pc[n] \in {"c_start", "s_start", "run"}
    BY DEF Init, NoCall
<1>2. \A m \in Node : frame[m].op = "none"
    BY DEF Init, NoCall
<1>3. Waiters(n) = {}
    BY <1>2 DEF Waiters
<1>4. ref[n] = 0
    BY DEF Init
<1>5. Counted(n)
    BY <1>3, <1>4, WaitersFinite DEF Counted
<1>6. Counting(n)
    BY <1>1 DEF Counting
<1> QED BY <1>5, <1>6

\* The references are always counted right.
LEMMA RefAlways == Lifecycle /\ Countable => (Spec => []RefInv)
<1>1. ASSUME Lifecycle, Countable, LifeInv, RefInv, [Next]_vars PROVE RefInv'
    <2>1. LifeNext \/ UNCHANGED vars
        BY <1>1, LifeSteps
    <2>2. ASSUME NEW n \in Node PROVE Counted(n)' /\ Counting(n)'
        BY <1>1, <2>1, CountedStep, CountingStep
    <2> QED BY <2>2 DEF RefInv
<1> SUFFICES ASSUME Lifecycle, Countable PROVE Spec => []RefInv
    OBVIOUS
<1>2. LifeInv /\ RefInv /\ [Next]_vars => RefInv'
    BY <1>1
<1>3. Init => RefInv
    BY RefInit
<1>4. Spec => []LifeInv
    BY LifeAlways
<1> QED BY <1>2, <1>3, <1>4, PTL DEF Spec

\* A thread in thread_wait's loop looks at memory that is still that thread:
\* thread_cleaner frees nothing that a waiter refers to, though it takes no
\* lock and the waiters' decrements race with each other.
THEOREM LifecycleWaiters == Lifecycle /\ Countable => (Spec => []WaitersPinned)
<1> USE Constants
<1>1. ASSUME Countable, LifeInv, RefInv PROVE WaitersPinned
    <2>1. SUFFICES ASSUME NEW n \in Node, pc[n] \in {"poll", "dec", "dec2"}
                   PROVE  frame[n].nd \in heap /\ ref[frame[n].nd] > 0
        BY DEF WaitersPinned
    <2>2. Place(n) /\ frame[n].nd \in Node
        BY <1>1, <2>1 DEF LifeInv, TypeInv, PointersOK, Deref
    <2>3. frame[n].op = "wait"
        BY <2>1, <2>2 DEF Place, Client, CallsAt
    <2>4. PICK m \in Node : m = frame[n].nd /\ n \in Waiters(m)
        BY <2>1, <2>2, <2>3 DEF Waiters
    <2>5. Counted(m) /\ ref[m] \in 0 .. RefMod - 1
        BY <1>1 DEF RefInv, LifeInv, TypeInv, TypeOK
    <2>6. Cardinality(Waiters(m)) \in Nat /\ Cardinality(Waiters(m)) # 0
        BY <1>1, <2>4, WaitersFinite
    <2> QED BY <2>4, <2>5, <2>6 DEF Counted
<1> SUFFICES ASSUME Lifecycle, Countable PROVE Spec => []WaitersPinned
    OBVIOUS
<1>2. LifeInv /\ RefInv => WaitersPinned
    BY <1>1
<1>3. Spec => []LifeInv /\ []RefInv
    BY LifeAlways, RefAlways
<1> QED BY <1>2, <1>3, PTL
=============================================================================
