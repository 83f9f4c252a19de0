------------------------------- MODULE Thread -------------------------------
(***************************************************************************)
(* The kernel threads of TEST-OS: the preemptive scheduler, the four       *)
(* queues of struct thread, pe_lock, thread_cleaner (tid 0) and            *)
(* sleeper_polling (tid 1), on one processor.                              *)
(*                                                                         *)
(* The model works on the pointers the code works on: every struct thread  *)
(* is a node with its `next' link, and a step is a stretch of code that no *)
(* timer interrupt can split, or that nothing else can tell apart when one *)
(* does.  Only the current thread executes; the timer interrupt is an      *)
(* action of its own that the interrupt flag IF enables.                   *)
(***************************************************************************)
EXTENDS Naturals, Sequences, FiniteSets

CONSTANTS
    Node,       \* addresses a struct thread can have
    NULL,       \* the null pointer
    Cleaner,    \* thread_cleaner, in the old kernel stack
    Sleeper,    \* the thread that runs sleeper_polling
    Boot,       \* the threads start_thread is given, sleeper_polling first
    TidMax,     \* KERNEL_THREAD_MAX
    RefMod,     \* 2^32: ref is a uint32_t
    MsPerTick,  \* milliseconds a tick counts for
    Horizon,    \* bound on the ticks counted (see Tick)
    SelfCalls,  \* operations a client thread calls on its own tid
    OtherCalls, \* operations a client thread calls on another tid
    Targets,    \* the tids those calls may name
    Creates,    \* whether client threads call thread_create
    SleepMs     \* the arguments client threads give to sleep

Tids == 0 .. TidMax - 1
Ptr == Node \cup {NULL}
Status == {"RUNNING", "READY", "SUSPEND", "DIED"}
Ops == {"create", "wake", "suspend", "wait", "exit", "print"}

STEP == 2       \* KERNEL_THREAD_STEP: ticks in a time slice

ASSUME ThreadAssumption ==
    /\ NULL \notin Node
    /\ Cleaner \in Node
    /\ Boot \in Seq(Node \ {Cleaner}) /\ Len(Boot) > 0 /\ Boot[1] = Sleeper
    /\ \A i, j \in 1 .. Len(Boot) : Boot[i] = Boot[j] => i = j
    /\ TidMax \in Nat /\ TidMax > Len(Boot)
    /\ RefMod \in Nat /\ RefMod > 1
    /\ MsPerTick \in Nat
    /\ Horizon \in Nat /\ Horizon > 1
    /\ SelfCalls \subseteq {"wait", "exit"}
    /\ OtherCalls \subseteq {"wake", "suspend", "wait", "exit", "print"}
    /\ Targets \subseteq Tids
    /\ Creates \in BOOLEAN
    /\ SleepMs \subseteq Nat
    /\ \A ms \in SleepMs : ms > MsPerTick * STEP

(***************************************************************************)
(* A thread that comes back from suspending itself unlocks thread_lock a   *)
(* second time, whoever holds it then (see Resume); what another thread    *)
(* has found in a queue may move before it is unlinked.  The clients of    *)
(* this module do not come back into another one's operation: none sleeps, *)
(* or all do nothing but sleep, or they sleep longer than is looked at and *)
(* nobody wakes them.                                                      *)
(***************************************************************************)
ASSUME LockAssumption ==
    \/ SleepMs = {}
    \/ SelfCalls = {} /\ OtherCalls = {} /\ ~Creates
    \/ /\ \A ms \in SleepMs : ms > Horizon * MsPerTick
       /\ "wake" \notin OtherCalls /\ ~Creates

VARIABLES
    head,       \* thread_head
    next, status, tid, wake, ref,       \* the fields of struct thread
    tidmap,     \* tid_bitmap, the set of the bits that are 1
    heap,       \* nodes whose block has the magic of an allocated block
    current,    \* current_thread
    fix,        \* fix_next_thread
    lock,       \* thread_lock
    intr,       \* the interrupt flag IF
    tick,       \* tick_val
    pc,         \* where each thread is in the code
    frame       \* the locals of the call each thread is in

struct == <<status, tid, wake, ref>>
queues == <<head, next>>
cpu == <<current, fix, intr>>
vars == <<head, next, status, tid, wake, ref, tidmap, heap, current, fix,
          lock, intr, tick, pc, frame>>

Frame == [op : Ops \cup {"none"}, arg : Tids, nd : Ptr, pv : Ptr, nx : Ptr,
          reg : 0 .. RefMod - 1, map : SUBSET Tids]

NoCall == [op |-> "none", arg |-> 0, nd |-> NULL, pv |-> NULL, nx |-> NULL,
           reg |-> 0, map |-> {}]

PCs == {"run", "lock", "body", "store", "inc", "fix", "drop", "drop2", "link",
        "push", "unlock", "poll", "dec", "dec2", "yield", "resume",
        "c_start", "c_test", "c_reap", "c_free", "panic",
        "s_start", "s_test", "s_due", "s_wake"}

-----------------------------------------------------------------------------
(***************************************************************************)
(* Lists.  Reach(p) is the set of nodes a walk along `next' from p visits. *)
(***************************************************************************)
ClosedUnderNext(S) == \A m \in S : next[m] \in S \cup {NULL}

Reach(p) ==
    {m \in Node : p # NULL /\ \A S \in SUBSET Node :
                     p \in S /\ ClosedUnderNext(S) => m \in S}

Queue(s) == Reach(head[s])

\* The first node of queue s with tid t, or NULL.
FindByTid(t, s) ==
    LET hits == {m \in Queue(s) : tid[m] = t}
    IN  IF hits = {} THEN NULL
        ELSE CHOOSE m \in hits :
               (\E k \in hits : hits \subseteq Reach(k)) => hits \subseteq Reach(m)

\* Mutant: only the head of a queue is taken out of it.
UnlinkHeadOnly(m, s) ==
    IF head[s] = m
    THEN head' = [head EXCEPT ![s] = next[m]] /\ UNCHANGED next
    ELSE UNCHANGED queues

\* Takes m out of queue s.
Unlink(m, s) ==
    IF head[s] = m
    THEN head' = [head EXCEPT ![s] = next[m]] /\ UNCHANGED next
    ELSE LET p == CHOOSE q \in Queue(s) : next[q] = m
         IN  next' = [next EXCEPT ![p] = next[m]] /\ UNCHANGED head

\* The queues an operation searches, and the queue it moves a thread to.
First(op) == IF op = "wake" THEN "READY" ELSE "RUNNING"
Second(op) == IF op = "suspend" THEN "RUNNING" ELSE "SUSPEND"
Source(op, t) == IF FindByTid(t, First(op)) # NULL THEN First(op) ELSE Second(op)
Target(op) ==
    CASE op = "create" -> "READY"
      [] op = "wake" -> "RUNNING"
      [] op = "suspend" -> "SUSPEND"
      [] OTHER -> "DIED"

\* A call that a thread makes on itself.
Self(n) == frame[n].op \in {"suspend", "exit"} /\ frame[n].arg = tid[n]

-----------------------------------------------------------------------------
(***************************************************************************)
(* The scheduler and the clock.                                            *)
(***************************************************************************)
\* Mutant: every time slice starts again at the head of RUNNING.
NextThreadHead == IF fix # NULL THEN fix ELSE head["RUNNING"]

NextThread ==
    IF fix # NULL THEN fix
    ELSE IF next[current] # NULL THEN next[current] ELSE head["RUNNING"]

\* thread_schedule: switch_to_next_thread leaves with interrupts on.
Switch == current' = NextThread /\ fix' = NULL /\ intr' = TRUE

\* Past the horizon the clock keeps its parity and stands still.
Tick == tick' = IF tick < Horizon THEN tick + 1 ELSE Horizon - 1

Millis == tick * MsPerTick

TimerIsr ==
    /\ intr /\ current # NULL
    /\ Tick
    /\ IF tick' % STEP = 0 THEN Switch ELSE UNCHANGED cpu
    /\ UNCHANGED <<queues, struct, tidmap, heap, lock, pc, frame>>

-----------------------------------------------------------------------------
(***************************************************************************)
(* The state after start_thread has created the threads it was given and   *)
(* woken each: a thread is pushed at the head of RUNNING, cleaner first.   *)
(***************************************************************************)
Booted == {Boot[i] : i \in 1 .. Len(Boot)}
Slot(n) == CHOOSE i \in 1 .. Len(Boot) : Boot[i] = n

Init ==
    /\ head = [s \in Status |-> IF s = "RUNNING" THEN Boot[Len(Boot)] ELSE NULL]
    /\ next = [n \in Node |-> IF n \notin Booted THEN NULL
                              ELSE IF n = Sleeper THEN Cleaner ELSE Boot[Slot(n) - 1]]
    /\ status = [n \in Node |-> "RUNNING"]
    /\ tid = [n \in Node |-> IF n \in Booted THEN Slot(n) ELSE 0]
    /\ wake = [n \in Node |-> 0]
    /\ ref = [n \in Node |-> 0]
    /\ tidmap = 0 .. Len(Boot)
    /\ heap = Booted
    /\ current = Cleaner
    /\ fix = NULL
    /\ lock = 0
    /\ intr = TRUE
    /\ tick = 0
    /\ pc = [n \in Node |-> CASE n = Cleaner -> "c_start"
                              [] n = Sleeper -> "s_start"
                              [] OTHER -> "run"]
    /\ frame = [n \in Node |-> NoCall]

-----------------------------------------------------------------------------
(***************************************************************************)
(* Steps of the current thread n.  Goto and Local set where n goes and the *)
(* locals of its call.                                                     *)
(***************************************************************************)
Goto(n, l) == pc' = [pc EXCEPT ![n] = l]
Local(n, f) == frame' = [frame EXCEPT ![n] = f]
Return(n) == Goto(n, "run") /\ Local(n, NoCall)
At(n, l) == current = n /\ pc[n] = l

Client(n) == n \notin {Cleaner, Sleeper}

\* thread_create starts with malloc, outside the lock.
CallCreate(n) ==
    /\ Creates /\ Client(n) /\ At(n, "run")
    /\ \E m \in Node \ (heap \cup {Cleaner}) :
         /\ heap' = heap \cup {m}
         /\ Local(n, [NoCall EXCEPT !.op = "create", !.nd = m])
    /\ Goto(n, "lock")
    /\ UNCHANGED <<queues, struct, tidmap, cpu, lock, tick>>

\* Any other call of a client; with tid 0 all but thread_wake return at once.
CallOp(n) ==
    /\ Client(n) /\ At(n, "run")
    /\ \E op \in SelfCalls \cup OtherCalls, t \in Targets :
         /\ op \in IF t = tid[n] THEN SelfCalls ELSE OtherCalls
         /\ t = 0 => op = "wake"
         /\ Local(n, [NoCall EXCEPT !.op = op, !.arg = t])
    /\ Goto(n, "lock")
    /\ UNCHANGED <<queues, struct, tidmap, heap, cpu, lock, tick>>

\* Mutant: sleep without cli.
CallSleepNoCli(n) ==
    /\ Client(n) /\ At(n, "run")
    /\ \E ms \in SleepMs :
         /\ Millis + ms <= (Horizon - 1) * MsPerTick \/ ms > Horizon * MsPerTick
         /\ wake' = [wake EXCEPT ![n] = Millis + ms]
    /\ ref' = [ref EXCEPT ![n] = (@ + 1) % RefMod]
    /\ Local(n, [NoCall EXCEPT !.op = "suspend", !.arg = tid[n]])
    /\ Goto(n, "lock")
    /\ UNCHANGED <<queues, status, tid, tidmap, heap, cpu, lock, tick>>

\* sleep, up to its call of thread_suspend: interrupts are off from here on.
\* A sleep ends before the clock stands still, or it outlasts it.
CallSleep(n) ==
    /\ Client(n) /\ At(n, "run")
    /\ \E ms \in SleepMs :
         /\ Millis + ms <= (Horizon - 1) * MsPerTick \/ ms > Horizon * MsPerTick
         /\ wake' = [wake EXCEPT ![n] = Millis + ms]
    /\ ref' = [ref EXCEPT ![n] = (@ + 1) % RefMod]
    /\ intr' = FALSE
    /\ Local(n, [NoCall EXCEPT !.op = "suspend", !.arg = tid[n]])
    /\ Goto(n, "lock")
    /\ UNCHANGED <<queues, status, tid, tidmap, heap, current, fix, lock, tick>>

\* Mutant: pe_lock does not test the lock.
AcquireNoTest(n) ==
    /\ At(n, "lock")
    /\ lock' = 1
    /\ Goto(n, "body")
    /\ UNCHANGED <<queues, struct, tidmap, heap, cpu, tick, frame>>

(***************************************************************************)
(* pe_lock.  It leaves IF as it found it, unless it had to yield: a switch *)
(* always turns interrupts on.                                             *)
(***************************************************************************)
Acquire(n) ==
    /\ At(n, "lock") /\ lock = 0
    /\ lock' = 1
    /\ Goto(n, "body")
    /\ UNCHANGED <<queues, struct, tidmap, heap, cpu, tick, frame>>

Spin(n) ==
    /\ At(n, "lock") /\ lock # 0
    /\ Switch
    /\ UNCHANGED <<queues, struct, tidmap, heap, lock, tick, pc, frame>>

\* thread_create: clears the block and looks for a free tid.  The bitmap
\* word it read is still in a register when it is interrupted.
CreateBody(n) ==
    LET m == frame[n].nd
    IN  /\ next' = [next EXCEPT ![m] = NULL]
        /\ status' = [status EXCEPT ![m] = "RUNNING"]
        /\ tid' = [tid EXCEPT ![m] = 0]
        /\ wake' = [wake EXCEPT ![m] = 0]
        /\ ref' = [ref EXCEPT ![m] = 0]
        /\ pc' = [pc EXCEPT ![m] = "run",
                            ![n] = IF tidmap = Tids THEN "unlock" ELSE "store"]
        /\ frame' = [frame EXCEPT ![m] = NoCall,
                                  ![n] = [frame[n] EXCEPT !.map = tidmap]]
        /\ heap' = IF tidmap = Tids THEN heap \ {m} ELSE heap
        /\ UNCHANGED <<head, tidmap, cpu, lock, tick>>

\* Mutant: the new tid is not marked in the bitmap.
StoreUnmarked(n) ==
    LET free == Tids \ frame[n].map
    IN  /\ At(n, "store")
        /\ tid' = [tid EXCEPT ![frame[n].nd] = CHOOSE i \in free : \A j \in free : i <= j]
        /\ Goto(n, "link")
        /\ UNCHANGED <<queues, status, wake, ref, tidmap, heap, cpu, lock, tick, frame>>

\* Mutant: tids are counted up instead of taken from the free ones.
StoreCounted(n) ==
    LET t == 1 + CHOOSE i \in frame[n].map : \A j \in frame[n].map : j <= i
    IN  /\ At(n, "store")
        /\ tidmap' = frame[n].map \cup {t}
        /\ tid' = [tid EXCEPT ![frame[n].nd] = t]
        /\ Goto(n, "link")
        /\ UNCHANGED <<queues, status, wake, ref, heap, cpu, lock, tick, frame>>

\* The write of the bitmap word, and the new thread's fields.
Store(n) ==
    LET m == frame[n].nd
        t == CHOOSE i \in Tids \ frame[n].map :
               \A j \in Tids \ frame[n].map : i <= j
    IN  /\ At(n, "store")
        /\ tidmap' = frame[n].map \cup {t}
        /\ tid' = [tid EXCEPT ![m] = t]
        /\ Goto(n, "link")
        /\ UNCHANGED <<queues, status, wake, ref, heap, cpu, lock, tick, frame>>

\* Mutant: thread_wait takes no reference.
WaitBodyNoRef(n) ==
    LET t == frame[n].arg
    IN  /\ Goto(n, "unlock")
        /\ Local(n, [frame[n] EXCEPT !.nd = FindByTid(t, Source("wait", t))])
        /\ UNCHANGED <<queues, struct, tidmap, heap, cpu, lock, tick>>

\* thread_wait: finds the thread and loads its ref.
WaitBody(n) ==
    LET t == frame[n].arg
        m == FindByTid(t, Source("wait", t))
    IN  /\ IF m = NULL
           THEN Goto(n, "unlock") /\ UNCHANGED frame
           ELSE /\ Goto(n, "inc")
                /\ Local(n, [frame[n] EXCEPT !.nd = m,
                                             !.reg = (ref[m] + 1) % RefMod])
        /\ UNCHANGED <<queues, struct, tidmap, heap, cpu, lock, tick>>

\* thread_wake, thread_suspend, thread_exit: find the thread and unlink it.
\* The walk and the store can be interrupted, but thread_lock keeps every
\* other thread from the queues it reads (LockAssumption, MutualExclusion).
MoveBody(n) ==
    LET op == frame[n].op
        s == Source(op, frame[n].arg)
        m == FindByTid(frame[n].arg, s)
    IN  /\ IF m = NULL
           THEN Goto(n, "unlock") /\ UNCHANGED <<queues, frame>>
           ELSE /\ Unlink(m, s)
                /\ Goto(n, IF Self(n) THEN "fix"
                           ELSE IF op = "exit" THEN "drop" ELSE "link")
                /\ Local(n, [frame[n] EXCEPT !.nd = m])
        /\ UNCHANGED <<struct, tidmap, heap, cpu, lock, tick>>

\* print_thread only reads.
PrintBody(n) ==
    /\ Goto(n, "unlock")
    /\ UNCHANGED <<queues, struct, tidmap, heap, cpu, lock, tick, frame>>

Body(n) ==
    /\ At(n, "body")
    /\ \/ frame[n].op = "create" /\ CreateBody(n)
       \/ frame[n].op = "wait" /\ WaitBody(n)
       \/ frame[n].op \in {"wake", "suspend", "exit"} /\ MoveBody(n)
       \/ frame[n].op = "print" /\ PrintBody(n)

\* Mutant: the successor is not fixed.
FixForgotten(n) ==
    /\ At(n, "fix")
    /\ Goto(n, IF frame[n].op = "exit" THEN "drop" ELSE "link")
    /\ UNCHANGED <<queues, struct, tidmap, heap, cpu, lock, tick, frame>>

\* A thread that leaves RUNNING by itself names its successor first.
Fix(n) ==
    /\ At(n, "fix")
    /\ fix' = LET x == next[frame[n].nd]
              IN  IF x # NULL THEN x ELSE head["RUNNING"]
    /\ Goto(n, IF frame[n].op = "exit" THEN "drop" ELSE "link")
    /\ UNCHANGED <<queues, struct, tidmap, heap, current, intr, lock, tick, frame>>

\* thread_exit gives back the reference of a sleeping thread: load, store.
Drop(n) ==
    LET m == frame[n].nd
    IN  /\ At(n, "drop")
        /\ IF status[m] = "SUSPEND" /\ wake[m] # 0 /\ ref[m] > 0
           THEN Goto(n, "drop2") /\ Local(n, [frame[n] EXCEPT !.reg = ref[m] - 1])
           ELSE Goto(n, "link") /\ UNCHANGED frame
        /\ UNCHANGED <<queues, struct, tidmap, heap, cpu, lock, tick>>

Drop2(n) ==
    /\ At(n, "drop2")
    /\ ref' = [ref EXCEPT ![frame[n].nd] = frame[n].reg]
    /\ Goto(n, "link")
    /\ UNCHANGED <<queues, status, tid, wake, tidmap, heap, cpu, lock, tick, frame>>

\* The status and the link of the moved thread, and then the queue's head.
Link(n) ==
    LET m == frame[n].nd
        s == Target(frame[n].op)
    IN  /\ At(n, "link")
        /\ status' = [status EXCEPT ![m] = s]
        /\ next' = [next EXCEPT ![m] = head[s]]
        /\ Goto(n, "push")
        /\ UNCHANGED <<head, tid, wake, ref, tidmap, heap, cpu, lock, tick, frame>>

Push(n) ==
    /\ At(n, "push")
    /\ head' = [head EXCEPT ![Target(frame[n].op)] = frame[n].nd]
    /\ Goto(n, "unlock")
    /\ UNCHANGED <<next, struct, tidmap, heap, cpu, lock, tick, frame>>

\* thread_wait's ++ref, the store.
Inc(n) ==
    /\ At(n, "inc")
    /\ ref' = [ref EXCEPT ![frame[n].nd] = frame[n].reg]
    /\ Goto(n, "unlock")
    /\ UNCHANGED <<queues, status, tid, wake, tidmap, heap, cpu, lock, tick, frame>>

(***************************************************************************)
(* pe_unlock, and where the caller goes on: a waiter polls, a thread that  *)
(* left RUNNING yields, sleeper_polling turns interrupts on and takes the  *)
(* next node of its walk, any other call returns.                          *)
(***************************************************************************)
Unlock(n) ==
    LET found == frame[n].nd # NULL
    IN  /\ At(n, "unlock")
        /\ lock' = 0
        /\ \/ /\ n = Sleeper
              /\ intr' = TRUE
              /\ Goto(n, "s_test")
              /\ Local(n, [NoCall EXCEPT !.nd = frame[n].nx])
           \/ /\ n # Sleeper /\ found /\ frame[n].op = "wait"
              /\ intr' = TRUE
              /\ Goto(n, "poll")
              /\ UNCHANGED frame
           \/ /\ n # Sleeper /\ found /\ Self(n)
              /\ Goto(n, "yield")
              /\ UNCHANGED <<frame, intr>>
           \/ /\ n # Sleeper
              /\ ~ (found /\ (frame[n].op = "wait" \/ Self(n)))
              /\ Return(n)
              /\ UNCHANGED intr
        /\ UNCHANGED <<queues, struct, tidmap, heap, current, fix, tick>>

\* Mutant: thread_wait polls for a status a thread has only before it runs.
PollReady(n) ==
    /\ At(n, "poll")
    /\ IF status[frame[n].nd] = "READY"
       THEN Goto(n, "dec") /\ UNCHANGED cpu
       ELSE Switch /\ UNCHANGED pc
    /\ UNCHANGED <<queues, struct, tidmap, heap, lock, tick, frame>>

\* thread_wait, after the lock: it yields until the thread has died.
Poll(n) ==
    /\ At(n, "poll")
    /\ IF status[frame[n].nd] = "DIED"
       THEN Goto(n, "dec") /\ UNCHANGED cpu
       ELSE Switch /\ UNCHANGED pc
    /\ UNCHANGED <<queues, struct, tidmap, heap, lock, tick, frame>>

\* Its --ref, load and store, is not under the lock.
Dec(n) ==
    /\ At(n, "dec")
    /\ Local(n, [frame[n] EXCEPT !.reg = (ref[frame[n].nd] + RefMod - 1) % RefMod])
    /\ Goto(n, "dec2")
    /\ UNCHANGED <<queues, struct, tidmap, heap, cpu, lock, tick>>

Dec2(n) ==
    /\ At(n, "dec2")
    /\ ref' = [ref EXCEPT ![frame[n].nd] = frame[n].reg]
    /\ Return(n)
    /\ UNCHANGED <<queues, status, tid, wake, tidmap, heap, cpu, lock, tick>>

\* thread_yield at the end of a self suspend or exit ...
Yield(n) ==
    /\ At(n, "yield")
    /\ Switch
    /\ Goto(n, "resume")
    /\ UNCHANGED <<queues, struct, tidmap, heap, lock, tick, frame>>

\* ... and what the thread does when it is scheduled again: it unlocks once
\* more.  thread_died panics.
Resume(n) ==
    /\ At(n, "resume")
    /\ lock' = 0
    /\ IF frame[n].op = "exit"
       THEN Goto(n, "panic") /\ intr' = FALSE /\ UNCHANGED frame
       ELSE Return(n) /\ UNCHANGED intr
    /\ UNCHANGED <<queues, struct, tidmap, heap, current, fix, tick>>

-----------------------------------------------------------------------------
(***************************************************************************)
(* thread_cleaner.  It takes no lock; reaping a thread runs with IF off.   *)
(***************************************************************************)
CleanerStart ==
    /\ At(Cleaner, "c_start")
    /\ Local(Cleaner, [NoCall EXCEPT !.nd = head["DIED"]])
    /\ Goto(Cleaner, "c_test")
    /\ UNCHANGED <<queues, struct, tidmap, heap, cpu, lock, tick>>

CleanerTest ==
    LET m == frame[Cleaner].nd
    IN  /\ At(Cleaner, "c_test")
        /\ \/ /\ m = NULL
              /\ Switch
              /\ Goto(Cleaner, "c_start") /\ Local(Cleaner, NoCall)
           \/ /\ m # NULL /\ ref[m] = 0
              /\ Goto(Cleaner, "c_reap")
              /\ UNCHANGED <<cpu, frame>>
           \/ /\ m # NULL /\ ref[m] # 0
              /\ Local(Cleaner, [NoCall EXCEPT !.pv = m, !.nd = next[m]])
              /\ UNCHANGED <<cpu, pc>>
        /\ UNCHANGED <<queues, struct, tidmap, heap, lock, tick>>

\* Mutant: the reaped thread stays in the queue of the dead.
CleanerReapLinked ==
    LET m == frame[Cleaner].nd
    IN  /\ At(Cleaner, "c_reap")
        /\ tidmap' = tidmap \ {tid[m]}
        /\ Local(Cleaner, [frame[Cleaner] EXCEPT !.nx = next[m]])
        /\ Goto(Cleaner, "c_free")
        /\ UNCHANGED <<queues, struct, heap, cpu, lock, tick>>

CleanerReap ==
    LET m == frame[Cleaner].nd
        p == frame[Cleaner].pv
    IN  /\ At(Cleaner, "c_reap")
        /\ IF p # NULL
           THEN next' = [next EXCEPT ![p] = next[m]] /\ UNCHANGED head
           ELSE head' = [head EXCEPT !["DIED"] = next[m]] /\ UNCHANGED next
        /\ tidmap' = tidmap \ {tid[m]}
        /\ Local(Cleaner, [frame[Cleaner] EXCEPT !.nx = next[m]])
        /\ Goto(Cleaner, "c_free")
        /\ UNCHANGED <<struct, heap, cpu, lock, tick>>

\* free asserts that the block is an allocated one.
CleanerFree ==
    LET m == frame[Cleaner].nd
    IN  /\ At(Cleaner, "c_free")
        /\ IF m \in heap
           THEN /\ heap' = heap \ {m}
                /\ Local(Cleaner, [frame[Cleaner] EXCEPT !.nd = frame[Cleaner].nx,
                                                         !.nx = NULL])
                /\ Goto(Cleaner, "c_test")
                /\ UNCHANGED intr
           ELSE /\ Goto(Cleaner, "panic")
                /\ intr' = FALSE
                /\ UNCHANGED <<heap, frame>>
        /\ UNCHANGED <<queues, struct, tidmap, current, fix, lock, tick>>

-----------------------------------------------------------------------------
(***************************************************************************)
(* sleeper_polling.  It walks SUSPEND without the lock.                    *)
(***************************************************************************)
\* Mutant: sleeper_polling walks the wrong queue.
SleeperStartReady ==
    /\ At(Sleeper, "s_start")
    /\ Local(Sleeper, [NoCall EXCEPT !.nd = head["READY"]])
    /\ Goto(Sleeper, "s_test")
    /\ UNCHANGED <<queues, struct, tidmap, heap, cpu, lock, tick>>

SleeperStart ==
    /\ At(Sleeper, "s_start")
    /\ Local(Sleeper, [NoCall EXCEPT !.nd = head["SUSPEND"]])
    /\ Goto(Sleeper, "s_test")
    /\ UNCHANGED <<queues, struct, tidmap, heap, cpu, lock, tick>>

SleeperTest ==
    LET m == frame[Sleeper].nd
    IN  /\ At(Sleeper, "s_test")
        /\ \/ /\ m = NULL
              /\ Switch
              /\ Goto(Sleeper, "s_start") /\ Local(Sleeper, NoCall)
           \/ /\ m # NULL
              /\ Local(Sleeper, [frame[Sleeper] EXCEPT !.nx = next[m]])
              /\ Goto(Sleeper, "s_due")
              /\ UNCHANGED cpu
        /\ UNCHANGED <<queues, struct, tidmap, heap, lock, tick>>

\* Mutant: the comparison with the clock is the wrong way round.
SleeperDueEarly ==
    LET f == frame[Sleeper]
    IN  /\ At(Sleeper, "s_due")
        /\ IF wake[f.nd] >= Millis
           THEN Goto(Sleeper, "s_wake") /\ UNCHANGED frame
           ELSE /\ Goto(Sleeper, "s_test")
                /\ Local(Sleeper, [NoCall EXCEPT !.nd = f.nx])
        /\ UNCHANGED <<queues, struct, tidmap, heap, cpu, lock, tick>>

SleeperDue ==
    LET f == frame[Sleeper]
    IN  /\ At(Sleeper, "s_due")
        /\ IF wake[f.nd] <= Millis
           THEN Goto(Sleeper, "s_wake") /\ UNCHANGED frame
           ELSE /\ Goto(Sleeper, "s_test")
                /\ Local(Sleeper, [NoCall EXCEPT !.nd = f.nx])
        /\ UNCHANGED <<queues, struct, tidmap, heap, cpu, lock, tick>>

\* Mutant: the reference sleep took is kept.
SleeperWakeKeepsRef ==
    LET f == frame[Sleeper]
    IN  /\ At(Sleeper, "s_wake")
        /\ intr' = FALSE
        /\ Goto(Sleeper, "lock")
        /\ Local(Sleeper, [NoCall EXCEPT !.op = "wake", !.arg = tid[f.nd], !.nx = f.nx])
        /\ UNCHANGED <<queues, struct, tidmap, heap, current, fix, lock, tick>>

\* cli, --ref, and the call of thread_wake unless the thread has died.
SleeperWake ==
    LET f == frame[Sleeper]
        m == f.nd
    IN  /\ At(Sleeper, "s_wake")
        /\ ref' = [ref EXCEPT ![m] = (@ + RefMod - 1) % RefMod]
        /\ IF status[m] # "DIED"
           THEN /\ intr' = FALSE
                /\ Goto(Sleeper, "lock")
                /\ Local(Sleeper, [NoCall EXCEPT !.op = "wake", !.arg = tid[m],
                                                 !.nx = f.nx])
           ELSE /\ Goto(Sleeper, "s_test")
                /\ Local(Sleeper, [NoCall EXCEPT !.nd = f.nx])
                /\ UNCHANGED intr
        /\ UNCHANGED <<queues, status, tid, wake, tidmap, heap, current, fix,
                       lock, tick>>

-----------------------------------------------------------------------------
Call(n) == CallCreate(n) \/ CallOp(n) \/ CallSleep(n)

Step(n) ==
    \/ Acquire(n) \/ Spin(n) \/ Body(n) \/ Store(n) \/ Fix(n) \/ Drop(n)
    \/ Drop2(n) \/ Link(n) \/ Push(n) \/ Inc(n) \/ Unlock(n) \/ Poll(n)
    \/ Dec(n) \/ Dec2(n) \/ Yield(n) \/ Resume(n)

CleanerStep == CleanerStart \/ CleanerTest \/ CleanerReap \/ CleanerFree
SleeperStep == SleeperStart \/ SleeperTest \/ SleeperDue \/ SleeperWake

\* The code of thread n itself, without the calls its client may choose.
Run(n) ==
    \/ Step(n)
    \/ n = Cleaner /\ CleanerStep
    \/ n = Sleeper /\ SleeperStep

Next == TimerIsr \/ \E n \in Node : Call(n) \/ Run(n)

Spec == Init /\ [][Next]_vars

(***************************************************************************)
(* Fairness.  A slice is two ticks of a 100 Hz clock and a step a few      *)
(* instructions: a thread that is scheduled again and again executes.  The *)
(* interrupt controller keeps the timer interrupt pending while IF is off. *)
(* No client has to make another call.  The second conjunct is             *)
(* SF_vars(Run(n)) with the states that enable the action written out:     *)
(* each step of Run(n) is total at its place in the code.                  *)
(***************************************************************************)
CanRun(n) == current = n /\ pc[n] \notin {"run", "panic"}
RunStep(n) == CanRun(n) /\ UNCHANGED tick

Fairness ==
    /\ SF_vars(TimerIsr)
    /\ \A n \in Node : []<>CanRun(n) => []<><<RunStep(n)>>_vars

FairSpec == Spec /\ Fairness

-----------------------------------------------------------------------------
(***************************************************************************)
(* Properties.                                                             *)
(***************************************************************************)

\* Every variable has the type of its C object; `current' may only be null in
\* a broken system (thread_schedule tests for it).
TypeOK ==
    /\ head \in [Status -> Ptr]
    /\ next \in [Node -> Ptr]
    /\ status \in [Node -> Status]
    /\ tid \in [Node -> Tids]
    /\ wake \in [Node -> Nat]
    /\ ref \in [Node -> 0 .. RefMod - 1]
    /\ tidmap \subseteq Tids
    /\ heap \subseteq Node
    /\ current \in Ptr /\ fix \in Ptr
    /\ lock \in {0, 1}
    /\ intr \in BOOLEAN
    /\ tick \in 0 .. Horizon
    /\ pc \in [Node -> PCs]
    /\ frame \in [Node -> Frame]

\* The code between pe_lock(&thread_lock) and its first pe_unlock.
Crit(n) == pc[n] \in {"body", "store", "inc", "fix", "drop", "drop2", "link",
                      "push", "unlock"}

\* thread_lock admits one thread at a time to the queues and the tid bitmap,
\* preemption and the yield inside pe_lock included.
MutualExclusion ==
    \A n \in Node : Crit(n) => lock = 1 /\ \A m \in Node : Crit(m) => m = n

\* The nodes a queue holds are allocated and have that queue's status: no
\* thread is on two queues, and a freed one is on none.
QueuesSound ==
    \A s \in Status : \A m \in Queue(s) :
        m \in heap \cup {Cleaner} /\ status[m] = s

\* Whenever thread_schedule is called, from the timer or from a yield, the
\* thread it picks is on RUNNING, and so is thread_cleaner.
SchedulerSound == {NextThread, Cleaner} \subseteq Queue("RUNNING")

\* Neither the assertion of bitmap_free on a block thread_cleaner frees nor
\* thread_died's PANIC ("thread scheduler out of control") is reached.
NoPanic == \A n \in Node : pc[n] # "panic"

\* Threads from the creation of their tid to its return.
Live ==
    (heap \cup {Cleaner})
    \ ({frame[n].nd : n \in {k \in Node : /\ frame[k].op = "create"
                                          /\ pc[k] \in {"lock", "body", "store"}}}
       \cup {frame[n].nd : n \in {k \in {Cleaner} : pc[k] = "c_free"}})

\* Two threads never have the same tid, and a tid in use is never free in
\* tid_bitmap, though thread_cleaner clears bits without thread_lock.
TidsUnique ==
    /\ \A m \in Live : tid[m] \in tidmap
    /\ \A m, k \in Live : tid[m] = tid[k] => m = k

\* A thread in thread_wait's loop looks at a thread that is still allocated
\* and pinned by its ref, although the waiter holds no lock.
WaitersPinned ==
    \A n \in Node : pc[n] \in {"poll", "dec", "dec2"} =>
        frame[n].nd \in heap /\ ref[frame[n].nd] > 0

\* A sleep takes exactly one reference and sleeper_polling gives it back: a
\* thread that is back from sleep holds none.
SleepBalanced ==
    \A n \in Node : ref[n] <= 1 /\ (pc[n] = "run" => ref[n] = 0)

\* sleep does not return before its time.
NoEarlyReturn ==
    \A n \in Node : At(n, "resume") => wake[n] <= Millis

\* A thread on RUNNING gets the processor, however often others are woken,
\* die or spin on the lock.
NoStarvation ==
    \A n \in Node : (n \in Queue("RUNNING")) ~> (current = n \/ n \notin Queue("RUNNING"))

\* thread_wait returns once the thread it waits for has died.
WaitReturns ==
    \A n \in Node : (pc[n] = "poll" /\ status[frame[n].nd] = "DIED") ~> (pc[n] = "run")

\* Every sleep ends.
SleepReturns ==
    \A n \in Node : (pc[n] = "lock" /\ frame[n].op = "suspend") ~> (pc[n] = "run")

=============================================================================
