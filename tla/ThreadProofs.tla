---------------------------- MODULE ThreadProofs ----------------------------
(***************************************************************************)
(* Theorems about Thread, for any number of threads, any tids, any clock   *)
(* and any set of calls of the clients that ThreadAssumption and           *)
(* LockAssumption admit.                                                   *)
(***************************************************************************)
EXTENDS Thread, TLAPS, WellFoundedInduction

(***************************************************************************)
(* Where the code dereferences a local pointer, the pointer is not null;   *)
(* and where thread_create has found a tid, one was free.  TypeOK is not   *)
(* inductive without it: ref, wake and tid are read through these locals.  *)
(***************************************************************************)
Deref == {"store", "inc", "fix", "drop", "drop2", "link", "push", "poll",
          "dec", "dec2", "c_reap", "c_free", "s_due", "s_wake"}

PointersOK ==
    \A n \in Node :
        /\ pc[n] \in Deref => frame[n].nd \in Node
        /\ pc[n] \in {"lock", "body"} /\ frame[n].op = "create" => frame[n].nd \in Node
        /\ pc[n] = "store" => frame[n].map # Tids

TypeInv == TypeOK /\ PointersOK

-----------------------------------------------------------------------------
\* thread_find_by_tid returns a node or NULL.
LEMMA FindType ==
    ASSUME NEW t, NEW s PROVE FindByTid(t, s) \in Ptr
<1> DEFINE hits == {m \in Queue(s) : tid[m] = t}
<1>1. hits \subseteq Node
    BY DEF Queue, Reach
<1>2. CASE hits = {}
    BY <1>2 DEF FindByTid, Ptr
<1>3. CASE hits # {}
    <2> DEFINE P(m) == (\E k \in hits : hits \subseteq Reach(k)) => hits \subseteq Reach(m)
    <2>1. \E m \in hits : P(m)
        BY <1>3
    <2>2. (CHOOSE m \in hits : P(m)) \in hits
        BY <2>1
    <2>3. FindByTid(t, s) = CHOOSE m \in hits : P(m)
        BY <1>3 DEF FindByTid
    <2> QED BY <1>1, <2>2, <2>3 DEF Ptr
<1> QED BY <1>2, <1>3

\* A set of tids that is not full has a lowest free tid.
LEMMA LowestFree ==
    ASSUME NEW S \in SUBSET Tids, S # Tids
    PROVE  (CHOOSE i \in Tids \ S : \A j \in Tids \ S : i <= j) \in Tids \ S
<1>0. TidMax \in Nat
    BY ThreadAssumption
<1>1. Tids \ S \subseteq Nat /\ Tids \ S # {}
    <2>1. Tids \subseteq Nat
        BY <1>0 DEF Tids
    <2> QED BY <2>1
<1>2. PICK i \in Tids \ S : \A j \in Tids \ S : ~ (<<j, i>> \in OpToRel(<, Nat))
    BY <1>1, WFMin, NatLessThanWellFounded
<1>3. ASSUME NEW j \in Tids \ S PROVE i <= j
    <2>1. i \in Nat /\ j \in Nat
        BY <1>1
    <2>2. j < i => <<j, i>> \in OpToRel(<, Nat)
        BY <2>1, Zenon DEF OpToRel
    <2>3. ~ (j < i)
        BY <1>2, <2>2, Zenon
    <2> QED BY <2>1, <2>3
<1> QED BY <1>2, <1>3

\* get_timer_millisecond returns a natural number.
LEMMA MillisType ==
    ASSUME tick \in Nat PROVE Millis \in Nat
BY ThreadAssumption DEF Millis

\* The frame of a thread that is in no call has the type of a frame.
LEMMA NoCallType == NoCall \in Frame
BY ThreadAssumption DEF NoCall, Frame, Ptr, Tids, Ops

-----------------------------------------------------------------------------
(***************************************************************************)
(* Type correctness.                                                       *)
(***************************************************************************)
LEMMA BootType ==
    /\ Booted \subseteq Node
    /\ Len(Boot) \in Nat /\ Len(Boot) > 0
    /\ \A i \in 1 .. Len(Boot) : Boot[i] \in Node
    /\ \A n \in Booted : Slot(n) \in 1 .. Len(Boot) /\ Boot[Slot(n)] = n
<1>1. Len(Boot) \in Nat /\ Len(Boot) > 0 /\ \A i \in 1 .. Len(Boot) : Boot[i] \in Node
    BY ThreadAssumption
<1>2. Booted \subseteq Node
    BY <1>1 DEF Booted
<1>3. ASSUME NEW n \in Booted PROVE Slot(n) \in 1 .. Len(Boot) /\ Boot[Slot(n)] = n
    BY DEF Booted, Slot
<1> QED BY <1>1, <1>2, <1>3

\* start_thread leaves the scheduler in a state of the right types.
LEMMA InitTypeInv == Init => TypeInv
<1> SUFFICES ASSUME Init PROVE TypeInv
    OBVIOUS
<1> USE DEF Init
<1>1. head \in [Status -> Ptr]
    BY BootType DEF Ptr
<1>2. next \in [Node -> Ptr]
    <2> SUFFICES ASSUME NEW n \in Node, n \in Booted, n # Sleeper
                 PROVE  Boot[Slot(n) - 1] \in Node
        BY ThreadAssumption DEF Ptr
    <2>1. Slot(n) # 1
        BY BootType, ThreadAssumption
    <2> QED BY <2>1, BootType
<1>3. tid \in [Node -> Tids] /\ tidmap \subseteq Tids
    <2>1. TidMax \in Nat /\ TidMax > Len(Boot)
        BY ThreadAssumption
    <2> QED BY <2>1, BootType DEF Tids
<1>4. frame \in [Node -> Frame]
    BY NoCallType
<1>5. TypeOK
    <2>1. 0 \in 0 .. RefMod - 1 /\ 0 \in 0 .. Horizon
        BY ThreadAssumption
    <2>2. Cleaner \in Node
        BY ThreadAssumption
    <2> QED BY <1>1, <1>2, <1>3, <1>4, <2>1, <2>2, BootType
            DEF TypeOK, Status, Ptr, PCs
<1>6. PointersOK
    BY DEF PointersOK, Deref, NoCall
<1> QED BY <1>5, <1>6 DEF TypeInv

-----------------------------------------------------------------------------
\* What the steps use of the constants.
LEMMA Constants ==
    /\ NULL \notin Node /\ Cleaner \in Node /\ Sleeper \in Node
    /\ RefMod \in Nat /\ RefMod > 1 /\ Horizon \in Nat /\ Horizon > 1
    /\ Targets \subseteq Tids /\ 0 \in Tids
    /\ SelfCalls \cup OtherCalls \subseteq Ops \ {"create"}
<1>1. Sleeper \in Node
    BY BootType, ThreadAssumption
<1>2. 0 \in Tids
    BY ThreadAssumption DEF Tids
<1>3. /\ RefMod \in Nat /\ RefMod > 1 /\ Horizon \in Nat /\ Horizon > 1
      /\ NULL \notin Node /\ Cleaner \in Node /\ Targets \subseteq Tids
    BY ThreadAssumption
<1>4. SelfCalls \cup OtherCalls \subseteq Ops \ {"create"}
    BY ThreadAssumption DEF Ops
<1> QED BY <1>1, <1>2, <1>3, <1>4

\* The locals l, f that thread n may have after a step.
GoodLocals(l, f) ==
    /\ l \in PCs /\ f \in Frame
    /\ l \in Deref => f.nd \in Node
    /\ l \in {"lock", "body"} /\ f.op = "create" => f.nd \in Node
    /\ l = "store" => f.map # Tids

ControlOK == pc \in [Node -> PCs] /\ frame \in [Node -> Frame] /\ PointersOK

\* A thread may move to any place with locals that are good there.
LEMMA ControlStep ==
    ASSUME ControlOK, NEW n \in Node, NEW l, NEW f, GoodLocals(l, f),
           Goto(n, l), Local(n, f)
    PROVE  ControlOK'
<1>1. pc' \in [Node -> PCs] /\ frame' \in [Node -> Frame]
    BY DEF ControlOK, GoodLocals, Goto, Local
<1>2. ASSUME NEW m \in Node
      PROVE  pc'[m] = (IF m = n THEN l ELSE pc[m]) /\ frame'[m] = (IF m = n THEN f ELSE frame[m])
    BY DEF ControlOK, Goto, Local
<1>3. PointersOK'
    BY <1>2 DEF ControlOK, PointersOK, GoodLocals
<1> QED BY <1>1, <1>3 DEF ControlOK

\* It may keep its locals, where they are still good.
LEMMA ControlStepSameFrame ==
    ASSUME ControlOK, NEW n \in Node, NEW l, GoodLocals(l, frame[n]),
           Goto(n, l), UNCHANGED frame
    PROVE  ControlOK'
<1>1. Local(n, frame[n])
    BY DEF ControlOK, Local
<1> QED BY <1>1, ControlStep

\* It may change its locals where it is.
LEMMA ControlStepSamePc ==
    ASSUME ControlOK, NEW n \in Node, NEW f, GoodLocals(pc[n], f),
           Local(n, f), UNCHANGED pc
    PROVE  ControlOK'
<1>1. Goto(n, pc[n])
    BY DEF ControlOK, Goto
<1> QED BY <1>1, ControlStep

\* A step that moves no thread keeps the places and the locals good.
LEMMA ControlStutter ==
    ASSUME ControlOK, UNCHANGED <<pc, frame>> PROVE ControlOK'
BY DEF ControlOK, PointersOK

\* The rest of the state.
DataOK ==
    /\ head \in [Status -> Ptr]
    /\ next \in [Node -> Ptr]
    /\ status \in [Node -> Status]
    /\ tid \in [Node -> Tids]
    /\ wake \in [Node -> Nat]
    /\ ref \in [Node -> 0 .. RefMod - 1]
    /\ tidmap \subseteq Tids
    /\ heap \subseteq Node
    /\ current \in Ptr /\ fix \in Ptr
    /\ lock \in {0, 1}
    /\ intr \in BOOLEAN
    /\ tick \in 0 .. Horizon

\* scheduler leaves a node running and the interrupt flag typed.
LEMMA SwitchType ==
    ASSUME DataOK, current # NULL, Switch
    PROVE  current' \in Ptr /\ fix' \in Ptr /\ intr' \in BOOLEAN
BY DEF DataOK, Switch, NextThread, Ptr, Status

\* Every step keeps the types.
LEMMA TypeStep == TypeInv /\ [Next]_vars => TypeInv'
<1> SUFFICES ASSUME DataOK, ControlOK, [Next]_vars PROVE DataOK' /\ ControlOK'
    BY DEF TypeInv, TypeOK, DataOK, ControlOK
<1> USE Constants, NoCallType
<1>0. CASE UNCHANGED vars
    <2>1. ControlOK'
        BY <1>0, ControlStutter DEF vars
    <2> QED BY <1>0, <2>1 DEF vars, DataOK
<1>1. CASE TimerIsr
    <2>1. ControlOK'
        BY <1>1, ControlStutter DEF TimerIsr
    <2>2. tick' \in 0 .. Horizon
        BY <1>1 DEF TimerIsr, Tick, DataOK
    <2>3. current' \in Ptr /\ fix' \in Ptr /\ intr' \in BOOLEAN
        BY <1>1, SwitchType DEF TimerIsr, cpu, DataOK
    <2> QED BY <1>1, <2>1, <2>2, <2>3 DEF TimerIsr, DataOK, queues, struct
<1>2. ASSUME NEW n \in Node, CallCreate(n) PROVE DataOK' /\ ControlOK'
    <2>1. PICK m \in Node : /\ heap' = heap \cup {m}
                            /\ Local(n, [NoCall EXCEPT !.op = "create", !.nd = m])
        BY <1>2 DEF CallCreate
    <2>2. GoodLocals("lock", [NoCall EXCEPT !.op = "create", !.nd = m])
        BY DEF GoodLocals, PCs, Deref, NoCall, Frame, Ops, Ptr
    <2>3. ControlOK'
        BY <1>2, <2>1, <2>2, ControlStep DEF CallCreate
    <2> QED BY <1>2, <2>1, <2>3 DEF CallCreate, DataOK, queues, struct, cpu
<1>3. ASSUME NEW n \in Node, CallOp(n) PROVE DataOK' /\ ControlOK'
    <2>1. PICK op \in SelfCalls \cup OtherCalls, t \in Targets :
             Local(n, [NoCall EXCEPT !.op = op, !.arg = t])
        BY <1>3 DEF CallOp
    <2>2. GoodLocals("lock", [NoCall EXCEPT !.op = op, !.arg = t])
        BY DEF GoodLocals, PCs, Deref, NoCall, Frame
    <2>3. ControlOK'
        BY <1>3, <2>1, <2>2, ControlStep DEF CallOp
    <2> QED BY <1>3, <2>3 DEF CallOp, DataOK, queues, struct, cpu
<1>4. ASSUME NEW n \in Node, CallSleep(n) PROVE DataOK' /\ ControlOK'
    <2>1. GoodLocals("lock", [NoCall EXCEPT !.op = "suspend", !.arg = tid[n]])
        BY DEF GoodLocals, PCs, Deref, NoCall, Frame, Ops, DataOK
    <2>2. ControlOK'
        BY <1>4, <2>1, ControlStep DEF CallSleep
    <2>3. wake' \in [Node -> Nat]
        <3>1. Millis \in Nat
            BY MillisType DEF DataOK
        <3>2. SleepMs \subseteq Nat
            BY ThreadAssumption
        <3>3. PICK ms \in SleepMs : wake' = [wake EXCEPT ![n] = Millis + ms]
            BY <1>4 DEF CallSleep
        <3>4. Millis + ms \in Nat
            BY <3>1, <3>2
        <3> QED BY <3>3, <3>4 DEF DataOK
    <2>4. ref' \in [Node -> 0 .. RefMod - 1]
        BY <1>4 DEF CallSleep, DataOK
    <2> QED BY <1>4, <2>2, <2>3, <2>4 DEF CallSleep, DataOK, queues
<1>5. ASSUME NEW n \in Node, Acquire(n) PROVE DataOK' /\ ControlOK'
    <2>1. GoodLocals("body", frame[n])
        BY <1>5 DEF Acquire, At, GoodLocals, PCs, Deref, ControlOK, PointersOK
    <2>2. ControlOK'
        BY <1>5, <2>1, ControlStepSameFrame DEF Acquire
    <2> QED BY <1>5, <2>2 DEF Acquire, DataOK, queues, struct, cpu
<1>6. ASSUME NEW n \in Node, Spin(n) PROVE DataOK' /\ ControlOK'
    <2>1. ControlOK'
        BY <1>6, ControlStutter DEF Spin
    <2>2. current' \in Ptr /\ fix' \in Ptr /\ intr' \in BOOLEAN
        BY <1>6, SwitchType DEF Spin, At
    <2> QED BY <1>6, <2>1, <2>2 DEF Spin, DataOK, queues, struct
<1>7. ASSUME NEW n \in Node, Body(n) PROVE DataOK' /\ ControlOK'
    <2>1. CASE frame[n].op = "create" /\ CreateBody(n)
        <3> DEFINE m == frame[n].nd
        <3>1. m \in Node
            BY <1>7, <2>1 DEF Body, At, ControlOK, PointersOK
        <3>2. frame[n] \in Frame /\ tidmap \subseteq Tids
            BY DEF ControlOK, DataOK
        <3> DEFINE l == IF tidmap = Tids THEN "unlock" ELSE "store"
                   f == [frame[n] EXCEPT !.map = tidmap]
        <3>3. f \in Frame /\ f.nd = m /\ f.map = tidmap
            BY <3>2 DEF Frame
        <3>4. pc' \in [Node -> PCs] /\ frame' \in [Node -> Frame]
            BY <2>1, <3>1, <3>3 DEF CreateBody, PCs, ControlOK
        <3>5. ASSUME NEW k \in Node
              PROVE  /\ pc'[k] = IF k = n THEN l ELSE IF k = m THEN "run" ELSE pc[k]
                     /\ frame'[k] = IF k = n THEN f ELSE IF k = m THEN NoCall ELSE frame[k]
            BY <2>1, <3>1 DEF CreateBody, ControlOK
        <3>6. PointersOK'
            BY <3>1, <3>3, <3>5 DEF PointersOK, ControlOK, Deref
        <3>7. ControlOK'
            BY <3>4, <3>6 DEF ControlOK
        <3> QED BY <2>1, <3>1, <3>7 DEF CreateBody, DataOK, Ptr, Status, cpu
    <2>2. CASE frame[n].op = "wait" /\ WaitBody(n)
        <3> DEFINE t == frame[n].arg
                   m == FindByTid(t, Source("wait", t))
                   f == [frame[n] EXCEPT !.nd = m, !.reg = (ref[m] + 1) % RefMod]
        <3>1. m \in Ptr
            BY FindType
        <3>2. frame[n] \in Frame
            BY DEF ControlOK
        <3>3. CASE m = NULL
            <4>1. GoodLocals("unlock", frame[n])
                BY <3>2 DEF GoodLocals, PCs, Deref
            <4> QED BY <2>2, <3>3, <4>1, ControlStepSameFrame
                    DEF WaitBody, DataOK, queues, struct, cpu
        <3>4. CASE m # NULL
            <4>1. m \in Node
                BY <3>1, <3>4 DEF Ptr
            <4>2. (ref[m] + 1) % RefMod \in 0 .. RefMod - 1
                BY <4>1 DEF DataOK
            <4>3. f \in Frame /\ f.nd = m
                BY <3>1, <3>2, <4>2 DEF Frame
            <4>4. GoodLocals("inc", f)
                BY <4>1, <4>3 DEF GoodLocals, PCs
            <4>5. Goto(n, "inc") /\ Local(n, f)
                BY <2>2, <3>4 DEF WaitBody
            <4>6. ControlOK'
                BY <4>4, <4>5, ControlStep
            <4> QED BY <2>2, <4>6 DEF WaitBody, DataOK, queues, struct, cpu
        <3> QED BY <3>3, <3>4
    <2>3. CASE frame[n].op \in {"wake", "suspend", "exit"} /\ MoveBody(n)
        <3> DEFINE op == frame[n].op
                   s == Source(op, frame[n].arg)
                   m == FindByTid(frame[n].arg, s)
                   f == [frame[n] EXCEPT !.nd = m]
                   l == IF Self(n) THEN "fix" ELSE IF op = "exit" THEN "drop" ELSE "link"
        <3>1. m \in Ptr
            BY FindType
        <3>2. frame[n] \in Frame
            BY DEF ControlOK
        <3>3. CASE m = NULL
            <4>1. GoodLocals("unlock", frame[n])
                BY <3>2 DEF GoodLocals, PCs, Deref
            <4> QED BY <2>3, <3>3, <4>1, ControlStepSameFrame
                    DEF MoveBody, DataOK, queues, struct, cpu
        <3>4. CASE m # NULL
            <4>1. m \in Node
                BY <3>1, <3>4 DEF Ptr
            <4>2. GoodLocals(l, f)
                BY <3>2, <4>1 DEF GoodLocals, PCs, Frame, Ptr
            <4>3. Goto(n, l) /\ Local(n, f) /\ Unlink(m, s)
                BY <2>3, <3>4 DEF MoveBody
            <4>4. ControlOK'
                BY <4>2, <4>3, ControlStep
            <4>5. s \in Status
                BY DEF Source, First, Second, Status
            <4>6. head' \in [Status -> Ptr] /\ next' \in [Node -> Ptr]
                BY <4>1, <4>3, <4>5 DEF Unlink, DataOK
            <4> QED BY <2>3, <4>4, <4>6 DEF MoveBody, DataOK, struct, cpu
        <3> QED BY <3>3, <3>4
    <2>4. CASE frame[n].op = "print" /\ PrintBody(n)
        <3>1. GoodLocals("unlock", frame[n])
            BY DEF GoodLocals, PCs, Deref, ControlOK
        <3> QED BY <2>4, <3>1, ControlStepSameFrame
                DEF PrintBody, DataOK, queues, struct, cpu
    <2> QED BY <1>7, <2>1, <2>2, <2>3, <2>4 DEF Body
<1>8. ASSUME NEW n \in Node, Store(n) PROVE DataOK' /\ ControlOK'
    <2> DEFINE S == frame[n].map
               t == CHOOSE i \in Tids \ S : \A j \in Tids \ S : i <= j
    <2>1. S \subseteq Tids /\ S # Tids /\ frame[n].nd \in Node
        BY <1>8 DEF Store, At, ControlOK, PointersOK, Deref, Frame
    <2>2. t \in Tids
        BY <2>1, LowestFree
    <2>3. GoodLocals("link", frame[n])
        BY <2>1 DEF GoodLocals, PCs, ControlOK
    <2>4. ControlOK'
        BY <1>8, <2>3, ControlStepSameFrame DEF Store
    <2>5. tidmap' = S \cup {t} /\ tid' = [tid EXCEPT ![frame[n].nd] = t]
        BY <1>8 DEF Store
    <2>6. tidmap' \subseteq Tids /\ tid' \in [Node -> Tids]
        BY <2>1, <2>2, <2>5 DEF DataOK
    <2> QED BY <1>8, <2>4, <2>6 DEF Store, DataOK, queues, cpu
<1>9. ASSUME NEW n \in Node, Fix(n) PROVE DataOK' /\ ControlOK'
    <2>1. frame[n].nd \in Node
        BY <1>9 DEF Fix, At, ControlOK, PointersOK, Deref
    <2>2. GoodLocals(IF frame[n].op = "exit" THEN "drop" ELSE "link", frame[n])
        BY <2>1 DEF GoodLocals, PCs, ControlOK
    <2>3. ControlOK'
        BY <1>9, <2>2, ControlStepSameFrame DEF Fix
    <2>4. fix' \in Ptr
        BY <1>9, <2>1 DEF Fix, DataOK, Status
    <2> QED BY <1>9, <2>3, <2>4 DEF Fix, DataOK, queues, struct
<1>10. ASSUME NEW n \in Node, Drop(n) PROVE DataOK' /\ ControlOK'
    <2> DEFINE m == frame[n].nd
               f == [frame[n] EXCEPT !.reg = ref[m] - 1]
    <2>1. m \in Node /\ frame[n] \in Frame
        BY <1>10 DEF Drop, At, ControlOK, PointersOK, Deref
    <2>2. CASE status[m] = "SUSPEND" /\ wake[m] # 0 /\ ref[m] > 0
        <3>1. ref[m] - 1 \in 0 .. RefMod - 1
            BY <2>1, <2>2 DEF DataOK
        <3>2. GoodLocals("drop2", f)
            BY <2>1, <3>1 DEF GoodLocals, PCs, Frame
        <3>3. ControlOK'
            BY <1>10, <2>2, <3>2, ControlStep DEF Drop
        <3> QED BY <1>10, <3>3 DEF Drop, DataOK, queues, struct, cpu
    <2>3. CASE ~ (status[m] = "SUSPEND" /\ wake[m] # 0 /\ ref[m] > 0)
        <3>1. GoodLocals("link", frame[n])
            BY <2>1 DEF GoodLocals, PCs
        <3>2. ControlOK'
            BY <1>10, <2>3, <3>1, ControlStepSameFrame DEF Drop
        <3> QED BY <1>10, <3>2 DEF Drop, DataOK, queues, struct, cpu
    <2> QED BY <2>2, <2>3
<1>11. ASSUME NEW n \in Node, Drop2(n) PROVE DataOK' /\ ControlOK'
    <2>1. frame[n].nd \in Node /\ frame[n].reg \in 0 .. RefMod - 1
        BY <1>11 DEF Drop2, At, ControlOK, PointersOK, Deref, Frame
    <2>2. GoodLocals("link", frame[n])
        BY <2>1 DEF GoodLocals, PCs, Deref, ControlOK
    <2>3. ControlOK'
        BY <1>11, <2>2, ControlStepSameFrame DEF Drop2
    <2> QED BY <1>11, <2>1, <2>3 DEF Drop2, DataOK, queues, cpu
<1>12. ASSUME NEW n \in Node, Link(n) PROVE DataOK' /\ ControlOK'
    <2>1. frame[n].nd \in Node /\ Target(frame[n].op) \in Status
        BY <1>12 DEF Link, At, ControlOK, PointersOK, Deref, Target, Status
    <2>2. GoodLocals("push", frame[n])
        BY <2>1 DEF GoodLocals, PCs, ControlOK
    <2>3. ControlOK'
        BY <1>12, <2>2, ControlStepSameFrame DEF Link
    <2> QED BY <1>12, <2>1, <2>3 DEF Link, DataOK, cpu
<1>13. ASSUME NEW n \in Node, Push(n) PROVE DataOK' /\ ControlOK'
    <2>1. frame[n].nd \in Node /\ Target(frame[n].op) \in Status
        BY <1>13 DEF Push, At, ControlOK, PointersOK, Deref, Target, Status
    <2>2. GoodLocals("unlock", frame[n])
        BY DEF GoodLocals, PCs, Deref, ControlOK
    <2>3. ControlOK'
        BY <1>13, <2>2, ControlStepSameFrame DEF Push
    <2> QED BY <1>13, <2>1, <2>3 DEF Push, DataOK, Ptr, struct, cpu
<1>14. ASSUME NEW n \in Node, Inc(n) PROVE DataOK' /\ ControlOK'
    <2>1. frame[n].nd \in Node /\ frame[n].reg \in 0 .. RefMod - 1
        BY <1>14 DEF Inc, At, ControlOK, PointersOK, Deref, Frame
    <2>2. GoodLocals("unlock", frame[n])
        BY <2>1 DEF GoodLocals, PCs, Deref, ControlOK
    <2>3. ControlOK'
        BY <1>14, <2>2, ControlStepSameFrame DEF Inc
    <2> QED BY <1>14, <2>1, <2>3 DEF Inc, DataOK, queues, cpu
<1>15. ASSUME NEW n \in Node, Unlock(n) PROVE DataOK' /\ ControlOK'
    <2>1. frame[n] \in Frame
        BY DEF ControlOK
    <2>2. GoodLocals("s_test", [NoCall EXCEPT !.nd = frame[n].nx]) /\ GoodLocals("run", NoCall)
        BY <2>1 DEF GoodLocals, PCs, Deref, NoCall, Frame
    <2>3. frame[n].nd # NULL => GoodLocals("poll", frame[n])
        BY <2>1 DEF GoodLocals, PCs, Frame, Ptr
    <2>4. GoodLocals("yield", frame[n])
        BY <2>1 DEF GoodLocals, PCs, Deref
    <2>5. ControlOK'
        BY <1>15, <2>2, <2>3, <2>4, ControlStep, ControlStepSameFrame DEF Unlock, Return
    <2>6. lock' \in {0, 1} /\ intr' \in BOOLEAN
        BY <1>15 DEF Unlock, DataOK
    <2> QED BY <1>15, <2>5, <2>6 DEF Unlock, DataOK, queues, struct
<1>16. ASSUME NEW n \in Node, Poll(n) PROVE DataOK' /\ ControlOK'
    <2>1. GoodLocals("dec", frame[n])
        BY <1>16 DEF Poll, At, GoodLocals, PCs, Deref, ControlOK, PointersOK
    <2>2. ControlOK'
        BY <1>16, <2>1, ControlStepSameFrame, ControlStutter DEF Poll
    <2>3. current' \in Ptr /\ fix' \in Ptr /\ intr' \in BOOLEAN
        BY <1>16, SwitchType DEF Poll, At, cpu, DataOK
    <2> QED BY <1>16, <2>2, <2>3 DEF Poll, DataOK, queues, struct
<1>17. ASSUME NEW n \in Node, Dec(n) PROVE DataOK' /\ ControlOK'
    <2> DEFINE r == (ref[frame[n].nd] + RefMod - 1) % RefMod
    <2>1. frame[n].nd \in Node /\ frame[n] \in Frame
        BY <1>17 DEF Dec, At, ControlOK, PointersOK, Deref
    <2>2. r \in 0 .. RefMod - 1
        BY <2>1 DEF DataOK
    <2>3. GoodLocals("dec2", [frame[n] EXCEPT !.reg = r])
        BY <2>1, <2>2 DEF GoodLocals, PCs, Frame
    <2>4. ControlOK'
        BY <1>17, <2>3, ControlStep DEF Dec
    <2> QED BY <1>17, <2>4 DEF Dec, DataOK, queues, struct, cpu
<1>18. ASSUME NEW n \in Node, Dec2(n) PROVE DataOK' /\ ControlOK'
    <2>1. frame[n].nd \in Node /\ frame[n].reg \in 0 .. RefMod - 1
        BY <1>18 DEF Dec2, At, ControlOK, PointersOK, Deref, Frame
    <2>2. GoodLocals("run", NoCall)
        BY DEF GoodLocals, PCs, Deref
    <2>3. ControlOK'
        BY <1>18, <2>2, ControlStep DEF Dec2, Return
    <2> QED BY <1>18, <2>1, <2>3 DEF Dec2, DataOK, queues, cpu
<1>19. ASSUME NEW n \in Node, Yield(n) PROVE DataOK' /\ ControlOK'
    <2>1. GoodLocals("resume", frame[n])
        BY DEF GoodLocals, PCs, Deref, ControlOK
    <2>2. ControlOK'
        BY <1>19, <2>1, ControlStepSameFrame DEF Yield
    <2>3. current' \in Ptr /\ fix' \in Ptr /\ intr' \in BOOLEAN
        BY <1>19, SwitchType DEF Yield, At
    <2> QED BY <1>19, <2>2, <2>3 DEF Yield, DataOK, queues, struct
<1>20. ASSUME NEW n \in Node, Resume(n) PROVE DataOK' /\ ControlOK'
    <2>1. GoodLocals("panic", frame[n]) /\ GoodLocals("run", NoCall)
        BY DEF GoodLocals, PCs, Deref, ControlOK
    <2>2. ControlOK'
        BY <1>20, <2>1, ControlStep, ControlStepSameFrame DEF Resume, Return
    <2>3. lock' \in {0, 1} /\ intr' \in BOOLEAN
        BY <1>20 DEF Resume, DataOK
    <2> QED BY <1>20, <2>2, <2>3 DEF Resume, DataOK, queues, struct
<1>21. ASSUME CleanerStart PROVE DataOK' /\ ControlOK'
    <2>1. GoodLocals("c_test", [NoCall EXCEPT !.nd = head["DIED"]])
        BY DEF GoodLocals, PCs, Deref, NoCall, Frame, DataOK, Status
    <2>2. ControlOK'
        BY <1>21, <2>1, ControlStep DEF CleanerStart
    <2> QED BY <1>21, <2>2 DEF CleanerStart, DataOK, queues, struct, cpu
<1>22. ASSUME CleanerTest PROVE DataOK' /\ ControlOK'
    <2> DEFINE m == frame[Cleaner].nd
    <2>1. frame[Cleaner] \in Frame /\ m \in Ptr /\ pc[Cleaner] = "c_test"
        BY <1>22 DEF CleanerTest, At, ControlOK, Frame
    <2>2. GoodLocals("c_start", NoCall)
        BY DEF GoodLocals, PCs, Deref
    <2>3. m # NULL => GoodLocals("c_reap", frame[Cleaner])
        BY <2>1 DEF GoodLocals, PCs, Ptr
    <2>4. m # NULL => GoodLocals("c_test", [NoCall EXCEPT !.pv = m, !.nd = next[m]])
        BY <2>1 DEF GoodLocals, PCs, Deref, NoCall, Frame, DataOK, Ptr
    <2>5. ControlOK'
        BY <1>22, <2>1, <2>2, <2>3, <2>4, ControlStep, ControlStepSameFrame, ControlStepSamePc
        DEF CleanerTest
    <2>6. current' \in Ptr /\ fix' \in Ptr /\ intr' \in BOOLEAN
        BY <1>22, SwitchType DEF CleanerTest, At, cpu, DataOK
    <2> QED BY <1>22, <2>5, <2>6 DEF CleanerTest, DataOK, queues, struct
<1>23. ASSUME CleanerReap PROVE DataOK' /\ ControlOK'
    <2> DEFINE m == frame[Cleaner].nd
               f == [frame[Cleaner] EXCEPT !.nx = next[m]]
    <2>1. frame[Cleaner] \in Frame /\ m \in Node
        BY <1>23 DEF CleanerReap, At, ControlOK, PointersOK, Deref
    <2>2. GoodLocals("c_free", f)
        BY <2>1 DEF GoodLocals, PCs, Frame, DataOK
    <2>3. ControlOK'
        BY <1>23, <2>2, ControlStep DEF CleanerReap
    <2>4. head' \in [Status -> Ptr] /\ next' \in [Node -> Ptr] /\ tidmap' \subseteq Tids
        BY <1>23, <2>1 DEF CleanerReap, DataOK
    <2> QED BY <1>23, <2>3, <2>4 DEF CleanerReap, DataOK, struct, cpu
<1>24. ASSUME CleanerFree PROVE DataOK' /\ ControlOK'
    <2> DEFINE f == [frame[Cleaner] EXCEPT !.nd = frame[Cleaner].nx, !.nx = NULL]
    <2>1. frame[Cleaner] \in Frame
        BY DEF ControlOK
    <2>2. GoodLocals("c_test", f) /\ GoodLocals("panic", frame[Cleaner])
        BY <2>1 DEF GoodLocals, PCs, Deref, Frame, Ptr
    <2>3. ControlOK'
        BY <1>24, <2>2, ControlStep, ControlStepSameFrame DEF CleanerFree
    <2>4. heap' \subseteq Node /\ intr' \in BOOLEAN
        BY <1>24 DEF CleanerFree, DataOK
    <2> QED BY <1>24, <2>3, <2>4 DEF CleanerFree, DataOK, queues, struct
<1>25. ASSUME SleeperStart PROVE DataOK' /\ ControlOK'
    <2>1. GoodLocals("s_test", [NoCall EXCEPT !.nd = head["SUSPEND"]])
        BY DEF GoodLocals, PCs, Deref, NoCall, Frame, DataOK, Status
    <2>2. ControlOK'
        BY <1>25, <2>1, ControlStep DEF SleeperStart
    <2> QED BY <1>25, <2>2 DEF SleeperStart, DataOK, queues, struct, cpu
<1>26. ASSUME SleeperTest PROVE DataOK' /\ ControlOK'
    <2> DEFINE m == frame[Sleeper].nd
    <2>1. frame[Sleeper] \in Frame /\ m \in Ptr
        BY DEF ControlOK, Frame
    <2>2. GoodLocals("s_start", NoCall)
        BY DEF GoodLocals, PCs, Deref
    <2>3. m # NULL => GoodLocals("s_due", [frame[Sleeper] EXCEPT !.nx = next[m]])
        BY <2>1 DEF GoodLocals, PCs, Deref, Frame, DataOK, Ptr
    <2>4. ControlOK'
        BY <1>26, <2>2, <2>3, ControlStep DEF SleeperTest
    <2>5. current' \in Ptr /\ fix' \in Ptr /\ intr' \in BOOLEAN
        BY <1>26, SwitchType DEF SleeperTest, At, cpu, DataOK
    <2> QED BY <1>26, <2>4, <2>5 DEF SleeperTest, DataOK, queues, struct
<1>27. ASSUME SleeperDue PROVE DataOK' /\ ControlOK'
    <2>1. frame[Sleeper] \in Frame /\ frame[Sleeper].nd \in Node
        BY <1>27 DEF SleeperDue, At, ControlOK, PointersOK, Deref
    <2>2. /\ GoodLocals("s_wake", frame[Sleeper])
          /\ GoodLocals("s_test", [NoCall EXCEPT !.nd = frame[Sleeper].nx])
        BY <2>1 DEF GoodLocals, PCs, Deref, NoCall, Frame
    <2>3. ControlOK'
        BY <1>27, <2>2, ControlStep, ControlStepSameFrame DEF SleeperDue
    <2> QED BY <1>27, <2>3 DEF SleeperDue, DataOK, queues, struct, cpu
<1>28. ASSUME SleeperWake PROVE DataOK' /\ ControlOK'
    <2> DEFINE f == frame[Sleeper]
               m == f.nd
    <2>1. f \in Frame /\ m \in Node
        BY <1>28 DEF SleeperWake, At, ControlOK, PointersOK, Deref
    <2>2. /\ GoodLocals("lock", [NoCall EXCEPT !.op = "wake", !.arg = tid[m], !.nx = f.nx])
          /\ GoodLocals("s_test", [NoCall EXCEPT !.nd = f.nx])
        BY <2>1 DEF GoodLocals, PCs, Deref, NoCall, Frame, Ops, DataOK
    <2>3. ControlOK'
        BY <1>28, <2>2, ControlStep DEF SleeperWake
    <2>4. ref' \in [Node -> 0 .. RefMod - 1]
        BY <1>28, <2>1 DEF SleeperWake, DataOK
    <2>5. intr' \in BOOLEAN
        BY <1>28 DEF SleeperWake, DataOK
    <2> QED BY <1>28, <2>3, <2>4, <2>5 DEF SleeperWake, DataOK, queues
<1> QED
    BY <1>0, <1>1, <1>2, <1>3, <1>4, <1>5, <1>6, <1>7, <1>8, <1>9, <1>10, <1>11, <1>12,
       <1>13, <1>14, <1>15, <1>16, <1>17, <1>18, <1>19, <1>20, <1>21, <1>22, <1>23,
       <1>24, <1>25, <1>26, <1>27, <1>28
    DEF Next, Call, Run, Step, CleanerStep, SleeperStep

(***************************************************************************)
(* The C objects keep their types: no local the code dereferences is null, *)
(* and current_thread, fix_next_thread and the links point to threads, for *)
(* the clients that do not open thread_lock under another (LockAssumption).*)
(***************************************************************************)
THEOREM TypeCorrect == Spec => []TypeOK
<1>1. Spec => []TypeInv
    BY InitTypeInv, TypeStep, PTL DEF Spec
<1>2. TypeInv => TypeOK
    BY DEF TypeInv
<1> QED BY <1>1, <1>2, PTL

-----------------------------------------------------------------------------
(***************************************************************************)
(* Mutual exclusion.  MutualExclusion is inductive under every step but    *)
(* one: Resume, the pe_unlock that ends thread_suspend and thread_exit     *)
(* after the thread has already unlocked and yielded.                      *)
(***************************************************************************)

\* A step that leaves the lock alone and lets nobody in keeps it.
LEMMA NobodyEnters ==
    ASSUME MutualExclusion, UNCHANGED lock,
           \A k \in Node : Crit(k)' => Crit(k)
    PROVE  MutualExclusion'
BY DEF MutualExclusion

\* So does a step of n that moves inside or outside its critical section.
LEMMA SameSide ==
    ASSUME MutualExclusion, pc \in [Node -> PCs], UNCHANGED lock,
           NEW n \in Node, NEW l, pc' = [pc EXCEPT ![n] = l],
           l \in {"body", "store", "inc", "fix", "drop", "drop2", "link", "push", "unlock"}
              => Crit(n)
    PROVE  MutualExclusion'
<1>1. \A k \in Node : Crit(k)' => Crit(k)
    BY DEF Crit
<1> QED BY <1>1, NobodyEnters

\* Every step but the second pe_unlock of thread_sleep keeps the lock exclusive.
LEMMA MutexStep ==
    ASSUME TypeInv, MutualExclusion, [Next]_vars, [\A n \in Node : ~ Resume(n)]_vars
    PROVE  MutualExclusion'
<1> USE Constants
<1>t. pc \in [Node -> PCs]
    BY DEF TypeInv, TypeOK
<1>0. CASE UNCHANGED pc /\ UNCHANGED lock
    BY <1>0, NobodyEnters DEF Crit
<1>1. ASSUME NEW n \in Node, Call(n) PROVE MutualExclusion'
    BY <1>1, <1>t, SameSide DEF Call, CallCreate, CallOp, CallSleep, Goto
<1>2. ASSUME NEW n \in Node, Acquire(n) PROVE MutualExclusion'
    <2>1. \A k \in Node : ~ Crit(k)
        BY <1>2 DEF Acquire, MutualExclusion
    <2>2. \A k \in Node : Crit(k)' => k = n
        BY <1>2, <1>t, <2>1 DEF Acquire, Goto, Crit
    <2> QED BY <1>2, <2>2 DEF Acquire, MutualExclusion
<1>3. ASSUME NEW n \in Node, Body(n) PROVE MutualExclusion'
    <2>1. Crit(n)
        BY <1>3 DEF Body, At, Crit
    <2>2. CASE CreateBody(n)
        <3>1. \A k \in Node : Crit(k)' => Crit(k)
            BY <1>t, <2>1, <2>2 DEF CreateBody, Crit
        <3> QED BY <2>2, <3>1, NobodyEnters DEF CreateBody
    <2>3. CASE WaitBody(n) \/ MoveBody(n) \/ PrintBody(n)
        <3>1. PICK l : pc' = [pc EXCEPT ![n] = l]
            BY <2>3 DEF WaitBody, MoveBody, PrintBody, Goto
        <3> QED BY <1>t, <2>1, <2>3, <3>1, SameSide DEF WaitBody, MoveBody, PrintBody
    <2> QED BY <1>3, <2>2, <2>3 DEF Body
<1>4. ASSUME NEW n \in Node, Unlock(n) PROVE MutualExclusion'
    <2>1. \A k \in Node : Crit(k) => k = n
        BY <1>4 DEF Unlock, At, Crit, MutualExclusion
    <2>2. \A k \in Node : ~ Crit(k)'
        BY <1>4, <1>t, <2>1 DEF Unlock, Return, Goto, Crit
    <2> QED BY <2>2 DEF MutualExclusion
<1>5. ASSUME NEW n \in Node,
             Store(n) \/ Fix(n) \/ Drop(n) \/ Drop2(n) \/ Link(n) \/ Push(n) \/ Inc(n)
      PROVE  MutualExclusion'
    <2>1. Crit(n) /\ UNCHANGED lock
        BY <1>5 DEF Store, Fix, Drop, Drop2, Link, Push, Inc, At, Crit
    <2>2. PICK l : pc' = [pc EXCEPT ![n] = l]
        BY <1>5 DEF Store, Fix, Drop, Drop2, Link, Push, Inc, Goto
    <2> QED BY <1>t, <2>1, <2>2, SameSide
<1>6. ASSUME NEW n \in Node, Poll(n) \/ Dec(n) \/ Dec2(n) \/ Yield(n)
      PROVE  MutualExclusion'
    BY <1>6, <1>t, <1>0, SameSide DEF Poll, Dec, Dec2, Yield, Return, Goto
<1>7. ASSUME CleanerStep PROVE MutualExclusion'
    BY <1>7, <1>t, <1>0, SameSide
    DEF CleanerStep, CleanerStart, CleanerTest, CleanerReap, CleanerFree, Goto
<1>8. ASSUME SleeperStep PROVE MutualExclusion'
    BY <1>8, <1>t, <1>0, SameSide
    DEF SleeperStep, SleeperStart, SleeperTest, SleeperDue, SleeperWake, Goto
<1>9. CASE TimerIsr \/ (\E n \in Node : Spin(n)) \/ UNCHANGED vars
    BY <1>9, <1>0 DEF TimerIsr, Spin, vars
<1>10. ASSUME NEW n \in Node, Resume(n) PROVE MutualExclusion'
    BY <1>10, <1>9 DEF vars
<1> QED
    BY <1>1, <1>2, <1>3, <1>4, <1>5, <1>6, <1>7, <1>8, <1>9, <1>10
    DEF Next, Run, Step

(***************************************************************************)
(* thread_lock excludes, whatever the clients call and wherever they are   *)
(* preempted, as long as no thread comes back from the yield in            *)
(* thread_suspend or thread_exit and unlocks a second time.                *)
(***************************************************************************)
THEOREM MutexWithoutSecondUnlock ==
    Spec /\ [][\A n \in Node : ~ Resume(n)]_vars => []MutualExclusion
<1>1. Init => MutualExclusion
    BY DEF Init, MutualExclusion, Crit
<1>2. Spec => []TypeInv
    BY InitTypeInv, TypeStep, PTL DEF Spec
<1>3. TypeInv /\ MutualExclusion /\ [Next]_vars /\ [\A n \in Node : ~ Resume(n)]_vars
      => MutualExclusion'
    BY MutexStep
<1> QED BY <1>1, <1>2, <1>3, PTL DEF Spec

-----------------------------------------------------------------------------
(***************************************************************************)
(* The singly linked queues of thread.c, for any links whatsoever: what a  *)
(* walk along `next' visits, and what pushing a node at the head, taking   *)
(* one out, or cutting a queue short does to it.  The links are a          *)
(* parameter, so that a lemma can be used before and after a step.         *)
(*                                                                         *)
(* Reach(p) is the least closed set with p, so every fact about all the    *)
(* nodes of a queue, acyclicity included, comes from exhibiting a closed   *)
(* set; no induction along the links is needed.                            *)
(***************************************************************************)

Links == [Node -> Ptr]

ClosedIn(nx, S) == \A m \in S : nx[m] \in S \cup {NULL}

ReachIn(nx, p) ==
    {m \in Node : p # NULL /\ \A S \in SUBSET Node :
                     p \in S /\ ClosedIn(nx, S) => m \in S}

\* A queue from h: nothing in it points back to h, and no two nodes point to
\* the same one.
Proper(nx, h) ==
    LET Q == ReachIn(nx, h)
    IN  /\ \A a \in Q : nx[a] # h
        /\ \A a, b \in Q : nx[a] = nx[b] /\ nx[a] # NULL => a = b

\* The queues of the model are those of its links and heads, in this state
\* and in the next.
LEMMA QueueIs ==
    ASSUME NEW s
    PROVE  Queue(s) = ReachIn(next, head[s]) /\ Queue(s)' = ReachIn(next', head'[s])
BY DEF Queue, Reach, ReachIn, ClosedUnderNext, ClosedIn

\* A queue consists of nodes, and an empty one of none.
LEMMA ReachType ==
    ASSUME NEW nx, NEW p
    PROVE  ReachIn(nx, p) \subseteq Node /\ (p = NULL => ReachIn(nx, p) = {})
BY DEF ReachIn

\* A walk visits the node it starts from.
LEMMA ReachSelf ==
    ASSUME NEW nx, NEW p \in Node
    PROVE  p \in ReachIn(nx, p)
BY Constants DEF ReachIn

\* With a node, a walk visits its successor.
LEMMA ReachClosed ==
    ASSUME NEW nx \in Links, NEW p
    PROVE  ClosedIn(nx, ReachIn(nx, p))
<1> SUFFICES ASSUME NEW m \in ReachIn(nx, p), nx[m] # NULL
             PROVE  nx[m] \in ReachIn(nx, p)
    BY DEF ClosedIn
<1>1. m \in Node /\ p # NULL /\ nx[m] \in Node
    BY DEF ReachIn, Links, Ptr
<1>2. ASSUME NEW S \in SUBSET Node, p \in S, ClosedIn(nx, S) PROVE nx[m] \in S
    <2>1. m \in S
        BY <1>2 DEF ReachIn
    <2> QED BY <1>2, <2>1 DEF ClosedIn
<1> QED BY <1>1, <1>2 DEF ReachIn

\* A walk stays in every closed set it starts in.
LEMMA ReachLeast ==
    ASSUME NEW nx, NEW p, NEW S \in SUBSET Node, p \in S \cup {NULL}, ClosedIn(nx, S)
    PROVE  ReachIn(nx, p) \subseteq S
BY DEF ReachIn

\* A walk is its first node and the walk from the successor.
LEMMA ReachStep ==
    ASSUME NEW nx \in Links, NEW p \in Node
    PROVE  ReachIn(nx, p) = {p} \cup ReachIn(nx, nx[p])
<1> DEFINE A == ReachIn(nx, p)
           B == ReachIn(nx, nx[p])
<1>1. nx[p] \in Ptr /\ ClosedIn(nx, A) /\ ClosedIn(nx, B) /\ A \subseteq Node /\ B \subseteq Node
    BY ReachClosed, ReachType DEF Links
<1>2. p \in A
    BY ReachSelf
<1>3. B \subseteq A
    <2>1. nx[p] \in A \cup {NULL}
        BY <1>1, <1>2 DEF ClosedIn
    <2> HIDE DEF A
    <2> QED BY <1>1, <2>1, ReachLeast
<1>4. A \subseteq {p} \cup B
    <2>1. nx[p] \in B \cup {NULL}
        BY <1>1, ReachSelf DEF Ptr
    <2>2. ClosedIn(nx, {p} \cup B)
        BY <1>1, <2>1 DEF ClosedIn
    <2> HIDE DEF B
    <2> QED BY <1>1, <2>2, ReachLeast
<1> QED BY <1>2, <1>3, <1>4

\* Links outside a queue do not matter to it.
LEMMA ReachSame ==
    ASSUME NEW nx \in Links, NEW ny \in Links, NEW p \in Ptr,
           \A a \in ReachIn(nx, p) : ny[a] = nx[a]
    PROVE  ReachIn(ny, p) = ReachIn(nx, p)
<1> DEFINE A == ReachIn(nx, p)
           B == ReachIn(ny, p)
<1>1. CASE p = NULL
    <2>1. A = {} /\ B = {}
        BY <1>1 DEF ReachIn
    <2> QED BY <2>1
<1>2. CASE p \in Node
    <2>1. p \in A /\ A \subseteq Node /\ ClosedIn(nx, A)
        BY <1>2, ReachSelf, ReachClosed, ReachType
    <2>2. ClosedIn(ny, A)
        BY <2>1 DEF ClosedIn
    <2>3. B \subseteq A
        BY <2>1, <2>2, ReachLeast
    <2>4. p \in B /\ B \subseteq Node /\ ClosedIn(ny, B)
        BY <1>2, ReachSelf, ReachClosed, ReachType
    <2>5. ClosedIn(nx, B)
        BY <2>3, <2>4 DEF ClosedIn
    <2>6. A \subseteq B
        BY <2>4, <2>5, ReachLeast
    <2> QED BY <2>3, <2>6
<1> QED BY <1>1, <1>2 DEF Ptr

\* A queue whose links are left alone stays proper.
LEMMA ProperSame ==
    ASSUME NEW nx \in Links, NEW ny \in Links, NEW p \in Ptr, Proper(nx, p),
           \A a \in ReachIn(nx, p) : ny[a] = nx[a]
    PROVE  Proper(ny, p)
BY ReachSame DEF Proper

\* Every node of a queue but its head has a predecessor in it.
LEMMA Predecessor ==
    ASSUME NEW nx \in Links, NEW h \in Ptr, NEW m \in ReachIn(nx, h), m # h
    PROVE  \E q \in ReachIn(nx, h) : nx[q] = m
<1> DEFINE Q == ReachIn(nx, h)
<1>1. SUFFICES ASSUME \A q \in Q : nx[q] # m PROVE FALSE
    OBVIOUS
<1>2. h \in Node
    BY DEF ReachIn, Ptr
<1>3. Q \subseteq Node /\ ClosedIn(nx, Q) /\ h \in Q
    BY <1>2, ReachType, ReachClosed, ReachSelf
<1>4. ClosedIn(nx, Q \ {m})
    BY <1>1, <1>3 DEF ClosedIn
<1>5. Q \subseteq Q \ {m}
    <2> HIDE DEF Q
    <2>1. ReachIn(nx, h) \subseteq Q \ {m}
        BY <1>3, <1>4, ReachLeast
    <2> QED BY <2>1 DEF Q
<1> QED BY <1>5

\* A proper queue has no cycle: no node of it is behind itself.
LEMMA NoCycle ==
    ASSUME NEW nx \in Links, NEW h \in Ptr, Proper(nx, h), NEW m \in ReachIn(nx, h)
    PROVE  m \notin ReachIn(nx, nx[m])
<1> DEFINE Q == ReachIn(nx, h)
           C == ReachIn(nx, nx[m])
<1>1. SUFFICES ASSUME m \in C PROVE FALSE
    OBVIOUS
<1>2. h \in Node /\ m \in Node
    BY DEF ReachIn, Ptr
<1>3. Q \subseteq Node /\ ClosedIn(nx, Q) /\ h \in Q
    BY <1>2, ReachType, ReachClosed, ReachSelf
<1>4. C \subseteq Q
    <2>1. nx[m] \in Q \cup {NULL}
        BY <1>3 DEF ClosedIn
    <2> HIDE DEF Q
    <2> QED BY <1>3, <2>1, ReachLeast
<1>5. \A c \in C : \E q \in C : nx[q] = c
    <2>1. nx[m] \in Ptr
        BY <1>2 DEF Links
    <2> QED BY <1>1, <2>1, Predecessor
<1>6. h \notin C
    BY <1>4, <1>5 DEF Proper
<1>7. ClosedIn(nx, Q \ C)
    BY <1>3, <1>4, <1>5, Constants, ReachType DEF Proper, ClosedIn
<1>8. Q \subseteq Q \ C
    <2> HIDE DEF Q, C
    <2>1. ReachIn(nx, h) \subseteq Q \ C
        BY <1>3, <1>6, <1>7, ReachLeast
    <2> QED BY <2>1 DEF Q
<1> QED BY <1>1, <1>8

\* What lies behind a node of a proper queue is a proper queue.
LEMMA Suffix ==
    ASSUME NEW nx \in Links, NEW h \in Ptr, Proper(nx, h), NEW m \in ReachIn(nx, h)
    PROVE  Proper(nx, nx[m]) /\ ReachIn(nx, nx[m]) \subseteq ReachIn(nx, h) \ {m}
<1> DEFINE Q == ReachIn(nx, h)
           C == ReachIn(nx, nx[m])
<1>1. m \in Node /\ Q \subseteq Node /\ ClosedIn(nx, Q)
    BY ReachType, ReachClosed
<1>2. C \subseteq Q
    <2>1. nx[m] \in Q \cup {NULL}
        BY <1>1 DEF ClosedIn
    <2> HIDE DEF Q
    <2> QED BY <1>1, <2>1, ReachLeast
<1>3. m \notin C
    BY NoCycle
<1>4. ASSUME NEW a \in C PROVE nx[a] # nx[m]
    <2>1. nx[m] # NULL
        BY ReachType
    <2> QED BY <1>2, <1>3, <1>4, <2>1 DEF Proper
<1> QED BY <1>2, <1>3, <1>4 DEF Proper

\* Pushing a node at the head of a queue adds it and nothing else.
LEMMA PushReach ==
    ASSUME NEW nx \in Links, NEW h \in Ptr, NEW m \in Node, m \notin ReachIn(nx, h), nx[m] = h
    PROVE  /\ ReachIn(nx, m) = {m} \cup ReachIn(nx, h)
           /\ Proper(nx, h) => Proper(nx, m)
<1> DEFINE Q == ReachIn(nx, h)
<1>1. ReachIn(nx, m) = {m} \cup Q
    BY ReachStep
<1>2. Q \subseteq Node /\ ClosedIn(nx, Q) /\ (h # NULL => h \in Q)
    BY ReachType, ReachClosed, ReachSelf DEF Ptr
<1>3. ASSUME Proper(nx, h) PROVE Proper(nx, m)
    <2>1. \A a \in Q : nx[a] # m /\ (nx[a] = h => h = NULL)
        BY <1>2, <1>3, Constants DEF ClosedIn, Proper
    <2>2. h # m
        BY <1>2, Constants
    <2> QED BY <1>1, <1>3, <2>1, <2>2 DEF Proper
<1> QED BY <1>1, <1>3

\* Taking out the head leaves the rest.
LEMMA UnlinkHead ==
    ASSUME NEW nx \in Links, NEW h \in Node, Proper(nx, h)
    PROVE  ReachIn(nx, nx[h]) = ReachIn(nx, h) \ {h} /\ Proper(nx, nx[h])
<1>1. h \in ReachIn(nx, h)
    BY ReachSelf
<1>2. ReachIn(nx, h) = {h} \cup ReachIn(nx, nx[h])
    BY ReachStep
<1>3. h \in Ptr
    BY DEF Ptr
<1> QED BY <1>1, <1>2, <1>3, Suffix

\* Taking out a node further down, by its predecessor, leaves the others.
LEMMA UnlinkInner ==
    ASSUME NEW nx \in Links, NEW h \in Ptr, Proper(nx, h),
           NEW p \in ReachIn(nx, h), NEW m \in ReachIn(nx, h), m # h, nx[p] = m,
           NEW ny \in Links, ny[p] = nx[m], \A a \in Node \ {p} : ny[a] = nx[a]
    PROVE  ReachIn(ny, h) = ReachIn(nx, h) \ {m} /\ Proper(ny, h)
<1> DEFINE Q == ReachIn(nx, h)
           B == ReachIn(ny, h)
<1>1. /\ h \in Node /\ m \in Node /\ p \in Node /\ Q \subseteq Node
      /\ ClosedIn(nx, Q) /\ h \in Q
    BY ReachType, ReachClosed, ReachSelf DEF ReachIn, Ptr
<1>2. p # m
    <2>1. SUFFICES ASSUME p = m PROVE FALSE
        OBVIOUS
    <2>2. m \in ReachIn(nx, nx[m])
        BY <1>1, <2>1, ReachSelf
    <2> QED BY <2>2, NoCycle
<1>3. ny \in Links /\ nx[m] \in Ptr /\ ny[p] = nx[m] /\ \A a \in Node : a # p => ny[a] = nx[a]
    BY <1>1 DEF Links
<1>4. \A a \in Q : nx[a] = m => a = p
    BY <1>1, Constants DEF Proper
<1>5. nx[m] # m
    BY <1>2, <1>4
<1>6. B \subseteq Q \ {m}
    <2>1. ClosedIn(ny, Q \ {m})
        BY <1>1, <1>2, <1>3, <1>4, <1>5 DEF ClosedIn
    <2> HIDE DEF Q
    <2> QED BY <1>1, <2>1, ReachLeast
<1>7. Q \ {m} \subseteq B
    <2>1. B \subseteq Node /\ ClosedIn(ny, B) /\ h \in B
        BY <1>1, <1>3, ReachType, ReachClosed, ReachSelf
    <2>2. CASE p \in B
        <3>1. ClosedIn(nx, B \cup {m})
            BY <1>1, <1>3, <2>1, <2>2 DEF ClosedIn
        <3> HIDE DEF B
        <3>2. ReachIn(nx, h) \subseteq B \cup {m}
            BY <1>1, <2>1, <3>1, ReachLeast
        <3> QED BY <3>2
    <2>3. CASE p \notin B
        <3>1. ClosedIn(nx, B)
            BY <1>3, <2>1, <2>3 DEF ClosedIn
        <3> HIDE DEF B
        <3>2. ReachIn(nx, h) \subseteq B
            BY <1>1, <2>1, <3>1, ReachLeast
        <3> QED BY <3>2
    <2> QED BY <2>2, <2>3
<1>8. B = Q \ {m}
    BY <1>6, <1>7
<1>9. Proper(ny, h)
    <2>1. \A a \in Q \ {m} : ny[a] # h
        BY <1>1, <1>3 DEF Proper
    <2>2. \A a, b \in Q \ {m} : ny[a] = ny[b] /\ ny[a] # NULL => a = b
        BY <1>1, <1>2, <1>3 DEF Proper
    <2> HIDE DEF B
    <2> QED BY <1>8, <2>1, <2>2 DEF Proper, B
<1> QED BY <1>8, <1>9
-----------------------------------------------------------------------------
(***************************************************************************)
(* The operations of thread.c on its queues.                               *)
(***************************************************************************)
\* Every queue is proper, and a node on it has its status: the queues are
\* disjoint.
ListsOK ==
    /\ \A s \in Status : Proper(next, head[s])
    /\ \A s \in Status : \A m \in Queue(s) : status[m] = s

\* The types of the links and of the heads of the queues.
LEMMA LinkTypes ==
    ASSUME TypeInv
    PROVE  next \in Links /\ \A s \in Status : head[s] \in Ptr
BY DEF TypeInv, TypeOK, Links

\* thread_find_by_tid finds a thread of the queue with the tid, if there is one.
LEMMA FindIn ==
    ASSUME NEW t, NEW s
    PROVE  /\ FindByTid(t, s) # NULL => FindByTid(t, s) \in Queue(s) /\ tid[FindByTid(t, s)] = t
           /\ FindByTid(t, s) = NULL => \A m \in Queue(s) : tid[m] # t
<1> DEFINE hits == {m \in Queue(s) : tid[m] = t}
<1>1. hits \subseteq Node
    BY DEF Queue, Reach
<1>2. CASE hits = {}
    BY <1>2 DEF FindByTid
<1>3. CASE hits # {}
    <2> DEFINE P(m) == (\E k \in hits : hits \subseteq Reach(k)) => hits \subseteq Reach(m)
    <2>1. \E m \in hits : P(m)
        BY <1>3
    <2>2. (CHOOSE m \in hits : P(m)) \in hits
        BY <2>1
    <2>3. FindByTid(t, s) = CHOOSE m \in hits : P(m)
        BY <1>3 DEF FindByTid
    <2>4. FindByTid(t, s) \in hits
        BY <2>2, <2>3
    <2> HIDE DEF P
    <2> QED BY <1>1, <2>4, Constants
<1> QED BY <1>2, <1>3

\* Changing the link of a node that is on no queue changes no queue.
LEMMA OffQueue ==
    ASSUME TypeInv, ListsOK, NEW m \in Node, \A s \in Status : m \notin Queue(s),
           next' \in Links, \A a \in Node : a # m => next'[a] = next[a], UNCHANGED head
    PROVE  \A s \in Status : Queue(s)' = Queue(s) /\ Proper(next', head'[s])
<1> SUFFICES ASSUME NEW s \in Status
             PROVE  Queue(s)' = Queue(s) /\ Proper(next', head'[s])
    OBVIOUS
<1>1. next \in Links /\ head[s] \in Ptr /\ head'[s] = head[s]
    BY LinkTypes
<1>2. Queue(s) = ReachIn(next, head[s]) /\ Queue(s)' = ReachIn(next', head'[s])
    BY QueueIs
<1>3. \A a \in ReachIn(next, head[s]) : next'[a] = next[a]
    BY <1>2, ReachType
<1>4. Proper(next, head[s])
    BY DEF ListsOK
<1> QED BY <1>1, <1>2, <1>3, <1>4, ReachSame, ProperSame

\* Unlinking a node takes it out of its queue and leaves the others alone.
LEMMA UnlinkEffect ==
    ASSUME TypeInv, ListsOK, NEW s \in Status, NEW m \in Queue(s), Unlink(m, s)
    PROVE  /\ Queue(s)' = Queue(s) \ {m}
           /\ \A r \in Status \ {s} : Queue(r)' = Queue(r)
           /\ \A r \in Status : Proper(next', head'[r])
           /\ next' \in Links /\ next'[m] = next[m]
           /\ \A a \in Node \ Queue(s) : next'[a] = next[a]
<1>1. next \in Links /\ head \in [Status -> Ptr] /\ \A r \in Status : head[r] \in Ptr
    BY LinkTypes DEF TypeInv, TypeOK
<1>2. /\ \A r \in Status : Queue(r) = ReachIn(next, head[r]) /\ Proper(next, head[r])
      /\ \A r \in Status : Queue(r)' = ReachIn(next', head'[r])
    BY QueueIs DEF ListsOK
<1>3. Queue(s) \subseteq Node /\ m \in Node
    BY DEF Queue, Reach
<1>4. \A r \in Status \ {s} : Queue(r) \cap Queue(s) = {}
    BY DEF ListsOK
<1>5. CASE head[s] = m
    <2>1. head' = [head EXCEPT ![s] = next[m]] /\ next' = next
        BY <1>5 DEF Unlink, queues
    <2>2. ReachIn(next, next[m]) = Queue(s) \ {m} /\ Proper(next, next[m])
        BY <1>1, <1>2, <1>3, <1>5, UnlinkHead
    <2>3. head'[s] = next[m] /\ \A r \in Status \ {s} : head'[r] = head[r]
        BY <1>1, <2>1
    <2> QED BY <1>1, <1>2, <2>1, <2>2, <2>3
<1>6. CASE head[s] # m
    <2> DEFINE p == CHOOSE q \in Queue(s) : next[q] = m
    <2>1. head' = head /\ next' = [next EXCEPT ![p] = next[m]]
        BY <1>6 DEF Unlink, queues
    <2>2. \E q \in Queue(s) : next[q] = m
        BY <1>1, <1>2, <1>6, Predecessor
    <2>3. p \in Queue(s) /\ next[p] = m
        BY <2>2
    <2> HIDE DEF p
    <2>4. next' \in Links /\ next'[p] = next[m] /\ \A a \in Node \ {p} : next'[a] = next[a]
        BY <1>1, <1>3, <2>1, <2>3 DEF Links
    <2>5. ReachIn(next', head[s]) = Queue(s) \ {m} /\ Proper(next', head[s])
        <3>1. /\ head[s] \in Ptr /\ Proper(next, head[s]) /\ m # head[s]
              /\ p \in ReachIn(next, head[s]) /\ m \in ReachIn(next, head[s])
            BY <1>1, <1>2, <1>6, <2>3
        <3>2. ReachIn(next', head[s]) = ReachIn(next, head[s]) \ {m} /\ Proper(next', head[s])
            BY <1>1, <2>3, <2>4, <3>1, UnlinkInner
        <3> QED BY <1>2, <3>2
    <2>6. ASSUME NEW r \in Status \ {s}
          PROVE  Queue(r)' = Queue(r) /\ Proper(next', head'[r])
        <3>1. \A a \in ReachIn(next, head[r]) : next'[a] = next[a]
            BY <1>2, <1>4, <2>3, <2>4, ReachType
        <3>2. head[r] \in Ptr /\ Proper(next, head[r])
            BY <1>1, <1>2
        <3>3. ReachIn(next', head[r]) = ReachIn(next, head[r]) /\ Proper(next', head[r])
            BY <1>1, <2>4, <3>1, <3>2, ReachSame, ProperSame
        <3> QED BY <1>2, <2>1, <3>3
    <2>7. p # m
        <3>1. SUFFICES ASSUME p = m PROVE FALSE
            OBVIOUS
        <3>2. m \in ReachIn(next, next[m])
            BY <1>3, <2>3, <3>1, ReachSelf
        <3> QED BY <1>1, <1>2, <3>2, NoCycle
    <2> QED BY <1>2, <1>3, <2>1, <2>3, <2>4, <2>5, <2>6, <2>7
<1> QED BY <1>5, <1>6

\* Making a node the head of a queue whose head it points to adds it.
LEMMA PushEffect ==
    ASSUME TypeInv, ListsOK, NEW s \in Status, NEW m \in Node,
           \A r \in Status : m \notin Queue(r), next[m] = head[s],
           head' = [head EXCEPT ![s] = m], UNCHANGED next
    PROVE  /\ Queue(s)' = Queue(s) \cup {m}
           /\ \A r \in Status \ {s} : Queue(r)' = Queue(r)
           /\ \A r \in Status : Proper(next', head'[r])
<1>1. next \in Links /\ head \in [Status -> Ptr] /\ \A r \in Status : head[r] \in Ptr
    BY LinkTypes DEF TypeInv, TypeOK
<1>2. /\ \A r \in Status : Queue(r) = ReachIn(next, head[r]) /\ Proper(next, head[r])
      /\ \A r \in Status : Queue(r)' = ReachIn(next', head'[r])
    BY QueueIs DEF ListsOK
<1>3. head'[s] = m /\ \A r \in Status \ {s} : head'[r] = head[r]
    BY <1>1
<1>4. ReachIn(next, m) = Queue(s) \cup {m} /\ Proper(next, m)
    BY <1>1, <1>2, PushReach
<1> QED BY <1>2, <1>3, <1>4

\* thread_cleaner takes the node m out of the queue of the dead, by the node p
\* before it or by the head.  A thread that was pushed at the head meanwhile
\* is lost with it, which shortens the queue further.
LEMMA ReapEffect ==
    ASSUME TypeInv, ListsOK, NEW m \in Queue("DIED"), NEW p \in Ptr,
           p # NULL => p \in Queue("DIED") /\ next[p] = m,
           IF p # NULL
           THEN next' = [next EXCEPT ![p] = next[m]] /\ UNCHANGED head
           ELSE head' = [head EXCEPT !["DIED"] = next[m]] /\ UNCHANGED next
    PROVE  /\ Queue("DIED")' \subseteq Queue("DIED") \ {m}
           /\ next[m] \in Queue("DIED")' \cup {NULL}
           /\ p # NULL => p \in Queue("DIED")' /\ next'[p] = next[m]
           /\ \A r \in Status \ {"DIED"} : Queue(r)' = Queue(r) /\ head'[r] = head[r]
           /\ \A r \in Status : Proper(next', head'[r])
           /\ \A a \in Node \ Queue("DIED") : next'[a] = next[a]
<1> DEFINE D == Queue("DIED")
<1>1. /\ next \in Links /\ head \in [Status -> Ptr] /\ \A r \in Status : head[r] \in Ptr
      /\ "DIED" \in Status
    BY LinkTypes DEF TypeInv, TypeOK, Status
<1>2. /\ \A r \in Status : Queue(r) = ReachIn(next, head[r]) /\ Proper(next, head[r])
      /\ \A r \in Status : Queue(r)' = ReachIn(next', head'[r])
    BY QueueIs DEF ListsOK
<1>3. D \subseteq Node /\ m \in Node /\ ClosedIn(next, D)
    BY <1>1, <1>2, ReachClosed DEF Queue, Reach
<1>4. \A r \in Status \ {"DIED"} : Queue(r) \cap D = {}
    BY <1>1 DEF ListsOK
<1>5. CASE p = NULL
    <2>1. head' = [head EXCEPT !["DIED"] = next[m]] /\ next' = next
        BY <1>5
    <2>2. Proper(next, next[m]) /\ ReachIn(next, next[m]) \subseteq D \ {m}
        BY <1>1, <1>2, Suffix
    <2>3. head'["DIED"] = next[m] /\ \A r \in Status \ {"DIED"} : head'[r] = head[r]
        BY <1>1, <2>1
    <2>4. next[m] \in ReachIn(next, next[m]) \cup {NULL}
        BY <1>1, <1>3, ReachSelf DEF Links, Ptr
    <2> QED BY <1>1, <1>2, <1>5, <2>1, <2>2, <2>3, <2>4
<1>6. CASE p # NULL
    <2>1. head' = head /\ next' = [next EXCEPT ![p] = next[m]] /\ p \in D /\ next[p] = m
        BY <1>6
    <2>2. m # head["DIED"]
        BY <1>1, <1>2, <2>1 DEF Proper
    <2>3. next' \in Links /\ next'[p] = next[m] /\ \A a \in Node \ {p} : next'[a] = next[a]
        BY <1>1, <1>3, <2>1 DEF Links
    <2>4. ReachIn(next', head["DIED"]) = D \ {m} /\ Proper(next', head["DIED"])
        <3>1. /\ head["DIED"] \in Ptr /\ Proper(next, head["DIED"])
              /\ p \in ReachIn(next, head["DIED"]) /\ m \in ReachIn(next, head["DIED"])
              /\ next[p] = m
            BY <1>1, <1>2, <2>1
        <3>2. /\ ReachIn(next', head["DIED"]) = ReachIn(next, head["DIED"]) \ {m}
              /\ Proper(next', head["DIED"])
            BY <1>1, <2>2, <2>3, <3>1, UnlinkInner
        <3> QED BY <1>1, <1>2, <3>2
    <2>5. ASSUME NEW r \in Status \ {"DIED"}
          PROVE  Queue(r)' = Queue(r) /\ Proper(next', head'[r])
        <3>1. \A a \in ReachIn(next, head[r]) : next'[a] = next[a]
            BY <1>2, <1>4, <2>1, <2>3, ReachType
        <3>2. head[r] \in Ptr /\ Proper(next, head[r])
            BY <1>1, <1>2
        <3>3. ReachIn(next', head[r]) = ReachIn(next, head[r]) /\ Proper(next', head[r])
            BY <1>1, <2>3, <3>1, <3>2, ReachSame, ProperSame
        <3> QED BY <1>2, <2>1, <3>3
    <2>6. m \notin ReachIn(next, next[m])
        BY <1>1, <1>2, NoCycle
    <2>7. next[m] # m /\ p # m
        BY <1>3, <2>1, <2>6, ReachSelf
    <2>8. next[m] \in (D \ {m}) \cup {NULL}
        BY <1>3, <2>7 DEF ClosedIn
    <2> QED BY <1>1, <1>2, <1>3, <2>1, <2>3, <2>4, <2>5, <2>7, <2>8
<1> QED BY <1>5, <1>6

\* A step that leaves the links and heads alone leaves the queues alone.
LEMMA SameQueues ==
    ASSUME UNCHANGED <<head, next>>
    PROVE  \A s : Queue(s)' = Queue(s)
BY DEF Queue, Reach, ClosedUnderNext

-----------------------------------------------------------------------------
(***************************************************************************)
(* The state start_thread leaves.                                          *)
(***************************************************************************)
\* The threads of Boot are on RUNNING in the reverse of their order, then
\* thread_cleaner.
LEMMA BootQueue ==
    ASSUME Init
    PROVE  /\ Queue("RUNNING") = Booted \cup {Cleaner}
           /\ \A s \in Status \ {"RUNNING"} : Queue(s) = {}
           /\ \A s \in Status : Proper(next, head[s])
<1> DEFINE L == Len(Boot)
           B == Booted \cup {Cleaner}
           h == head["RUNNING"]
           Q == ReachIn(next, h)
<1>0. /\ L \in Nat /\ L > 0 /\ Boot[1] = Sleeper /\ NULL \notin Node /\ Cleaner \in Node
      /\ \A i \in 1 .. L : Boot[i] \in Node /\ Boot[i] # Cleaner
      /\ \A i, j \in 1 .. L : Boot[i] = Boot[j] => i = j
    BY BootType, ThreadAssumption
<1>1. TypeInv /\ next \in Links
    BY InitTypeInv, LinkTypes
<1>2. /\ h = Boot[L] /\ (\A s \in Status \ {"RUNNING"} : head[s] = NULL)
    BY DEF Init, Status
<1>3. \A i \in 1 .. L : Boot[i] \in Booted /\ Slot(Boot[i]) = i
    <2>1. \A i \in 1 .. L : Boot[i] \in Booted
        BY DEF Booted
    <2> QED BY <1>0, <2>1, BootType
<1>4. \A i \in 1 .. L : next[Boot[i]] = IF i = 1 THEN Cleaner ELSE Boot[i - 1]
    BY <1>0, <1>3 DEF Init
<1>5. next[Cleaner] = NULL
    BY <1>0 DEF Init, Booted
\* closed
<1>6. B \subseteq Node /\ ClosedIn(next, B)
    <2>1. B \subseteq Node
        BY <1>0, BootType
    <2>2. ASSUME NEW m \in B PROVE next[m] \in B \cup {NULL}
        <3>1. CASE m = Cleaner
            BY <1>5, <3>1
        <3>2. CASE m # Cleaner
            <4>1. PICK i \in 1 .. L : m = Boot[i]
                BY <3>2 DEF Booted
            <4>2. i = 1 \/ (i - 1 \in 1 .. L)
                BY <1>0
            <4> QED BY <1>3, <1>4, <4>1, <4>2
        <3> QED BY <3>1, <3>2
    <2> QED BY <2>1, <2>2 DEF ClosedIn
<1>7. Q \subseteq B
    <2>1. h \in B
        BY <1>0, <1>2, <1>3
    <2> QED BY <1>6, <2>1, ReachLeast
\* reached: the first one of Boot that is not would have a successor that is
<1>8. \A i \in 1 .. L : Boot[i] \in Q
    <2> DEFINE M == {j \in 0 .. L - 1 : Boot[L - j] \notin Q}
    <2>1. SUFFICES M = {}
        <3>1. ASSUME NEW i \in 1 .. L, M = {} PROVE Boot[i] \in Q
            <4>1. L - i \in 0 .. L - 1 /\ L - (L - i) = i
                BY <1>0
            <4> QED BY <3>1, <4>1
        <3> QED BY <3>1
    <2>2. SUFFICES ASSUME M # {} PROVE FALSE
        OBVIOUS
    <2>3. M \subseteq Nat
        BY <1>0
    <2>4. PICK j \in M : \A k \in M : ~ (<<k, j>> \in OpToRel(<, Nat))
        BY <2>2, <2>3, WFMin, NatLessThanWellFounded
    <2>5. \A k \in M : ~ (k < j)
        BY <2>3, <2>4 DEF OpToRel
    <2>6. CASE j = 0
        <3>1. L - 0 = L /\ Boot[L] \in Q
            BY <1>0, <1>2, ReachSelf
        <3> QED BY <2>6, <3>1
    <2>7. CASE j # 0
        <3>1. j - 1 \in 0 .. L - 1 /\ j - 1 < j /\ L - (j - 1) \in 2 .. L /\ (L - (j - 1)) - 1 = L - j
            BY <1>0, <2>7
        <3>2. Boot[L - (j - 1)] \in Q
            BY <2>5, <3>1
        <3>3. L - (j - 1) \in 1 .. L /\ L - (j - 1) # 1 /\ L - j \in 1 .. L
            BY <1>0, <2>7, <3>1
        <3>4. next[Boot[L - (j - 1)]] = Boot[L - j]
            BY <1>4, <3>1, <3>3
        <3>5. Boot[L - j] # NULL
            BY <1>0, <3>3
        <3>6. Boot[L - j] \in Q
            BY <1>1, <3>2, <3>4, <3>5, ReachClosed DEF ClosedIn
        <3> QED BY <3>6
    <2> QED BY <2>6, <2>7
<1>9. Cleaner \in Q
    <2>1. Boot[1] \in Q /\ next[Boot[1]] = Cleaner
        BY <1>0, <1>4, <1>8
    <2> QED BY <1>0, <1>1, <2>1, ReachClosed DEF ClosedIn
<1>10. Q = B
    BY <1>7, <1>8, <1>9 DEF Booted
<1>11. Proper(next, h)
    <2>1. ASSUME NEW a \in B, next[a] # NULL
          PROVE  \E i \in 1 .. L : a = Boot[i]
        BY <1>5, <2>1 DEF Booted
    <2>2. ASSUME NEW a \in B PROVE next[a] # h
        <3>1. SUFFICES ASSUME next[a] = Boot[L] PROVE FALSE
            BY <1>2
        <3>2. PICK i \in 1 .. L : a = Boot[i]
            BY <1>0, <2>1, <3>1
        <3>3. i # 1 /\ i - 1 \in 1 .. L /\ Boot[i - 1] = Boot[L]
            BY <1>0, <1>4, <3>1, <3>2
        <3>4. i - 1 = L
            BY <1>0, <3>3
        <3> QED BY <1>0, <3>2, <3>4
    <2>3. ASSUME NEW a \in B, NEW b \in B, next[a] = next[b], next[a] # NULL PROVE a = b
        <3>1. PICK i \in 1 .. L : a = Boot[i]
            BY <2>1, <2>3
        <3>2. PICK j \in 1 .. L : b = Boot[j]
            BY <2>1, <2>3
        <3>3. (IF i = 1 THEN Cleaner ELSE Boot[i - 1]) = (IF j = 1 THEN Cleaner ELSE Boot[j - 1])
            BY <1>4, <2>3, <3>1, <3>2
        <3>4. (i = 1 \/ i - 1 \in 1 .. L) /\ (j = 1 \/ j - 1 \in 1 .. L)
            BY <1>0
        <3>5. i = 1 <=> j = 1
            BY <1>0, <3>3, <3>4
        <3>6. i # 1 => i - 1 = j - 1
            BY <1>0, <3>3, <3>4, <3>5
        <3>7. i = j
            BY <3>5, <3>6
        <3> QED BY <3>1, <3>2, <3>7
    <2> QED BY <1>10, <2>2, <2>3 DEF Proper
<1>12. \A s \in Status \ {"RUNNING"} : Queue(s) = {} /\ Proper(next, head[s])
    BY <1>2, QueueIs, ReachType DEF Proper
<1> QED BY <1>10, <1>11, <1>12, QueueIs

-----------------------------------------------------------------------------
(***************************************************************************)
(* Threads that only sleep: for any number of them and any lengths of      *)
(* sleep, under every interleaving, no sleep returns early, each gives     *)
(* back the one reference it took, and lock, queues and scheduler stay     *)
(* sound.                                                                  *)
(***************************************************************************)

\* The clients of these theorems make no call but sleep, for times that end.
Sleepers ==
    /\ SelfCalls = {} /\ OtherCalls = {} /\ ~ Creates
    /\ \A ms \in SleepMs : ms <= Horizon * MsPerTick

-----------------------------------------------------------------------------
(***************************************************************************)
(* The inductive invariant, in parts.                                      *)
(***************************************************************************)
Threads == Booted \cup {Cleaner}

\* Where a thread runs with interrupts off, and so until it gives up the
\* processor itself: sleep from its cli on, sleeper_polling in thread_wake.
Masked == {"lock", "body", "fix", "link", "push", "unlock", "yield"}

\* Where a client that sleeps has taken itself out of RUNNING.
Leaving == {"fix", "link", "push", "unlock", "yield"}

Asleep == Queue("SUSPEND")

SleepPlace(n) ==
    /\ n = Cleaner => pc[n] \in {"c_start", "c_test"} /\ frame[n] = NoCall
    /\ n = Sleeper =>
         \/ pc[n] \in {"s_start", "s_test", "s_due", "s_wake"} /\ frame[n].op = "none"
         \/ pc[n] \in {"lock", "body", "link", "push", "unlock"} /\ frame[n].op = "wake"
    /\ Client(n) =>
         \/ pc[n] = "run"
         \/ /\ pc[n] \in Masked \cup {"resume"}
            /\ frame[n].op = "suspend" /\ frame[n].arg = tid[n]
            /\ pc[n] \notin {"lock", "body"} => frame[n].nd = n

\* Critical sections are not interrupted.
MaskInv ==
    /\ \A n \in Node : pc[n] \in Masked => current = n /\ ~ intr
    /\ \A n \in Node : Crit(n) => lock = 1
    /\ lock = 1 => Crit(current)

\* The queues; nobody is created or dies.
SleepQueues ==
    /\ ListsOK
    /\ \A s \in Status : Queue(s) \subseteq Threads
    /\ head["READY"] = NULL /\ head["DIED"] = NULL
    /\ {Cleaner, Sleeper} \subseteq Queue("RUNNING")
    /\ heap = Booted
    /\ \A m, k \in Threads : tid[m] = tid[k] => m = k

\* The node that is being moved is on no queue.
SleepHand ==
    \A n \in Node : pc[n] \in {"fix", "link", "push"} =>
        /\ frame[n].nd \in Threads \ {Cleaner, Sleeper}
        /\ \A s \in Status : frame[n].nd \notin Queue(s)
        /\ pc[n] = "push" => /\ next[frame[n].nd] = head[Target(frame[n].op)]
                             /\ status[frame[n].nd] = Target(frame[n].op)

\* Who is on SUSPEND is in sleep; who is about to leave the processor is there.
AsleepInv ==
    /\ \A n \in Asleep : Client(n) /\ pc[n] \in {"unlock", "yield", "resume"}
    /\ \A n \in Node : Client(n) /\ pc[n] \in {"unlock", "yield"} => n \in Asleep

\* The thread sleeper_polling is about to wake: it has given back its
\* reference, and it is still on SUSPEND.
Waking(x) ==
    /\ pc[Sleeper] \in {"lock", "body"}
    /\ frame[Sleeper].arg = tid[x]

\* The pointers with which sleeper_polling walks SUSPEND without the lock.
SleepWalk ==
    LET f == frame[Sleeper]
        l == pc[Sleeper]
    IN  /\ l = "s_test" => f.nd \in Asleep \cup {NULL}
        /\ l \in {"s_due", "s_wake"} => f.nd \in Asleep /\ f.nx = next[f.nd]
        /\ l = "s_wake" => wake[f.nd] <= Millis
        /\ l \in {"lock", "body"} =>
             \E x \in Asleep : Waking(x) /\ f.nx = next[x] /\ wake[x] <= Millis
        /\ l \in {"link", "push", "unlock"} => f.nx \in Asleep \cup {NULL}

\* The processor.
SleepCpu ==
    LET R == Queue("RUNNING")
    IN  /\ current \in Node
        /\ current \in R => fix = NULL
        /\ current \notin R =>
             /\ Client(current) /\ pc[current] \in Leaving
             /\ IF pc[current] = "fix"
                THEN fix = NULL /\ next[current] \in R \cup {NULL}
                ELSE fix \in R

\* A thread has a reference from sleep's ++ref to sleeper_polling's --ref.
SleepRefs ==
    \A n \in Node :
        ref[n] = IF \/ Client(n) /\ pc[n] \in Masked
                    \/ n \in Asleep /\ ~ Waking(n)
                 THEN 1 ELSE 0

\* Whoever left SUSPEND is due, and stays so: the horizon of the clock lies
\* behind every wake time.
DueInv ==
    \A n \in Node :
        /\ wake[n] <= (Horizon - 1) * MsPerTick
        /\ pc[n] = "resume" /\ n \notin Asleep => wake[n] <= Millis

SleepInv ==
    /\ TypeInv
    /\ \A n \in Node : SleepPlace(n)
    /\ MaskInv /\ SleepQueues /\ SleepHand /\ AsleepInv /\ SleepWalk /\ SleepCpu /\ SleepRefs /\ DueInv

-----------------------------------------------------------------------------
(***************************************************************************)
(* The steps such threads take.                                            *)
(***************************************************************************)
\* thread_suspend on the caller, thread_wake on a thread that sleeps.
SuspendBody(n) ==
    /\ At(n, "body") /\ Unlink(n, "RUNNING") /\ Goto(n, "fix")
    /\ Local(n, [frame[n] EXCEPT !.nd = n])
    /\ UNCHANGED <<struct, tidmap, heap, cpu, lock, tick>>

WakeBody(x) ==
    /\ At(Sleeper, "body") /\ Unlink(x, "SUSPEND") /\ Goto(Sleeper, "link")
    /\ Local(Sleeper, [frame[Sleeper] EXCEPT !.nd = x])
    /\ UNCHANGED <<struct, tidmap, heap, cpu, lock, tick>>

\* pe_unlock at the end of each.
SuspendDone(n) ==
    /\ At(n, "unlock") /\ lock' = 0 /\ Goto(n, "yield")
    /\ UNCHANGED <<queues, struct, tidmap, heap, cpu, tick, frame>>

WakeDone ==
    /\ At(Sleeper, "unlock") /\ lock' = 0 /\ intr' = TRUE /\ Goto(Sleeper, "s_test")
    /\ Local(Sleeper, [NoCall EXCEPT !.nd = frame[Sleeper].nx])
    /\ UNCHANGED <<queues, struct, tidmap, heap, current, fix, tick>>

\* The end of sleep.
Back(n) ==
    /\ At(n, "resume") /\ lock' = 0 /\ Goto(n, "run") /\ Local(n, NoCall)
    /\ UNCHANGED <<queues, struct, tidmap, heap, cpu, tick>>

SleepNext ==
    \/ TimerIsr
    \/ \E n \in Node : /\ Client(n)
                       /\ \/ CallSleep(n) \/ Acquire(n) \/ Fix(n) \/ Link(n) \/ Push(n)
                          \/ SuspendDone(n) \/ Yield(n) \/ Back(n)
                          \/ n \in Queue("RUNNING") /\ SuspendBody(n)
    \/ Acquire(Sleeper) \/ Link(Sleeper) \/ Push(Sleeper) \/ WakeDone
    \/ \E x \in Asleep : Waking(x) /\ WakeBody(x)
    \/ CleanerStart \/ CleanerTest
    \/ SleeperStart \/ SleeperTest \/ SleeperDue \/ SleeperWake

\* The parts of the invariant.
LEMMA Parts ==
    ASSUME SleepInv
    PROVE  /\ TypeInv /\ ListsOK
           /\ head \in [Status -> Ptr] /\ next \in [Node -> Ptr] /\ status \in [Node -> Status]
           /\ tid \in [Node -> Tids] /\ wake \in [Node -> Nat] /\ ref \in [Node -> 0 .. RefMod - 1]
           /\ heap \subseteq Node /\ intr \in BOOLEAN /\ tick \in 0 .. Horizon
           /\ pc \in [Node -> PCs] /\ frame \in [Node -> Frame]
           /\ Status = {"RUNNING", "READY", "SUSPEND", "DIED"} /\ Threads \subseteq Node
           /\ Cleaner # Sleeper /\ Sleeper \in Booted
           /\ Asleep \subseteq Node /\ \A s \in Status : Queue(s) \subseteq Node
           /\ Queue("READY") = {} /\ Queue("DIED") = {}
<1>1. Threads \subseteq Node /\ Cleaner # Sleeper /\ Sleeper \in Booted
    BY BootType, Constants, ThreadAssumption DEF Threads, Booted
<1>2. Queue("READY") = {} /\ Queue("DIED") = {}
    BY QueueIs, ReachType DEF SleepInv, SleepQueues
<1> QED BY <1>1, <1>2 DEF SleepInv, SleepQueues, TypeInv, TypeOK, Status, Asleep, Queue, Reach

\* Threads that only sleep find nobody but themselves to suspend, never wait
\* for the lock, and sleeper_polling wakes the thread it looked at.
LEMMA SleepSteps ==
    ASSUME Sleepers, SleepInv, [Next]_vars
    PROVE  SleepNext \/ UNCHANGED vars
<1> USE Constants, Parts
<1>0. (\A n \in Node : SleepPlace(n)) /\ MaskInv /\ SleepQueues /\ AsleepInv /\ SleepWalk /\ SleepCpu
    BY DEF SleepInv
<1>1. ASSUME NEW n \in Node, Call(n) PROVE SleepNext
    BY <1>1 DEF Call, CallCreate, CallOp, CallSleep, Sleepers, SleepNext
<1>s. \A n \in Node : pc[n] \in {"lock", "body", "store", "inc", "fix", "drop", "drop2", "link", "push",
                                 "unlock", "poll", "dec", "dec2", "yield", "resume"}
        => /\ n # Cleaner
           /\ n = Sleeper => pc[n] \in {"lock", "body", "link", "push", "unlock"} /\ frame[n].op = "wake"
           /\ n # Sleeper => /\ Client(n) /\ pc[n] \in Masked \cup {"resume"}
                             /\ frame[n].op = "suspend" /\ frame[n].arg = tid[n]
                             /\ pc[n] \notin {"lock", "body"} => frame[n].nd = n
    BY <1>0 DEF SleepPlace, Client
<1>2. ASSUME NEW n \in Node, Acquire(n) \/ Fix(n) \/ Link(n) \/ Push(n) PROVE SleepNext
    <2>1. pc[n] \in {"lock", "fix", "link", "push"}
        BY <1>2 DEF Acquire, Fix, Link, Push, At
    <2>2. Fix(n) => n # Sleeper
        BY <1>s, <2>1 DEF Fix, At
    <2> QED BY <1>2, <1>s, <2>1, <2>2 DEF SleepNext
<1>3. ASSUME NEW n \in Node, Spin(n) PROVE FALSE
    <2>1. lock = 1 /\ pc[n] = "lock" /\ current = n
        BY <1>3 DEF Spin, At, SleepInv, TypeInv, TypeOK
    <2> QED BY <1>0, <2>1 DEF MaskInv, Crit
<1>4. ASSUME NEW n \in Node, Store(n) \/ Drop(n) \/ Drop2(n) \/ Inc(n) \/ Poll(n) \/ Dec(n) \/ Dec2(n)
      PROVE  FALSE
    <2>1. pc[n] \in {"store", "drop", "drop2", "inc", "poll", "dec", "dec2"}
        BY <1>4 DEF Store, Drop, Drop2, Inc, Poll, Dec, Dec2, At
    <2> QED BY <1>s, <2>1 DEF Masked
<1>5. ASSUME NEW n \in Node, Unlock(n) PROVE SleepNext
    <2>1. pc[n] = "unlock"
        BY <1>5 DEF Unlock, At
    <2>2. CASE n = Sleeper
        BY <1>5, <2>2 DEF Unlock, WakeDone, SleepNext
    <2>3. CASE n # Sleeper
        <3>1. frame[n].nd # NULL /\ Self(n) /\ frame[n].op # "wait" /\ Client(n)
            BY <1>s, <2>1, <2>3 DEF Self
        <3>2. SuspendDone(n)
            BY <1>5, <2>3, <3>1 DEF Unlock, SuspendDone, cpu
        <3> QED BY <3>1, <3>2 DEF SleepNext
    <2> QED BY <2>2, <2>3
<1>6. ASSUME NEW n \in Node, Yield(n) \/ Resume(n) PROVE SleepNext
    <2>1. pc[n] \in {"yield", "resume"}
        BY <1>6 DEF Yield, Resume, At
    <2>2. Client(n) /\ frame[n].op = "suspend"
        BY <1>s, <2>1
    <2>3. Resume(n) => Back(n)
        BY <2>2 DEF Resume, Back, Return, cpu
    <2> QED BY <1>6, <2>2, <2>3 DEF SleepNext
<1>7. ASSUME NEW n \in Node, Body(n) PROVE SleepNext
    <2>1. current = n /\ pc[n] = "body"
        BY <1>7 DEF Body, At
    <2>2. frame[n].op \in {"wake", "suspend"} /\ MoveBody(n) /\ At(n, "body")
        BY <1>7, <1>s, <2>1 DEF Body
    <2> DEFINE s == Source(frame[n].op, frame[n].arg)
               m == FindByTid(frame[n].arg, s)
    <2>3. CASE n = Sleeper
        <3>1. PICK x \in Asleep : Waking(x)
            BY <1>0, <2>1, <2>3 DEF SleepWalk
        <3>2. frame[n].op = "wake" /\ frame[n].arg = tid[x]
            BY <1>s, <2>1, <2>3, <3>1 DEF Waking
        <3>3. FindByTid(tid[x], "READY") = NULL
            BY FindIn
        <3>4. s = "SUSPEND"
            BY <3>2, <3>3 DEF Source, First, Second
        <3>5. FindByTid(tid[x], "SUSPEND") = x
            <4>1. FindByTid(tid[x], "SUSPEND") # NULL
                BY FindIn DEF Asleep
            <4>2. /\ FindByTid(tid[x], "SUSPEND") \in Queue("SUSPEND")
                  /\ tid[FindByTid(tid[x], "SUSPEND")] = tid[x]
                BY <4>1, FindIn
            <4> QED BY <1>0, <4>2 DEF SleepQueues, Asleep
        <3>6. m = x /\ x # NULL /\ ~ Self(n)
            BY <3>2, <3>4, <3>5 DEF Asleep, Self
        <3> HIDE DEF m, s
        <3>7. WakeBody(x)
            BY <2>2, <2>3, <3>2, <3>4, <3>6 DEF MoveBody, WakeBody, m, s
        <3> QED BY <3>1, <3>7 DEF SleepNext
    <2>4. CASE n # Sleeper
        <3>1. frame[n].op = "suspend" /\ frame[n].arg = tid[n] /\ Client(n) /\ Self(n)
            BY <1>s, <2>1, <2>4 DEF Self
        <3>2. n \in Queue("RUNNING")
            BY <1>0, <2>1 DEF SleepCpu, Leaving
        <3>3. FindByTid(tid[n], "RUNNING") = n
            <4>1. FindByTid(tid[n], "RUNNING") # NULL
                BY <3>2, FindIn
            <4>2. /\ FindByTid(tid[n], "RUNNING") \in Queue("RUNNING")
                  /\ tid[FindByTid(tid[n], "RUNNING")] = tid[n]
                BY <4>1, FindIn
            <4> QED BY <1>0, <3>2, <4>2 DEF SleepQueues
        <3>4. s = "RUNNING"
            BY <3>1 DEF Source, First, Second
        <3>5. m = n /\ n # NULL
            BY <3>1, <3>3, <3>4
        <3> HIDE DEF m, s
        <3>6. SuspendBody(n)
            BY <2>2, <3>1, <3>4, <3>5 DEF MoveBody, SuspendBody, m, s
        <3> QED BY <3>1, <3>2, <3>6 DEF SleepNext
    <2> QED BY <2>3, <2>4
<1>8. ASSUME CleanerStep \/ SleeperStep PROVE SleepNext
    <2>1. ~ CleanerReap /\ ~ CleanerFree
        BY <1>0 DEF CleanerReap, CleanerFree, At, SleepPlace
    <2> QED BY <1>8, <2>1 DEF CleanerStep, SleeperStep, SleepNext
<1> QED BY <1>1, <1>2, <1>3, <1>4, <1>5, <1>6, <1>7, <1>8 DEF Next, Run, Step, SleepNext

-----------------------------------------------------------------------------
(***************************************************************************)
(* The queues.                                                             *)
(***************************************************************************)
\* A queue is closed under `next', and its head is on it.
LEMMA Closed ==
    ASSUME SleepInv, NEW s \in Status
    PROVE  /\ \A a \in Queue(s) : next[a] \in Queue(s) \cup {NULL}
           /\ Queue(s) # {} => head[s] \in Queue(s)
<1>1. next \in Links /\ head[s] \in Ptr /\ Queue(s) = ReachIn(next, head[s])
    BY Parts, LinkTypes, QueueIs
<1> QED BY <1>1, ReachClosed, ReachSelf, ReachType DEF ClosedIn, Ptr

\* Nothing on SUSPEND points back to itself, and nobody on two queues.
LEMMA Behind ==
    ASSUME SleepInv, NEW s \in Status, NEW a \in Queue(s)
    PROVE  next[a] # a /\ \A r \in Status : a \in Queue(r) => r = s
<1>1. next \in Links /\ head[s] \in Ptr /\ Queue(s) = ReachIn(next, head[s]) /\ Proper(next, head[s])
    BY Parts, LinkTypes, QueueIs DEF ListsOK
<1>2. next[a] # a
    <2>1. a \notin ReachIn(next, next[a]) /\ a \in Node
        BY <1>1, NoCycle, ReachType
    <2> QED BY <2>1, ReachSelf
<1> QED BY <1>2, Parts DEF ListsOK

\* Steps that touch no link, head or status.
LEMMA QuietEffect ==
    ASSUME SleepInv, UNCHANGED <<head, next, status, heap, tid>>
    PROVE  SleepQueues' /\ Asleep' = Asleep /\ \A s \in Status : Queue(s)' = Queue(s)
<1>1. \A s : Queue(s)' = Queue(s)
    BY SameQueues
<1>2. \A s \in Status : Proper(next', head'[s])
    BY Parts DEF ListsOK
<1>3. ListsOK'
    BY <1>1, <1>2, Parts DEF ListsOK
<1> QED BY <1>1, <1>3 DEF SleepInv, SleepQueues, Asleep

\* A thread takes itself out of RUNNING.
LEMMA SuspendEffect ==
    ASSUME SleepInv, NEW n \in Queue("RUNNING"), Client(n), SuspendBody(n)
    PROVE  /\ SleepQueues' /\ Queue("RUNNING")' = Queue("RUNNING") \ {n} /\ Asleep' = Asleep
           /\ \A s \in Status : n \notin Queue(s)' /\ Queue(s)' \subseteq Queue(s)
           /\ next'[n] = next[n] /\ next[n] \in (Queue("RUNNING") \ {n}) \cup {NULL}
           /\ \A a \in Asleep : next'[a] = next[a]
<1> USE Parts
<1>1. /\ Queue("RUNNING")' = Queue("RUNNING") \ {n}
      /\ \A r \in Status \ {"RUNNING"} : Queue(r)' = Queue(r)
      /\ \A r \in Status : Proper(next', head'[r])
      /\ next'[n] = next[n]
      /\ \A a \in Node \ Queue("RUNNING") : next'[a] = next[a]
    BY UnlinkEffect DEF SuspendBody
<1>2. UNCHANGED <<status, tid, heap>>
    BY DEF SuspendBody, struct
<1>3. ListsOK'
    BY <1>1, <1>2 DEF ListsOK
<1>4. head' = head \/ head' = [head EXCEPT !["RUNNING"] = next[n]]
    BY DEF SuspendBody, Unlink
<1>5. SleepQueues'
    BY <1>1, <1>2, <1>3, <1>4 DEF SleepInv, SleepQueues, Client
<1>6. \A s \in Status : n \in Queue(s) => s = "RUNNING"
    BY Behind
<1>7. next[n] \in (Queue("RUNNING") \ {n}) \cup {NULL}
    BY Behind, Closed
<1>8. \A a \in Asleep : a \in Node \ Queue("RUNNING")
    BY Behind DEF Asleep
<1> QED BY <1>1, <1>5, <1>6, <1>7, <1>8 DEF Asleep

\* sleeper_polling takes a thread out of SUSPEND.
LEMMA WakeEffect ==
    ASSUME SleepInv, NEW x \in Asleep, WakeBody(x)
    PROVE  /\ SleepQueues' /\ Queue("RUNNING")' = Queue("RUNNING") /\ Asleep' = Asleep \ {x}
           /\ \A s \in Status : x \notin Queue(s)'
           /\ next[x] \in (Asleep \ {x}) \cup {NULL}
<1> USE Parts
<1>1. /\ Queue("SUSPEND")' = Queue("SUSPEND") \ {x}
      /\ \A r \in Status \ {"SUSPEND"} : Queue(r)' = Queue(r)
      /\ \A r \in Status : Proper(next', head'[r])
    BY UnlinkEffect DEF WakeBody, Asleep
<1>2. UNCHANGED <<status, tid, heap>>
    BY DEF WakeBody, struct
<1>3. ListsOK'
    BY <1>1, <1>2 DEF ListsOK
<1>4. head' = head \/ head' = [head EXCEPT !["SUSPEND"] = next[x]]
    BY DEF WakeBody, Unlink
<1>5. SleepQueues'
    BY <1>1, <1>2, <1>3, <1>4 DEF SleepInv, SleepQueues
<1>6. \A s \in Status : x \in Queue(s) => s = "SUSPEND"
    BY Behind DEF Asleep
<1>7. next[x] \in (Asleep \ {x}) \cup {NULL}
    BY Behind, Closed DEF Asleep
<1> QED BY <1>1, <1>5, <1>6, <1>7 DEF Asleep

\* The node in hand gets its status and its link.
LEMMA LinkEffect ==
    ASSUME SleepInv, NEW n \in Node, Link(n)
    PROVE  /\ SleepQueues' /\ Asleep' = Asleep /\ \A s \in Status : Queue(s)' = Queue(s)
           /\ \A a \in Asleep : next'[a] = next[a]
           /\ next'[frame[n].nd] = head[Target(frame[n].op)]
           /\ status'[frame[n].nd] = Target(frame[n].op)
<1> USE Parts
<1>1. PICK m \in Node : m = frame[n].nd /\ (\A s \in Status : m \notin Queue(s))
    BY DEF Link, At, SleepInv, SleepHand
<1>2. Target(frame[n].op) \in Status /\ head[Target(frame[n].op)] \in Ptr
    BY DEF Target
<1>3. /\ next' \in Links /\ (\A a \in Node \ {m} : next'[a] = next[a] /\ status'[a] = status[a])
      /\ UNCHANGED <<head, tid, heap>>
      /\ next'[m] = head[Target(frame[n].op)] /\ status'[m] = Target(frame[n].op)
    BY <1>1, <1>2 DEF Link, Links
<1>4. \A s \in Status : Queue(s)' = Queue(s) /\ Proper(next', head'[s])
    BY <1>1, <1>3, OffQueue
<1>5. ListsOK'
    BY <1>1, <1>3, <1>4 DEF ListsOK
<1>6. SleepQueues'
    BY <1>3, <1>4, <1>5 DEF SleepInv, SleepQueues
<1> QED BY <1>1, <1>3, <1>4, <1>6 DEF Asleep

\* The node in hand becomes the head of its queue.
LEMMA PushedEffect ==
    ASSUME SleepInv, NEW n \in Node, Push(n), frame[n].op \in {"suspend", "wake"}
    PROVE  /\ SleepQueues'
           /\ \E s \in Status : /\ s = Target(frame[n].op)
                               /\ Queue(s)' = Queue(s) \cup {frame[n].nd}
                               /\ \A r \in Status \ {s} : Queue(r)' = Queue(r)
<1> USE Parts
<1>1. PICK m \in Node, s \in {"RUNNING", "SUSPEND"} :
         /\ m = frame[n].nd /\ s = Target(frame[n].op) /\ m \in Threads
         /\ next[m] = head[s] /\ status[m] = s
         /\ \A r \in Status : m \notin Queue(r)
    BY DEF Push, At, SleepInv, SleepHand, Target
<1>2. head' = [head EXCEPT ![s] = m] /\ UNCHANGED <<next, status, tid, heap>>
    BY <1>1 DEF Push, struct
<1>3. /\ Queue(s)' = Queue(s) \cup {m}
      /\ \A r \in Status \ {s} : Queue(r)' = Queue(r)
      /\ \A r \in Status : Proper(next', head'[r])
    BY <1>1, <1>2, PushEffect
<1>4. ListsOK'
    BY <1>1, <1>2, <1>3 DEF ListsOK
<1>5. SleepQueues'
    BY <1>1, <1>2, <1>3, <1>4 DEF SleepInv, SleepQueues
<1> QED BY <1>1, <1>3, <1>5

\* The scheduler's choice is on RUNNING.
LEMMA SleepNextOnRunning == SleepInv => SchedulerSound
<1> SUFFICES ASSUME SleepInv PROVE NextThread \in Queue("RUNNING") /\ Cleaner \in Queue("RUNNING")
    BY DEF SchedulerSound
<1>1. "RUNNING" \in Status /\ Cleaner \in Queue("RUNNING") /\ SleepCpu
    BY Parts DEF SleepInv, SleepQueues
<1>2. head["RUNNING"] \in Queue("RUNNING") /\ \A a \in Queue("RUNNING") : next[a] \in Queue("RUNNING") \cup {NULL}
    BY <1>1, Closed
<1>3. CASE current \in Queue("RUNNING")
    BY <1>1, <1>2, <1>3, Constants DEF SleepCpu, NextThread
<1>4. CASE current \notin Queue("RUNNING")
    <2>1. \/ fix = NULL /\ next[current] \in Queue("RUNNING") \cup {NULL}
          \/ fix \in Queue("RUNNING")
        BY <1>1, <1>4 DEF SleepCpu
    <2>2. NULL \notin Queue("RUNNING")
        BY <1>1, Parts, Constants
    <2> QED BY <1>1, <1>2, <2>1, <2>2 DEF NextThread
<1> QED BY <1>3, <1>4

-----------------------------------------------------------------------------
(***************************************************************************)
(* The clock.                                                              *)
(***************************************************************************)
\* A time that has come stays past.
LEMMA DueKept ==
    ASSUME TypeInv, NEW w \in Nat, w <= (Horizon - 1) * MsPerTick, w <= Millis,
           Tick \/ UNCHANGED tick
    PROVE  w <= Millis'
<1>1. tick \in Nat /\ MsPerTick \in Nat /\ Horizon \in Nat /\ Horizon > 1
    BY ThreadAssumption DEF TypeInv, TypeOK
<1>2. tick' = tick \/ tick' = tick + 1 \/ tick' = Horizon - 1
    BY <1>1 DEF Tick
<1>3. (tick + 1) * MsPerTick = tick * MsPerTick + MsPerTick /\ tick * MsPerTick \in Nat
    BY <1>1
<1>4. CASE tick' = Horizon - 1
    BY <1>4 DEF Millis
<1>5. CASE tick' = tick
    BY <1>5 DEF Millis
<1>6. CASE tick' = tick + 1
    <2>1. Millis' = Millis + MsPerTick /\ Millis \in Nat
        BY <1>3, <1>6 DEF Millis
    <2> QED BY <1>1, <2>1
<1> QED BY <1>2, <1>4, <1>5, <1>6

-----------------------------------------------------------------------------
(***************************************************************************)
(* The steps.                                                              *)
(***************************************************************************)
\* What a step keeps besides the types and the queues.
Kept ==
    /\ \A n \in Node : SleepPlace(n)
    /\ MaskInv /\ SleepHand /\ AsleepInv /\ SleepWalk /\ SleepCpu /\ SleepRefs /\ DueInv

\* Critical sections are masked.
LEMMA CritMasked ==
    ASSUME SleepInv, NEW n \in Node, Crit(n)
    PROVE  pc[n] \in Masked
<1>1. SleepPlace(n)
    BY DEF SleepInv
<1> QED BY <1>1 DEF SleepPlace, Crit, Masked, Client

\* When nobody is masked, the lock is free and the current thread on RUNNING.
LEMMA Open ==
    ASSUME SleepInv, intr \/ pc[current] \notin Masked
    PROVE  /\ \A n \in Node : pc[n] \notin Masked
           /\ \A n \in Node : ~ Crit(n)
           /\ lock = 0 /\ current \in Queue("RUNNING") /\ fix = NULL
<1>0. MaskInv /\ SleepCpu /\ lock \in {0, 1}
    BY DEF SleepInv, TypeInv, TypeOK
<1>1. \A n \in Node : pc[n] \notin Masked
    BY <1>0 DEF MaskInv
<1>2. current \in Node
    BY <1>0 DEF SleepCpu
<1>3. lock = 0 /\ \A n \in Node : ~ Crit(n)
    BY <1>0, <1>1, <1>2, CritMasked DEF MaskInv
<1> QED BY <1>0, <1>1, <1>2, <1>3 DEF SleepCpu, Leaving, Masked

\* The timer's interrupt.
LEMMA TimerStep ==
    ASSUME SleepInv, TimerIsr
    PROVE  Kept'
<1> USE Parts
<1>0. (\A n \in Node : SleepPlace(n)) /\ SleepHand /\ AsleepInv /\ SleepWalk /\ SleepRefs /\ DueInv /\ SleepQueues
    BY DEF SleepInv
<1>1. /\ UNCHANGED <<head, next, status, tid, wake, ref, heap, lock, pc, frame>> /\ intr /\ Tick
      /\ \/ UNCHANGED <<current, fix, intr>>
         \/ current' = NextThread /\ fix' = NULL /\ intr' = TRUE
    BY DEF TimerIsr, queues, struct, cpu, Switch
<1>2. Asleep' = Asleep /\ \A s \in Status : Queue(s)' = Queue(s)
    BY <1>1, QuietEffect
<1>3. (\A n \in Node : pc[n] \notin Masked /\ ~ Crit(n)) /\ lock = 0 /\ current \in Queue("RUNNING") /\ fix = NULL
    BY <1>1, Open
<1>4. current' \in Queue("RUNNING") /\ fix' = NULL
    BY <1>1, <1>3, SleepNextOnRunning DEF SchedulerSound
<1>5. \A x \in Node : wake[x] <= Millis => wake'[x] <= Millis'
    BY <1>0, <1>1, DueKept DEF DueInv
<1>6. \A n \in Node : SleepPlace(n)'
    BY <1>0, <1>1 DEF SleepPlace
<1>7. MaskInv'
    BY <1>1, <1>3 DEF MaskInv, Crit
<1>8. SleepHand'
    BY <1>0, <1>1, <1>2 DEF SleepHand
<1>9. AsleepInv'
    BY <1>0, <1>1, <1>2 DEF AsleepInv
<1>10. SleepWalk'
    BY <1>0, <1>1, <1>2, <1>3, <1>5, Constants DEF SleepWalk, Asleep, Masked
<1>11. SleepCpu'
    BY <1>1, <1>2, <1>4 DEF SleepCpu
<1>12. SleepRefs'
    BY <1>0, <1>1, <1>2 DEF SleepRefs, Waking
<1>13. DueInv'
    BY <1>0, <1>1, <1>2, <1>5 DEF DueInv
<1> QED BY <1>6, <1>7, <1>8, <1>9, <1>10, <1>11, <1>12, <1>13 DEF Kept

\* Nothing happens.
LEMMA StutterStep ==
    ASSUME SleepInv, UNCHANGED vars
    PROVE  Kept'
<1>1. \A s : Queue(s)' = Queue(s)
    BY SameQueues DEF vars
<1>2. Asleep' = Asleep
    BY <1>1 DEF Asleep
<1> USE DEF vars
<1>3. \A n \in Node : SleepPlace(n)'
    BY DEF SleepInv, SleepPlace
<1>4. MaskInv'
    BY DEF SleepInv, MaskInv, Crit
<1>5. SleepHand'
    BY <1>1 DEF SleepInv, SleepHand
<1>6. AsleepInv'
    BY <1>2 DEF SleepInv, AsleepInv
<1>7. SleepWalk'
    BY <1>2 DEF SleepInv, SleepWalk, Waking, Millis
<1>8. SleepCpu'
    BY <1>1 DEF SleepInv, SleepCpu
<1>9. SleepRefs'
    BY <1>2 DEF SleepInv, SleepRefs, Waking
<1>10. DueInv'
    BY <1>2 DEF SleepInv, DueInv, Millis
<1> QED BY <1>3, <1>4, <1>5, <1>6, <1>7, <1>8, <1>9, <1>10 DEF Kept

\* sleep begins.
LEMMA CallStep ==
    ASSUME Sleepers, SleepInv, NEW n \in Node, Client(n), CallSleep(n)
    PROVE  Kept'
<1> USE Parts
<1>0. (\A k \in Node : SleepPlace(k)) /\ SleepHand /\ AsleepInv /\ SleepWalk /\ SleepRefs /\ DueInv /\ SleepQueues
    BY DEF SleepInv
<1>1. current = n /\ pc[n] = "run"
    BY DEF CallSleep, At
<1>2. /\ UNCHANGED <<head, next, status, tid, heap, current, fix, lock, tick>>
      /\ intr' = FALSE /\ pc'[n] = "lock" /\ ref'[n] = (ref[n] + 1) % RefMod
      /\ frame'[n] = [NoCall EXCEPT !.op = "suspend", !.arg = tid[n]]
      /\ \A k \in Node \ {n} : /\ pc'[k] = pc[k] /\ frame'[k] = frame[k] /\ ref'[k] = ref[k]
                               /\ wake'[k] = wake[k]
    BY DEF CallSleep, Goto, Local, queues
<1>3. frame'[n].op = "suspend" /\ frame'[n].arg = tid[n]
    BY <1>2 DEF NoCall
<1>4. wake'[n] <= (Horizon - 1) * MsPerTick
    <2>1. PICK ms \in SleepMs :
             /\ Millis + ms <= (Horizon - 1) * MsPerTick \/ ms > Horizon * MsPerTick
             /\ wake' = [wake EXCEPT ![n] = Millis + ms]
        BY DEF CallSleep
    <2>2. ms \in Nat /\ Horizon * MsPerTick \in Nat /\ ms <= Horizon * MsPerTick
        BY ThreadAssumption DEF Sleepers
    <2>3. ~ (ms > Horizon * MsPerTick)
        BY <2>2
    <2>4. wake'[n] = Millis + ms
        BY <2>1, Parts DEF TypeInv, TypeOK
    <2> QED BY <2>1, <2>3, <2>4
<1>5. Asleep' = Asleep /\ \A s \in Status : Queue(s)' = Queue(s)
    BY <1>2, QuietEffect
<1>6. (\A k \in Node : pc[k] \notin Masked /\ ~ Crit(k)) /\ lock = 0 /\ n \in Queue("RUNNING") /\ fix = NULL
    BY <1>1, Open DEF Masked
<1>7. n \notin Asleep /\ n # Sleeper /\ n # Cleaner
    BY <1>6, Behind DEF Asleep, Client
<1>8. ASSUME NEW k \in Node PROVE SleepPlace(k)'
    <2>1. CASE k = n
        BY <1>2, <1>3, <1>7, <2>1 DEF SleepPlace, Masked
    <2>2. CASE k # n
        BY <1>0, <1>2, <2>2 DEF SleepPlace
    <2> QED BY <2>1, <2>2
<1>9. MaskInv'
    <2>1. \A k \in Node : ~ Crit(k)'
        BY <1>2, <1>6 DEF Crit
    <2> QED BY <1>1, <1>2, <1>6, <2>1 DEF MaskInv
<1>10. SleepHand'
    BY <1>2, <1>6 DEF SleepHand, Masked
<1>11. AsleepInv'
    BY <1>0, <1>2, <1>5, <1>7 DEF AsleepInv
<1>12. SleepWalk'
    <2>1. pc'[Sleeper] = pc[Sleeper] /\ frame'[Sleeper] = frame[Sleeper] /\ pc[Sleeper] \notin Masked
        BY <1>2, <1>6, <1>7, Constants
    <2>2. \A x \in Asleep : wake'[x] = wake[x] /\ next'[x] = next[x]
        BY <1>2, <1>7 DEF Asleep
    <2> QED BY <1>0, <1>2, <1>5, <2>1, <2>2 DEF SleepWalk, Masked, Millis
<1>13. SleepCpu'
    BY <1>1, <1>2, <1>5, <1>6 DEF SleepCpu
<1>14. SleepRefs'
    <2>1. pc'[Sleeper] = pc[Sleeper] /\ frame'[Sleeper] = frame[Sleeper]
        BY <1>2, <1>7, Constants
    <2>2. ref[n] = 0 /\ ref'[n] = 1
        <3>1. ref[n] = 0
            BY <1>0, <1>6, <1>7 DEF SleepRefs
        <3> QED BY <1>2, <3>1, Constants
    <2>3. ASSUME NEW k \in Node, k # n
          PROVE  ref'[k] = IF (Client(k) /\ pc'[k] \in Masked) \/ (k \in Asleep' /\ ~ Waking(k)') THEN 1 ELSE 0
        BY <1>0, <1>2, <1>5, <2>1, <2>3 DEF SleepRefs, Waking
    <2> QED BY <1>2, <2>2, <2>3 DEF SleepRefs, Masked
<1>15. DueInv'
    BY <1>0, <1>2, <1>4, <1>5 DEF DueInv, Millis
<1> QED BY <1>8, <1>9, <1>10, <1>11, <1>12, <1>13, <1>14, <1>15 DEF Kept

\* What a thread with interrupts off leaves alone when it goes from one
\* masked place to another and touches no queue, no clock and no count.
LEMMA MaskedStep ==
    ASSUME SleepInv, NEW n \in Node, current = n, pc[n] \in Masked, pc'[n] \in Masked,
           \A k \in Node \ {n} : pc'[k] = pc[k],
           UNCHANGED <<frame, next, tid, wake, ref, tick, current, intr>>
    PROVE  /\ \A k \in Node : pc'[k] \in Masked => current' = k /\ ~ intr'
           /\ \A k \in Node : ref[k] = ref'[k] /\ wake'[k] = wake[k]
           /\ \A k \in Node \ {n} : pc[k] \notin Masked /\ pc'[k] \notin Masked /\ ~ Crit(k) /\ ~ Crit(k)'
<1>1. MaskInv
    BY DEF SleepInv
<1>2. \A k \in Node \ {n} : pc[k] \notin Masked /\ ~ Crit(k)
    BY <1>1, CritMasked DEF MaskInv
<1>3. \A k \in Node \ {n} : ~ Crit(k)'
    BY <1>2 DEF Crit
<1> QED BY <1>1, <1>2, <1>3 DEF MaskInv

\* pe_lock finds the lock free.
LEMMA AcquireStep ==
    ASSUME SleepInv, NEW n \in Node, Acquire(n)
    PROVE  Kept'
<1> USE Parts
<1>0. (\A k \in Node : SleepPlace(k)) /\ SleepHand /\ AsleepInv /\ SleepWalk /\ SleepRefs /\ DueInv /\ SleepQueues /\ SleepCpu
    BY DEF SleepInv
<1>1. current = n /\ pc[n] = "lock"
    BY DEF Acquire, At
<1>2. /\ UNCHANGED <<head, next, status, tid, heap, current, fix, intr, tick, wake, ref, frame>>
      /\ pc'[n] = "body" /\ lock' = 1
      /\ \A k \in Node \ {n} : pc'[k] = pc[k]
    BY DEF Acquire, Goto, queues, struct, cpu
<1>3. pc[n] \in Masked /\ pc'[n] \in Masked
    BY <1>1, <1>2 DEF Masked
<1>4. /\ \A k \in Node : pc'[k] \in Masked => current' = k /\ ~ intr'
      /\ \A k \in Node \ {n} : pc[k] \notin Masked /\ pc'[k] \notin Masked /\ ~ Crit(k) /\ ~ Crit(k)'
    BY <1>1, <1>2, <1>3, MaskedStep
<1>5. Asleep' = Asleep /\ \A s \in Status : Queue(s)' = Queue(s)
    BY <1>2, QuietEffect
<1>6. \A k \in Node : SleepPlace(k)'
    BY <1>0, <1>1, <1>2 DEF SleepPlace, Masked
<1>7. MaskInv'
    <2>1. Crit(n)'
        BY <1>2 DEF Crit
    <2> QED BY <1>1, <1>2, <1>4, <2>1 DEF MaskInv
<1>8. SleepHand'
    BY <1>2, <1>4 DEF SleepHand, Masked
<1>9. AsleepInv'
    BY <1>0, <1>1, <1>2, <1>5 DEF AsleepInv
<1>10. pc'[Sleeper] = pc[Sleeper] \/ (pc[Sleeper] = "lock" /\ pc'[Sleeper] = "body")
    BY <1>1, <1>2, Constants
<1>11. SleepWalk'
    BY <1>0, <1>2, <1>5, <1>10 DEF SleepWalk, Waking, Millis
<1>12. SleepCpu'
    BY <1>0, <1>1, <1>2, <1>5 DEF SleepCpu, Leaving
<1>13. SleepRefs'
    <2>1. \A k \in Node : pc'[k] \in Masked <=> pc[k] \in Masked
        BY <1>2, <1>3
    <2>2. \A k \in Node : Waking(k)' <=> Waking(k)
        BY <1>2, <1>10 DEF Waking
    <2> QED BY <1>0, <1>2, <1>5, <2>1, <2>2 DEF SleepRefs
<1>14. DueInv'
    BY <1>0, <1>1, <1>2, <1>5 DEF DueInv, Millis
<1> QED BY <1>6, <1>7, <1>8, <1>9, <1>11, <1>12, <1>13, <1>14 DEF Kept

\* thread_suspend takes the caller out of RUNNING.
LEMMA SuspendStep ==
    ASSUME SleepInv, NEW n \in Queue("RUNNING"), Client(n), SuspendBody(n)
    PROVE  Kept'
<1> USE Parts
<1>0. (\A k \in Node : SleepPlace(k)) /\ SleepHand /\ AsleepInv /\ SleepWalk /\ SleepRefs /\ DueInv /\ SleepQueues /\ SleepCpu
    BY DEF SleepInv
<1>1. n \in Node /\ current = n /\ pc[n] = "body" /\ n # Sleeper /\ n # Cleaner
    BY DEF SuspendBody, At, Client
<1>2. /\ UNCHANGED <<status, tid, heap, current, fix, intr, tick, wake, ref, lock>>
      /\ pc'[n] = "fix" /\ frame'[n] = [frame[n] EXCEPT !.nd = n]
      /\ \A k \in Node \ {n} : pc'[k] = pc[k] /\ frame'[k] = frame[k]
    BY <1>1 DEF SuspendBody, Goto, Local, struct, cpu
<1>3. frame'[n].nd = n /\ frame'[n].op = frame[n].op /\ frame'[n].arg = frame[n].arg
    BY <1>1, <1>2 DEF Frame
<1>4. /\ Queue("RUNNING")' = Queue("RUNNING") \ {n} /\ Asleep' = Asleep
      /\ \A s \in Status : n \notin Queue(s)'
      /\ next'[n] = next[n] /\ next[n] \in (Queue("RUNNING") \ {n}) \cup {NULL}
      /\ \A a \in Asleep : next'[a] = next[a]
    BY SuspendEffect
<1>5. MaskInv /\ lock = 1 /\ ~ intr /\ \A k \in Node \ {n} : pc[k] \notin Masked /\ ~ Crit(k)
    <2>1. MaskInv /\ pc[n] \in Masked /\ Crit(n)
        BY <1>1 DEF SleepInv, Masked, Crit
    <2> QED BY <1>1, <2>1, CritMasked DEF MaskInv
<1>6. ASSUME NEW k \in Node PROVE SleepPlace(k)'
    <2>1. CASE k = n
        BY <1>0, <1>1, <1>2, <1>3, <2>1 DEF SleepPlace, Masked, Client
    <2>2. CASE k # n
        BY <1>0, <1>2, <2>2 DEF SleepPlace
    <2> QED BY <2>1, <2>2
<1>7. MaskInv'
    <2>1. Crit(n)' /\ \A k \in Node \ {n} : ~ Crit(k)'
        BY <1>2, <1>5 DEF Crit
    <2> QED BY <1>1, <1>2, <1>5, <2>1 DEF MaskInv, Masked
<1>8. SleepHand'
    <2>1. n \in Threads \ {Cleaner, Sleeper}
        BY <1>0, <1>1 DEF SleepQueues
    <2>2. \A k \in Node : pc'[k] \in {"fix", "link", "push"} => k = n /\ pc'[k] # "push"
        BY <1>2, <1>5 DEF Masked
    <2> QED BY <1>3, <1>4, <2>1, <2>2 DEF SleepHand
<1>9. n \notin Asleep
    BY Behind DEF Asleep
<1>10. AsleepInv'
    BY <1>0, <1>2, <1>4, <1>9 DEF AsleepInv
<1>11. pc'[Sleeper] = pc[Sleeper] /\ frame'[Sleeper] = frame[Sleeper]
    BY <1>1, <1>2, Constants
<1>12. SleepWalk'
    BY <1>0, <1>2, <1>4, <1>11 DEF SleepWalk, Waking, Millis
<1>13. SleepCpu'
    BY <1>0, <1>1, <1>2, <1>4 DEF SleepCpu, Leaving
<1>14. SleepRefs'
    <2>1. \A k \in Node : pc'[k] \in Masked <=> pc[k] \in Masked
        BY <1>1, <1>2 DEF Masked
    <2>2. \A k \in Node : Waking(k)' <=> Waking(k)
        BY <1>2, <1>11 DEF Waking
    <2> QED BY <1>0, <1>2, <1>4, <2>1, <2>2 DEF SleepRefs
<1>15. DueInv'
    BY <1>0, <1>2, <1>4 DEF DueInv, Millis
<1> QED BY <1>6, <1>7, <1>8, <1>10, <1>12, <1>13, <1>14, <1>15 DEF Kept

\* It names its successor.
LEMMA FixStep ==
    ASSUME SleepInv, NEW n \in Node, Client(n), Fix(n)
    PROVE  Kept'
<1> USE Parts
<1>0. (\A k \in Node : SleepPlace(k)) /\ SleepHand /\ AsleepInv /\ SleepWalk /\ SleepRefs /\ DueInv /\ SleepQueues /\ SleepCpu
    BY DEF SleepInv
<1>1. current = n /\ pc[n] = "fix" /\ n # Sleeper /\ n # Cleaner
    BY DEF Fix, At, Client
<1>2. frame[n].op = "suspend" /\ frame[n].nd = n
    BY <1>0, <1>1 DEF SleepPlace
<1>3. /\ UNCHANGED <<head, next, status, tid, heap, current, intr, tick, wake, ref, lock, frame>>
      /\ pc'[n] = "link" /\ \A k \in Node \ {n} : pc'[k] = pc[k]
      /\ fix' = IF next[n] # NULL THEN next[n] ELSE head["RUNNING"]
    BY <1>2 DEF Fix, Goto, queues, struct
<1>4. pc[n] \in Masked /\ pc'[n] \in Masked
    BY <1>1, <1>3 DEF Masked
<1>5. /\ \A k \in Node : pc'[k] \in Masked => current' = k /\ ~ intr'
      /\ \A k \in Node \ {n} : pc[k] \notin Masked /\ pc'[k] \notin Masked /\ ~ Crit(k) /\ ~ Crit(k)'
    BY <1>1, <1>3, <1>4, MaskedStep
<1>6. Asleep' = Asleep /\ \A s \in Status : Queue(s)' = Queue(s)
    BY <1>3, QuietEffect
<1>7. \A k \in Node : SleepPlace(k)'
    BY <1>0, <1>1, <1>2, <1>3 DEF SleepPlace, Masked
<1>8. MaskInv'
    <2>1. Crit(n) /\ Crit(n)'
        BY <1>1, <1>3 DEF Crit
    <2> QED BY <1>1, <1>3, <1>5, <2>1 DEF SleepInv, MaskInv
<1>9. SleepHand'
    BY <1>0, <1>1, <1>3, <1>5, <1>6 DEF SleepHand, Masked
<1>10. AsleepInv'
    BY <1>0, <1>1, <1>3, <1>6 DEF AsleepInv
<1>11. pc'[Sleeper] = pc[Sleeper]
    BY <1>1, <1>3, Constants
<1>12. SleepWalk'
    BY <1>0, <1>3, <1>6, <1>11 DEF SleepWalk, Waking, Millis
<1>13. SleepCpu'
    <2>1. n \notin Queue("RUNNING")
        BY <1>0, <1>1, <1>2 DEF SleepHand
    <2>2. next[n] \in Queue("RUNNING") \cup {NULL}
        BY <1>0, <1>1, <2>1 DEF SleepCpu
    <2>3. head["RUNNING"] \in Queue("RUNNING")
        BY <1>0, Closed DEF SleepQueues
    <2>4. fix' \in Queue("RUNNING")
        BY <1>3, <2>2, <2>3
    <2> QED BY <1>1, <1>3, <1>6, <2>1, <2>4 DEF SleepCpu, Leaving
<1>14. SleepRefs'
    <2>1. \A k \in Node : pc'[k] \in Masked <=> pc[k] \in Masked
        BY <1>3, <1>4
    <2>2. \A k \in Node : Waking(k)' <=> Waking(k)
        BY <1>3, <1>11 DEF Waking
    <2> QED BY <1>0, <1>3, <1>6, <2>1, <2>2 DEF SleepRefs
<1>15. DueInv'
    BY <1>0, <1>1, <1>3, <1>6 DEF DueInv, Millis
<1> QED BY <1>7, <1>8, <1>9, <1>10, <1>12, <1>13, <1>14, <1>15 DEF Kept

\* The thread that is moved gets its status and its link.
LEMMA LinkStep ==
    ASSUME SleepInv, NEW n \in Node, Link(n)
    PROVE  Kept'
<1> USE Parts
<1>0. (\A k \in Node : SleepPlace(k)) /\ SleepHand /\ AsleepInv /\ SleepWalk /\ SleepRefs /\ DueInv /\ SleepQueues /\ SleepCpu
    BY DEF SleepInv
<1>1. current = n /\ pc[n] = "link"
    BY DEF Link, At
<1>2. /\ UNCHANGED <<head, tid, heap, current, fix, intr, tick, wake, ref, lock, frame>>
      /\ pc'[n] = "push" /\ \A k \in Node \ {n} : pc'[k] = pc[k]
    BY DEF Link, Goto, cpu
<1>3. pc[n] \in Masked /\ pc'[n] \in Masked
    BY <1>1, <1>2 DEF Masked
<1>4. MaskInv /\ \A k \in Node \ {n} : pc[k] \notin Masked /\ ~ Crit(k)
    BY <1>1, <1>3, CritMasked DEF SleepInv, MaskInv
<1>5. /\ Asleep' = Asleep /\ (\A s \in Status : Queue(s)' = Queue(s))
      /\ (\A a \in Asleep : next'[a] = next[a])
      /\ next'[frame[n].nd] = head[Target(frame[n].op)]
      /\ status'[frame[n].nd] = Target(frame[n].op)
    BY LinkEffect
<1>6. \A k \in Node : SleepPlace(k)'
    BY <1>0, <1>1, <1>2 DEF SleepPlace, Masked
<1>7. MaskInv'
    <2>1. Crit(n) /\ Crit(n)' /\ \A k \in Node \ {n} : ~ Crit(k)'
        BY <1>1, <1>2, <1>4 DEF Crit
    <2> QED BY <1>1, <1>2, <1>3, <1>4, <2>1 DEF MaskInv
<1>8. SleepHand'
    <2>1. \A k \in Node : pc'[k] \in {"fix", "link", "push"} => k = n
        BY <1>2, <1>4 DEF Masked
    <2>2. frame[n].nd \in Threads \ {Cleaner, Sleeper} /\ \A s \in Status : frame[n].nd \notin Queue(s)
        BY <1>0, <1>1 DEF SleepHand
    <2> QED BY <1>2, <1>5, <2>1, <2>2 DEF SleepHand
<1>9. AsleepInv'
    BY <1>0, <1>1, <1>2, <1>5 DEF AsleepInv
<1>10. pc'[Sleeper] = pc[Sleeper] \/ (pc[Sleeper] = "link" /\ pc'[Sleeper] = "push")
    BY <1>1, <1>2, Constants
<1>11. SleepWalk'
    BY <1>0, <1>2, <1>5, <1>10 DEF SleepWalk, Waking, Millis
<1>12. SleepCpu'
    BY <1>0, <1>1, <1>2, <1>5 DEF SleepCpu, Leaving
<1>13. SleepRefs'
    <2>1. \A k \in Node : pc'[k] \in Masked <=> pc[k] \in Masked
        BY <1>2, <1>3
    <2>2. \A k \in Node : Waking(k)' <=> Waking(k)
        BY <1>2, <1>10 DEF Waking
    <2> QED BY <1>0, <1>2, <1>5, <2>1, <2>2 DEF SleepRefs
<1>14. DueInv'
    BY <1>0, <1>1, <1>2, <1>5 DEF DueInv, Millis
<1> QED BY <1>6, <1>7, <1>8, <1>9, <1>11, <1>12, <1>13, <1>14 DEF Kept

\* It is put on SUSPEND, by itself, or on RUNNING, by sleeper_polling.
LEMMA PushStep ==
    ASSUME SleepInv, NEW n \in Node, Push(n), Client(n) \/ n = Sleeper
    PROVE  Kept'
<1> USE Parts
<1>0. (\A k \in Node : SleepPlace(k)) /\ SleepHand /\ AsleepInv /\ SleepWalk /\ SleepRefs /\ DueInv /\ SleepQueues /\ SleepCpu
    BY DEF SleepInv
<1>1. current = n /\ pc[n] = "push"
    BY DEF Push, At
<1>2. /\ UNCHANGED <<next, tid, status, heap, current, fix, intr, tick, wake, ref, lock, frame>>
      /\ pc'[n] = "unlock" /\ \A k \in Node \ {n} : pc'[k] = pc[k]
    BY DEF Push, Goto, cpu, struct
<1>3. pc[n] \in Masked /\ pc'[n] \in Masked
    BY <1>1, <1>2 DEF Masked
<1>4. MaskInv /\ \A k \in Node \ {n} : pc[k] \notin Masked /\ ~ Crit(k)
    BY <1>1, <1>3, CritMasked DEF SleepInv, MaskInv
<1>5. \/ n = Sleeper /\ frame[n].op = "wake" /\ Target(frame[n].op) = "RUNNING"
      \/ /\ Client(n) /\ n \notin {Sleeper, Cleaner} /\ frame[n].op = "suspend"
         /\ Target(frame[n].op) = "SUSPEND" /\ frame[n].nd = n
    BY <1>0, <1>1 DEF SleepPlace, Target, Client
<1>6. PICK m \in Node :
         /\ m = frame[n].nd /\ m \in Threads \ {Cleaner, Sleeper}
         /\ \A s \in Status : m \notin Queue(s)
    BY <1>0, <1>1 DEF SleepHand
<1>7. /\ n = Sleeper => Asleep' = Asleep /\ Queue("RUNNING")' = Queue("RUNNING") \cup {m}
      /\ n # Sleeper => Asleep' = Asleep \cup {n} /\ Queue("RUNNING")' = Queue("RUNNING")
    BY <1>5, <1>6, PushedEffect DEF Asleep
<1>8. \A k \in Node : SleepPlace(k)'
    BY <1>0, <1>1, <1>2 DEF SleepPlace, Masked
<1>9. MaskInv'
    <2>1. Crit(n) /\ Crit(n)' /\ \A k \in Node \ {n} : ~ Crit(k)'
        BY <1>1, <1>2, <1>4 DEF Crit
    <2> QED BY <1>1, <1>2, <1>3, <1>4, <2>1 DEF MaskInv
<1>10. SleepHand'
    <2>1. \A k \in Node : pc'[k] \notin {"fix", "link", "push"}
        BY <1>2, <1>4 DEF Masked
    <2> QED BY <2>1 DEF SleepHand
<1>11. AsleepInv'
    <2>1. \A k \in Node \ {n} : Client(k) => pc'[k] \notin {"unlock", "yield"}
        BY <1>2, <1>4 DEF Masked
    <2>2. CASE n = Sleeper
        BY <1>0, <1>2, <1>7, <2>1, <2>2 DEF AsleepInv, Client
    <2>3. CASE n # Sleeper
        BY <1>0, <1>2, <1>5, <1>7, <2>1, <2>3 DEF AsleepInv
    <2> QED BY <2>2, <2>3
<1>12. /\ pc'[Sleeper] = pc[Sleeper] \/ (pc[Sleeper] = "push" /\ pc'[Sleeper] = "unlock")
       /\ Asleep \subseteq Asleep'
    BY <1>1, <1>2, <1>7, Constants
<1>13. SleepWalk'
    BY <1>0, <1>2, <1>12 DEF SleepWalk, Waking, Millis
<1>14. SleepCpu'
    <2>1. CASE n = Sleeper
        BY <1>0, <1>1, <1>2, <1>7, <2>1 DEF SleepCpu, SleepQueues
    <2>2. CASE n # Sleeper
        <3>1. n \notin Queue("RUNNING")
            BY <1>5, <1>6, <2>2
        <3> QED BY <1>0, <1>1, <1>2, <1>7, <2>2, <3>1 DEF SleepCpu, Leaving
    <2> QED BY <2>1, <2>2
<1>15. SleepRefs'
    <2>1. \A k \in Node : pc'[k] \in Masked <=> pc[k] \in Masked
        BY <1>2, <1>3
    <2>2. \A k \in Node : Waking(k)' <=> Waking(k)
        BY <1>2, <1>12 DEF Waking
    <2> QED BY <1>0, <1>2, <1>3, <1>5, <1>7, <2>1, <2>2 DEF SleepRefs
<1>16. DueInv'
    BY <1>0, <1>1, <1>2, <1>12 DEF DueInv, Millis
<1> QED BY <1>8, <1>9, <1>10, <1>11, <1>13, <1>14, <1>15, <1>16 DEF Kept

\* It unlocks, with interrupts still off.
LEMMA SuspendDoneStep ==
    ASSUME SleepInv, NEW n \in Node, Client(n), SuspendDone(n)
    PROVE  Kept'
<1> USE Parts
<1>0. (\A k \in Node : SleepPlace(k)) /\ AsleepInv /\ SleepWalk /\ SleepRefs /\ DueInv /\ SleepCpu
    BY DEF SleepInv
<1>1. current = n /\ pc[n] = "unlock" /\ n # Sleeper /\ n # Cleaner
    BY DEF SuspendDone, At, Client
<1>2. /\ UNCHANGED <<head, next, status, tid, heap, current, fix, intr, tick, wake, ref, frame>>
      /\ pc'[n] = "yield" /\ lock' = 0 /\ \A k \in Node \ {n} : pc'[k] = pc[k]
    BY DEF SuspendDone, Goto, queues, struct, cpu
<1>3. pc[n] \in Masked /\ pc'[n] \in Masked
    BY <1>1, <1>2 DEF Masked
<1>4. /\ \A k \in Node : pc'[k] \in Masked => current' = k /\ ~ intr'
      /\ \A k \in Node \ {n} : pc[k] \notin Masked /\ pc'[k] \notin Masked /\ ~ Crit(k) /\ ~ Crit(k)'
    BY <1>1, <1>2, <1>3, MaskedStep
<1>5. Asleep' = Asleep /\ \A s \in Status : Queue(s)' = Queue(s)
    BY <1>2, QuietEffect
<1>6. \A k \in Node : SleepPlace(k)'
    BY <1>0, <1>1, <1>2 DEF SleepPlace, Masked
<1>7. MaskInv'
    <2>1. ~ Crit(n)'
        BY <1>2 DEF Crit
    <2> QED BY <1>2, <1>4, <2>1 DEF MaskInv
<1>8. SleepHand'
    BY <1>2, <1>4 DEF SleepHand, Masked
<1>9. AsleepInv'
    BY <1>0, <1>1, <1>2, <1>5 DEF AsleepInv
<1>10. pc'[Sleeper] = pc[Sleeper]
    BY <1>1, <1>2, Constants
<1>11. SleepWalk'
    BY <1>0, <1>2, <1>5, <1>10 DEF SleepWalk, Waking, Millis
<1>12. SleepCpu'
    BY <1>0, <1>1, <1>2, <1>5 DEF SleepCpu, Leaving
<1>13. SleepRefs'
    <2>1. \A k \in Node : pc'[k] \in Masked <=> pc[k] \in Masked
        BY <1>2, <1>3
    <2>2. \A k \in Node : Waking(k)' <=> Waking(k)
        BY <1>2, <1>10 DEF Waking
    <2> QED BY <1>0, <1>2, <1>5, <2>1, <2>2 DEF SleepRefs
<1>14. DueInv'
    BY <1>0, <1>1, <1>2, <1>5 DEF DueInv, Millis
<1> QED BY <1>6, <1>7, <1>8, <1>9, <1>11, <1>12, <1>13, <1>14 DEF Kept

\* It gives up the processor, which turns interrupts on again.
LEMMA YieldStep ==
    ASSUME SleepInv, NEW n \in Node, Client(n), Yield(n)
    PROVE  Kept'
<1> USE Parts
<1>0. (\A k \in Node : SleepPlace(k)) /\ MaskInv /\ AsleepInv /\ SleepWalk /\ SleepRefs /\ DueInv /\ SleepCpu
    BY DEF SleepInv
<1>1. current = n /\ pc[n] = "yield" /\ n # Sleeper /\ n # Cleaner
    BY DEF Yield, At, Client
<1>2. /\ UNCHANGED <<head, next, status, tid, heap, lock, tick, wake, ref, frame>>
      /\ current' = NextThread /\ fix' = NULL /\ intr' = TRUE
      /\ pc'[n] = "resume" /\ \A k \in Node \ {n} : pc'[k] = pc[k]
    BY DEF Yield, Goto, queues, struct, Switch
<1>3. Asleep' = Asleep /\ \A s \in Status : Queue(s)' = Queue(s)
    BY <1>2, QuietEffect
<1>4. pc[n] \in Masked /\ ~ Crit(n) /\ ~ Crit(n)' /\ n \in Asleep
    BY <1>0, <1>1, <1>2 DEF Masked, Crit, AsleepInv
<1>5. lock = 0 /\ \A k \in Node \ {n} : pc[k] \notin Masked /\ ~ Crit(k)
    BY <1>0, <1>1, <1>4, CritMasked DEF MaskInv, TypeInv, TypeOK
<1>6. \A k \in Node : pc'[k] \notin Masked /\ ~ Crit(k)'
    BY <1>2, <1>4, <1>5 DEF Masked, Crit
<1>7. \A k \in Node : SleepPlace(k)'
    BY <1>0, <1>1, <1>2 DEF SleepPlace, Masked
<1>8. MaskInv'
    BY <1>2, <1>5, <1>6 DEF MaskInv
<1>9. SleepHand'
    BY <1>6 DEF SleepHand, Masked
<1>10. AsleepInv'
    BY <1>0, <1>2, <1>3, <1>6 DEF AsleepInv, Masked
<1>11. pc'[Sleeper] = pc[Sleeper] /\ pc[Sleeper] \notin Masked
    BY <1>1, <1>2, <1>5, Constants
<1>12. SleepWalk'
    BY <1>0, <1>2, <1>3, <1>11 DEF SleepWalk, Masked, Millis
<1>13. SleepCpu'
    BY <1>2, <1>3, SleepNextOnRunning DEF SleepCpu, SchedulerSound
<1>14. SleepRefs'
    <2>1. \A k \in Node : ~ Waking(k) /\ ~ Waking(k)'
        BY <1>11 DEF Waking, Masked
    <2> QED BY <1>0, <1>2, <1>3, <1>4, <1>5, <1>6, <2>1 DEF SleepRefs
<1>15. DueInv'
    BY <1>0, <1>2, <1>3, <1>4 DEF DueInv, Millis
<1> QED BY <1>7, <1>8, <1>9, <1>10, <1>12, <1>13, <1>14, <1>15 DEF Kept

\* It is back on RUNNING and gets the processor: sleep returns.
LEMMA BackStep ==
    ASSUME SleepInv, NEW n \in Node, Client(n), Back(n)
    PROVE  Kept'
<1> USE Parts
<1>0. (\A k \in Node : SleepPlace(k)) /\ AsleepInv /\ SleepWalk /\ SleepRefs /\ DueInv
    BY DEF SleepInv
<1>1. current = n /\ pc[n] = "resume" /\ n # Sleeper /\ n # Cleaner
    BY DEF Back, At, Client
<1>2. /\ UNCHANGED <<head, next, status, tid, heap, tick, wake, ref, current, fix, intr>>
      /\ lock' = 0 /\ pc'[n] = "run"
      /\ \A k \in Node \ {n} : pc'[k] = pc[k] /\ frame'[k] = frame[k]
    BY DEF Back, Goto, Local, queues, struct, cpu
<1>3. Asleep' = Asleep /\ \A s \in Status : Queue(s)' = Queue(s)
    BY <1>2, QuietEffect
<1>4. (\A k \in Node : pc[k] \notin Masked /\ ~ Crit(k)) /\ n \in Queue("RUNNING") /\ fix = NULL
    BY <1>1, Open DEF Masked
<1>5. n \notin Asleep
    BY <1>4, Behind DEF Asleep
<1>6. \A k \in Node : pc'[k] \notin Masked /\ ~ Crit(k)'
    BY <1>2, <1>4 DEF Masked, Crit
<1>7. ASSUME NEW k \in Node PROVE SleepPlace(k)'
    <2>1. CASE k = n
        BY <1>1, <1>2, <2>1 DEF SleepPlace
    <2>2. CASE k # n
        BY <1>0, <1>2, <2>2 DEF SleepPlace
    <2> QED BY <2>1, <2>2
<1>8. MaskInv'
    BY <1>2, <1>6 DEF MaskInv
<1>9. SleepHand'
    BY <1>6 DEF SleepHand, Masked
<1>10. AsleepInv'
    BY <1>0, <1>2, <1>3, <1>5, <1>6 DEF AsleepInv, Masked
<1>11. pc'[Sleeper] = pc[Sleeper] /\ frame'[Sleeper] = frame[Sleeper] /\ pc[Sleeper] \notin Masked
    BY <1>1, <1>2, <1>4, Constants
<1>12. SleepWalk'
    BY <1>0, <1>2, <1>3, <1>11 DEF SleepWalk, Masked, Millis
<1>13. SleepCpu'
    BY <1>1, <1>2, <1>3, <1>4 DEF SleepCpu
<1>14. SleepRefs'
    <2>1. \A k \in Node : ~ Waking(k) /\ ~ Waking(k)'
        BY <1>11 DEF Waking, Masked
    <2> QED BY <1>0, <1>2, <1>3, <1>4, <1>6, <2>1 DEF SleepRefs
<1>15. DueInv'
    BY <1>0, <1>2, <1>3 DEF DueInv, Millis
<1> QED BY <1>7, <1>8, <1>9, <1>10, <1>12, <1>13, <1>14, <1>15 DEF Kept

\* thread_wake takes the thread that is due out of SUSPEND.
LEMMA WakeStep ==
    ASSUME SleepInv, NEW x \in Asleep, Waking(x), WakeBody(x)
    PROVE  Kept'
<1> USE Parts
<1>0. (\A k \in Node : SleepPlace(k)) /\ MaskInv /\ AsleepInv /\ SleepWalk /\ SleepRefs /\ DueInv /\ SleepQueues /\ SleepCpu
    BY DEF SleepInv
<1>1. current = Sleeper /\ pc[Sleeper] = "body" /\ x \in Node /\ Sleeper \in Node
    BY Constants DEF WakeBody, At
<1>2. /\ UNCHANGED <<status, tid, heap, tick, wake, ref, current, fix, intr, lock>>
      /\ pc'[Sleeper] = "link" /\ frame'[Sleeper] = [frame[Sleeper] EXCEPT !.nd = x]
      /\ \A k \in Node \ {Sleeper} : pc'[k] = pc[k] /\ frame'[k] = frame[k]
    BY <1>1 DEF WakeBody, Goto, Local, struct, cpu
<1>3. frame'[Sleeper].nd = x /\ frame'[Sleeper].op = frame[Sleeper].op /\ frame'[Sleeper].nx = frame[Sleeper].nx
    BY <1>1, <1>2 DEF Frame
<1>4. /\ Queue("RUNNING")' = Queue("RUNNING") /\ Asleep' = Asleep \ {x}
      /\ \A s \in Status : x \notin Queue(s)'
      /\ next[x] \in (Asleep \ {x}) \cup {NULL}
    BY WakeEffect
<1>5. Crit(Sleeper) /\ Crit(Sleeper)' /\ pc[Sleeper] \in Masked
    BY <1>1, <1>2 DEF Crit, Masked
<1>6. lock = 1 /\ ~ intr /\ \A k \in Node \ {Sleeper} : pc[k] \notin Masked /\ ~ Crit(k)
    BY <1>0, <1>1, <1>5, CritMasked DEF MaskInv
<1>7. \A k \in Node \ {Sleeper} : pc'[k] \notin Masked /\ ~ Crit(k)'
    BY <1>2, <1>6 DEF Crit
<1>8. Asleep \subseteq Threads /\ \A y \in Asleep : Waking(y) => y = x
    <2>1. Asleep \subseteq Threads
        BY <1>0 DEF SleepQueues, Asleep
    <2> QED BY <1>0, <2>1 DEF SleepQueues, Waking
<1>9. Client(x) /\ pc[x] = "resume" /\ x # Sleeper /\ x # Cleaner /\ x \in Threads
    BY <1>0, <1>6, <1>8 DEF AsleepInv, Client, Masked
<1>10. frame[Sleeper].nx = next[x] /\ wake[x] <= Millis
    BY <1>0, <1>1, <1>8 DEF SleepWalk
<1>11. ASSUME NEW k \in Node PROVE SleepPlace(k)'
    <2>1. CASE k = Sleeper
        BY <1>0, <1>1, <1>2, <1>3, <2>1 DEF SleepPlace, Client
    <2>2. CASE k # Sleeper
        BY <1>0, <1>2, <2>2 DEF SleepPlace
    <2> QED BY <2>1, <2>2
<1>12. MaskInv'
    BY <1>1, <1>2, <1>5, <1>6, <1>7 DEF MaskInv
<1>13. SleepHand'
    <2>1. \A k \in Node : pc'[k] \in {"fix", "link", "push"} => k = Sleeper /\ pc'[k] # "push"
        BY <1>2, <1>7 DEF Masked
    <2> QED BY <1>3, <1>4, <1>9, <2>1 DEF SleepHand
<1>14. AsleepInv'
    BY <1>0, <1>2, <1>4, <1>7, <1>9 DEF AsleepInv, Masked, Client
<1>15. SleepWalk'
    BY <1>2, <1>3, <1>4, <1>10 DEF SleepWalk
<1>16. SleepCpu'
    BY <1>0, <1>1, <1>2, <1>4 DEF SleepCpu, SleepQueues
<1>17. SleepRefs'
    <2>1. \A k \in Node : Client(k) => pc[k] \notin Masked /\ pc'[k] \notin Masked
        BY <1>6, <1>7 DEF Client
    <2>2. \A k \in Node : ~ Waking(k)'
        BY <1>2 DEF Waking
    <2>3. \A k \in Node : k \in Asleep /\ ~ Waking(k) <=> k \in Asleep'
        BY <1>4, <1>8
    <2> QED BY <1>0, <1>2, <2>1, <2>2, <2>3 DEF SleepRefs
<1>18. DueInv'
    <2>1. \A k \in Node : pc'[k] = "resume" => pc[k] = "resume"
        BY <1>2
    <2> QED BY <1>0, <1>2, <1>4, <1>10, <2>1 DEF DueInv, Millis
<1> QED BY <1>11, <1>12, <1>13, <1>14, <1>15, <1>16, <1>17, <1>18 DEF Kept

\* sleeper_polling has woken a thread and turns interrupts on again.
LEMMA WakeDoneStep ==
    ASSUME SleepInv, WakeDone
    PROVE  Kept'
<1> USE Parts
<1>0. (\A k \in Node : SleepPlace(k)) /\ MaskInv /\ AsleepInv /\ SleepWalk /\ SleepRefs /\ DueInv /\ SleepQueues /\ SleepCpu
    BY DEF SleepInv
<1>1. current = Sleeper /\ pc[Sleeper] = "unlock" /\ Sleeper \in Node /\ NULL \in Ptr
    BY Constants DEF WakeDone, At, Ptr
<1>2. /\ UNCHANGED <<head, next, status, tid, heap, tick, wake, ref, current, fix>>
      /\ lock' = 0 /\ intr' = TRUE /\ pc'[Sleeper] = "s_test"
      /\ frame'[Sleeper] = [NoCall EXCEPT !.nd = frame[Sleeper].nx]
      /\ \A k \in Node \ {Sleeper} : pc'[k] = pc[k] /\ frame'[k] = frame[k]
    BY <1>1 DEF WakeDone, Goto, Local, queues, struct
<1>3. frame'[Sleeper].nd = frame[Sleeper].nx /\ frame'[Sleeper].op = "none"
    BY <1>2 DEF NoCall
<1>4. Asleep' = Asleep /\ \A s \in Status : Queue(s)' = Queue(s)
    BY <1>2, QuietEffect
<1>5. \A k \in Node \ {Sleeper} : pc[k] \notin Masked /\ ~ Crit(k)
    <2>1. pc[Sleeper] \in Masked
        BY <1>1 DEF Masked
    <2> QED BY <1>0, <1>1, <2>1, CritMasked DEF MaskInv
<1>6. \A k \in Node : pc'[k] \notin Masked /\ ~ Crit(k)'
    BY <1>2, <1>5 DEF Masked, Crit
<1>7. ASSUME NEW k \in Node PROVE SleepPlace(k)'
    <2>1. CASE k = Sleeper
        BY <1>2, <1>3, <2>1 DEF SleepPlace, Client
    <2>2. CASE k # Sleeper
        BY <1>0, <1>2, <2>2 DEF SleepPlace
    <2> QED BY <2>1, <2>2
<1>8. MaskInv'
    BY <1>2, <1>6 DEF MaskInv
<1>9. SleepHand'
    BY <1>6 DEF SleepHand, Masked
<1>10. AsleepInv'
    BY <1>0, <1>2, <1>4, <1>6 DEF AsleepInv, Masked, Client
<1>11. SleepWalk'
    BY <1>0, <1>1, <1>2, <1>3, <1>4 DEF SleepWalk
<1>12. SleepCpu'
    BY <1>0, <1>1, <1>2, <1>4 DEF SleepCpu, SleepQueues
<1>13. SleepRefs'
    <2>1. \A k \in Node : ~ Waking(k) /\ ~ Waking(k)'
        BY <1>1, <1>2 DEF Waking
    <2> QED BY <1>0, <1>2, <1>4, <1>5, <1>6, <2>1 DEF SleepRefs, Client
<1>14. DueInv'
    BY <1>0, <1>2, <1>4 DEF DueInv, Millis
<1> QED BY <1>7, <1>8, <1>9, <1>10, <1>11, <1>12, <1>13, <1>14 DEF Kept

\* The steps thread_cleaner and sleeper_polling take with interrupts on.
LEMMA PollStep ==
    ASSUME SleepInv, NEW w \in {Cleaner, Sleeper}, current = w,
           pc[w] \notin Masked, pc'[w] \notin Masked \cup {"resume"},
           \A k \in Node \ {w} : pc'[k] = pc[k] /\ frame'[k] = frame[k],
           UNCHANGED <<queues, struct, heap, lock, tick>>, UNCHANGED cpu \/ Switch,
           SleepPlace(w)', SleepWalk'
    PROVE  Kept'
<1> USE Parts
<1>0. (\A k \in Node : SleepPlace(k)) /\ AsleepInv /\ SleepRefs /\ DueInv /\ SleepCpu
    BY DEF SleepInv
<1>1. w \in Node /\ Sleeper \in Node /\ ~ Client(w)
    BY Constants DEF Client
<1>2. /\ UNCHANGED <<head, next, status, tid, heap, tick, wake, ref, lock>>
      /\ UNCHANGED <<current, fix, intr>> \/ (current' = NextThread /\ fix' = NULL /\ intr' = TRUE)
    BY DEF queues, struct, cpu, Switch
<1>3. Asleep' = Asleep /\ \A s \in Status : Queue(s)' = Queue(s)
    BY <1>2, QuietEffect
<1>4. (\A k \in Node : pc[k] \notin Masked /\ ~ Crit(k)) /\ lock = 0 /\ w \in Queue("RUNNING") /\ fix = NULL
    BY Open
<1>5. \A k \in Node : pc'[k] \notin Masked /\ ~ Crit(k)'
    <2>1. \A k \in Node : pc'[k] \notin Masked
        BY <1>4
    <2>2. \A k \in Node \ {w} : ~ Crit(k)'
        BY <1>4 DEF Crit
    <2>3. ~ Crit(w)'
        BY <2>1, <1>1 DEF Crit, Masked, SleepPlace, Client
    <2> QED BY <2>1, <2>2, <2>3
<1>6. ASSUME NEW k \in Node PROVE SleepPlace(k)'
    <2>1. CASE k = w
        BY <2>1
    <2>2. CASE k # w
        BY <1>0, <1>2, <2>2 DEF SleepPlace
    <2> QED BY <2>1, <2>2
<1>7. MaskInv'
    BY <1>2, <1>4, <1>5 DEF MaskInv
<1>8. SleepHand'
    BY <1>5 DEF SleepHand, Masked
<1>9. AsleepInv'
    BY <1>0, <1>1, <1>3, <1>5 DEF AsleepInv, Masked, Client
<1>10. SleepCpu'
    BY <1>1, <1>2, <1>3, <1>4, SleepNextOnRunning DEF SleepCpu, SchedulerSound
<1>11. SleepRefs'
    <2>1. \A k \in Node : ~ Waking(k) /\ ~ Waking(k)'
        BY <1>1, <1>4, <1>5 DEF Waking, Masked
    <2> QED BY <1>0, <1>2, <1>3, <1>4, <1>5, <2>1 DEF SleepRefs
<1>12. DueInv'
    BY <1>0, <1>1, <1>2, <1>3 DEF DueInv, Millis
<1> QED BY <1>6, <1>7, <1>8, <1>9, <1>10, <1>11, <1>12 DEF Kept

\* Nobody dies: thread_cleaner finds nothing to do.
LEMMA CleanerSteps ==
    ASSUME SleepInv, CleanerStart \/ CleanerTest
    PROVE  Kept'
<1> USE Parts
<1>0. Cleaner \in Node /\ Sleeper \in Node /\ SleepPlace(Cleaner) /\ SleepWalk /\ head["DIED"] = NULL
    BY Constants DEF SleepInv, SleepQueues
<1>1. /\ current = Cleaner /\ pc[Cleaner] \in {"c_start", "c_test"}
      /\ pc'[Cleaner] \in {"c_start", "c_test"} /\ frame'[Cleaner] = NoCall
      /\ \A k \in Node \ {Cleaner} : pc'[k] = pc[k] /\ frame'[k] = frame[k]
      /\ UNCHANGED <<queues, struct, heap, lock, tick>> /\ (UNCHANGED cpu \/ Switch)
    <2>1. CASE CleanerStart
        <3>1. [NoCall EXCEPT !.nd = NULL] = NoCall
            BY DEF NoCall
        <3> QED BY <1>0, <2>1, <3>1 DEF CleanerStart, At, Goto, Local
    <2>2. CASE CleanerTest
        <3>1. current = Cleaner /\ pc[Cleaner] = "c_test" /\ frame[Cleaner] = NoCall
            BY <1>0, <2>2 DEF CleanerTest, At, SleepPlace
        <3>2. frame[Cleaner].nd = NULL
            BY <3>1 DEF NoCall
        <3> QED BY <1>0, <2>2, <3>1, <3>2 DEF CleanerTest, Goto, Local
    <2> QED BY <2>1, <2>2
<1>2. pc[Cleaner] \notin Masked /\ pc'[Cleaner] \notin Masked \cup {"resume"}
    BY <1>1 DEF Masked
<1>3. SleepPlace(Cleaner)'
    BY <1>1 DEF SleepPlace, Client
<1>4. UNCHANGED <<head, next, status, tid, heap, wake, tick>>
    BY <1>1 DEF queues, struct
<1>5. Asleep' = Asleep /\ pc'[Sleeper] = pc[Sleeper] /\ frame'[Sleeper] = frame[Sleeper]
    BY <1>0, <1>1, <1>4, QuietEffect
<1>6. pc[Sleeper] \notin Masked
    BY <1>0, <1>1, <1>2, Open
<1>7. SleepWalk'
    BY <1>0, <1>4, <1>5, <1>6 DEF SleepWalk, Masked, Millis
<1> QED BY <1>1, <1>2, <1>3, <1>7, PollStep

\* sleeper_polling goes along SUSPEND; while it walks, threads only join.
LEMMA SleeperSteps ==
    ASSUME SleepInv, SleeperStart \/ SleeperTest \/ SleeperDue
    PROVE  Kept'
<1> USE Parts
<1>0. Sleeper \in Node /\ SleepPlace(Sleeper) /\ SleepWalk /\ NULL \notin Node /\ "SUSPEND" \in Status
    BY Constants DEF SleepInv
<1>1. /\ current = Sleeper /\ pc[Sleeper] \in {"s_start", "s_test", "s_due"}
      /\ pc'[Sleeper] \in {"s_start", "s_test", "s_due", "s_wake"}
      /\ \A k \in Node \ {Sleeper} : pc'[k] = pc[k] /\ frame'[k] = frame[k]
      /\ UNCHANGED <<queues, struct, heap, lock, tick>> /\ (UNCHANGED cpu \/ Switch)
    BY <1>0 DEF SleeperStart, SleeperTest, SleeperDue, At, Goto, Local
<1>2. pc[Sleeper] \notin Masked /\ pc'[Sleeper] \notin Masked \cup {"resume"}
    BY <1>1 DEF Masked
<1>3. UNCHANGED <<head, next, status, tid, heap, wake, tick>>
    BY <1>1 DEF queues, struct
<1>4. Asleep' = Asleep
    BY <1>3, QuietEffect
<1>5. head["SUSPEND"] \in Asleep \cup {NULL} /\ \A a \in Asleep : next[a] \in Asleep \cup {NULL}
    <2>1. Asleep = {} => head["SUSPEND"] = NULL
        BY <1>0, QueueIs, ReachSelf DEF Asleep, Ptr
    <2> QED BY <1>0, <2>1, Closed DEF Asleep
<1>6. frame[Sleeper].op = "none" /\ frame[Sleeper] \in Frame
    BY <1>0, <1>1 DEF SleepPlace
<1>7. frame'[Sleeper].op = "none" /\ SleepWalk'
    <2>1. CASE SleeperStart
        <3>1. pc'[Sleeper] = "s_test" /\ frame'[Sleeper] = [NoCall EXCEPT !.nd = head["SUSPEND"]]
            BY <1>0, <2>1 DEF SleeperStart, Goto, Local
        <3>2. frame'[Sleeper].op = "none" /\ frame'[Sleeper].nd = head["SUSPEND"]
            BY <3>1 DEF NoCall
        <3> QED BY <1>4, <1>5, <3>1, <3>2 DEF SleepWalk
    <2>2. CASE SleeperTest /\ frame[Sleeper].nd = NULL
        <3>1. pc'[Sleeper] = "s_start" /\ frame'[Sleeper] = NoCall
            BY <1>0, <2>2 DEF SleeperTest, Goto, Local
        <3>2. frame'[Sleeper].op = "none"
            BY <3>1 DEF NoCall
        <3> QED BY <3>1, <3>2 DEF SleepWalk
    <2>3. CASE SleeperTest /\ frame[Sleeper].nd # NULL
        <3>1. /\ pc[Sleeper] = "s_test" /\ pc'[Sleeper] = "s_due"
              /\ frame'[Sleeper] = [frame[Sleeper] EXCEPT !.nx = next[frame[Sleeper].nd]]
            BY <1>0, <2>3 DEF SleeperTest, At, Goto, Local
        <3>2. PICK m \in Asleep : m = frame[Sleeper].nd
            BY <1>0, <2>3, <3>1 DEF SleepWalk
        <3>3. frame'[Sleeper].op = "none" /\ frame'[Sleeper].nd = m /\ frame'[Sleeper].nx = next[m]
            BY <1>6, <3>1, <3>2 DEF Frame
        <3> QED BY <1>3, <1>4, <3>1, <3>3 DEF SleepWalk
    <2>4. CASE SleeperDue
        <3>1. pc[Sleeper] = "s_due"
            BY <2>4 DEF SleeperDue, At
        <3>2. PICK m \in Asleep : m = frame[Sleeper].nd /\ frame[Sleeper].nx = next[m]
            BY <1>0, <3>1 DEF SleepWalk
        <3>3. CASE wake[m] <= Millis
            <4>1. pc'[Sleeper] = "s_wake" /\ frame' = frame
                BY <1>0, <2>4, <3>2, <3>3 DEF SleeperDue, Goto
            <4> QED BY <1>3, <1>4, <1>6, <3>2, <3>3, <4>1 DEF SleepWalk, Millis
        <3>4. CASE ~ (wake[m] <= Millis)
            <4>1. pc'[Sleeper] = "s_test" /\ frame'[Sleeper] = [NoCall EXCEPT !.nd = frame[Sleeper].nx]
                BY <1>0, <2>4, <3>2, <3>4 DEF SleeperDue, Goto, Local
            <4>2. frame'[Sleeper].op = "none" /\ frame'[Sleeper].nd = next[m]
                BY <3>2, <4>1 DEF NoCall
            <4> QED BY <1>4, <1>5, <4>1, <4>2 DEF SleepWalk
        <3> QED BY <3>3, <3>4
    <2> QED BY <2>1, <2>2, <2>3, <2>4
<1>8. SleepPlace(Sleeper)'
    BY <1>1, <1>7 DEF SleepPlace, Client
<1> QED BY <1>1, <1>2, <1>7, <1>8, PollStep

\* sleeper_polling gives back the reference of a thread that is due.
LEMMA SleeperWakeStep ==
    ASSUME SleepInv, SleeperWake
    PROVE  Kept'
<1> USE Parts
<1>0. (\A k \in Node : SleepPlace(k)) /\ AsleepInv /\ SleepWalk /\ SleepRefs /\ DueInv /\ SleepQueues /\ SleepCpu
    BY DEF SleepInv
<1>1. current = Sleeper /\ pc[Sleeper] = "s_wake" /\ Sleeper \in Node
    BY Constants DEF SleeperWake, At
<1>2. PICK m \in Asleep : m = frame[Sleeper].nd /\ frame[Sleeper].nx = next[m] /\ wake[m] <= Millis
    BY <1>0, <1>1 DEF SleepWalk
<1>3. status[m] # "DIED" /\ m \in Node /\ m \in Threads
    <2>1. \A a \in Queue("SUSPEND") : status[a] = "SUSPEND" /\ a \in Threads
        BY <1>0 DEF SleepQueues, ListsOK
    <2> QED BY <2>1 DEF Asleep
<1>4. /\ UNCHANGED <<head, next, status, tid, heap, tick, wake, current, fix, lock>>
      /\ ref' = [ref EXCEPT ![m] = (@ + RefMod - 1) % RefMod]
      /\ intr' = FALSE /\ pc'[Sleeper] = "lock"
      /\ frame'[Sleeper] = [NoCall EXCEPT !.op = "wake", !.arg = tid[m], !.nx = frame[Sleeper].nx]
      /\ \A k \in Node \ {Sleeper} : pc'[k] = pc[k] /\ frame'[k] = frame[k]
    BY <1>1, <1>2, <1>3 DEF SleeperWake, Goto, Local, queues
<1>5. frame'[Sleeper].op = "wake" /\ frame'[Sleeper].arg = tid[m] /\ frame'[Sleeper].nx = next[m]
    BY <1>2, <1>4 DEF NoCall
<1>6. Asleep' = Asleep /\ \A s \in Status : Queue(s)' = Queue(s)
    BY <1>4, QuietEffect
<1>7. (\A k \in Node : pc[k] \notin Masked /\ ~ Crit(k)) /\ lock = 0
    BY <1>1, Open DEF Masked
<1>8. /\ \A k \in Node \ {Sleeper} : pc'[k] \notin Masked
      /\ \A k \in Node : ~ Crit(k)'
    BY <1>4, <1>7 DEF Crit
<1>9. ref'[m] = 0 /\ \A k \in Node \ {m} : ref'[k] = ref[k]
    <2>1. ~ Waking(m)
        BY <1>1 DEF Waking
    <2>2. ref[m] = 1
        BY <1>0, <1>3, <2>1 DEF SleepRefs
    <2>3. (1 + RefMod - 1) % RefMod = 0
        BY Constants
    <2> QED BY <1>3, <1>4, <2>2, <2>3
<1>10. \A k \in Asleep : Waking(k)' <=> k = m
    <2>1. Asleep \subseteq Threads
        BY <1>0 DEF SleepQueues, Asleep
    <2>2. \A k \in Asleep : tid[k] = tid[m] => k = m
        BY <1>0, <1>3, <2>1 DEF SleepQueues
    <2> QED BY <1>4, <1>5, <2>2 DEF Waking
<1>11. ASSUME NEW k \in Node PROVE SleepPlace(k)'
    <2>1. CASE k = Sleeper
        BY <1>4, <1>5, <2>1 DEF SleepPlace, Client
    <2>2. CASE k # Sleeper
        BY <1>0, <1>4, <2>2 DEF SleepPlace
    <2> QED BY <2>1, <2>2
<1>12. MaskInv'
    BY <1>1, <1>4, <1>7, <1>8 DEF MaskInv
<1>13. SleepHand'
    BY <1>4, <1>8 DEF SleepHand, Masked
<1>14. AsleepInv'
    BY <1>0, <1>4, <1>6, <1>8 DEF AsleepInv, Masked, Client
<1>15. SleepWalk'
    <2>1. Waking(m)' /\ next'[m] = next[m] /\ wake'[m] <= Millis'
        BY <1>2, <1>4, <1>10 DEF Millis
    <2> QED BY <1>4, <1>5, <1>6, <2>1 DEF SleepWalk
<1>16. SleepCpu'
    BY <1>0, <1>1, <1>4, <1>6 DEF SleepCpu, SleepQueues
<1>17. SleepRefs'
    <2>1. \A k \in Node : ~ Waking(k)
        BY <1>1 DEF Waking
    <2>2. \A k \in Node : Client(k) => pc[k] \notin Masked /\ pc'[k] \notin Masked
        BY <1>7, <1>8 DEF Client
    <2> QED BY <1>0, <1>6, <1>9, <1>10, <2>1, <2>2 DEF SleepRefs
<1>18. DueInv'
    <2>1. \A k \in Node : pc'[k] = "resume" => pc[k] = "resume"
        BY <1>4
    <2> QED BY <1>0, <1>4, <1>6, <2>1 DEF DueInv, Millis
<1> QED BY <1>11, <1>12, <1>13, <1>14, <1>15, <1>16, <1>17, <1>18 DEF Kept

-----------------------------------------------------------------------------
(***************************************************************************)
(* The invariant is inductive.                                             *)
(***************************************************************************)
\* Each step keeps the queues ...
LEMMA SleepQueueStep ==
    ASSUME SleepInv, SleepNext \/ UNCHANGED vars
    PROVE  SleepQueues'
<1> USE Parts
<1>1. CASE \E n \in Node : Client(n) /\ n \in Queue("RUNNING") /\ SuspendBody(n)
    BY <1>1, SuspendEffect
<1>2. CASE \E x \in Asleep : WakeBody(x)
    BY <1>2, WakeEffect
<1>3. CASE \E n \in Node : Link(n)
    BY <1>3, LinkEffect
<1>4. ASSUME NEW n \in Node, Push(n), Client(n) \/ n = Sleeper PROVE SleepQueues'
    <2>1. pc[n] = "push" /\ SleepPlace(n)
        BY <1>4 DEF Push, At, SleepInv
    <2>2. frame[n].op \in {"suspend", "wake"}
        BY <1>4, <2>1 DEF SleepPlace
    <2> QED BY <1>4, <2>2, PushedEffect
<1>5. CASE UNCHANGED <<head, next, status, heap, tid>>
    BY <1>5, QuietEffect
<1>6. ASSUME NEW n \in Node,
             CallSleep(n) \/ Acquire(n) \/ Fix(n) \/ SuspendDone(n) \/ Yield(n) \/ Back(n)
      PROVE  UNCHANGED <<head, next, status, heap, tid>>
    BY <1>6 DEF CallSleep, Acquire, Fix, SuspendDone, Yield, Back, queues, struct
<1>7. ASSUME \/ TimerIsr \/ WakeDone \/ CleanerStart \/ CleanerTest
             \/ SleeperStart \/ SleeperTest \/ SleeperDue \/ SleeperWake \/ UNCHANGED vars
      PROVE  UNCHANGED <<head, next, status, heap, tid>>
    BY <1>7 DEF TimerIsr, WakeDone, CleanerStart, CleanerTest, SleeperStart, SleeperTest, SleeperDue,
                SleeperWake, queues, struct, vars
<1> QED BY <1>1, <1>2, <1>3, <1>4, <1>5, <1>6, <1>7, Constants DEF SleepNext

\* ... and the rest.
LEMMA SleepStep ==
    ASSUME Sleepers, SleepInv, [Next]_vars
    PROVE  SleepInv'
<1>1. SleepNext \/ UNCHANGED vars
    BY SleepSteps
<1>2. TypeInv'
    BY TypeStep DEF SleepInv
<1>3. SleepQueues'
    BY <1>1, SleepQueueStep
<1>4. Kept'
    <2>1. ASSUME NEW n \in Node, Client(n),
                 \/ CallSleep(n) \/ Acquire(n) \/ Fix(n) \/ Link(n) \/ Push(n)
                 \/ SuspendDone(n) \/ Yield(n) \/ Back(n)
                 \/ n \in Queue("RUNNING") /\ SuspendBody(n)
          PROVE  Kept'
        BY <2>1, CallStep, AcquireStep, FixStep, LinkStep, PushStep, SuspendDoneStep, YieldStep,
           BackStep, SuspendStep
    <2>2. ASSUME \/ Acquire(Sleeper) \/ Link(Sleeper) \/ Push(Sleeper) \/ WakeDone
                 \/ \E x \in Asleep : Waking(x) /\ WakeBody(x)
          PROVE  Kept'
        BY <2>2, AcquireStep, LinkStep, PushStep, WakeDoneStep, WakeStep, Constants
    <2>3. ASSUME \/ CleanerStart \/ CleanerTest
                 \/ SleeperStart \/ SleeperTest \/ SleeperDue \/ SleeperWake
          PROVE  Kept'
        BY <2>3, CleanerSteps, SleeperSteps, SleeperWakeStep
    <2> QED BY <1>1, <2>1, <2>2, <2>3, TimerStep, StutterStep DEF SleepNext
<1> QED BY <1>2, <1>3, <1>4 DEF SleepInv, Kept

\* It holds when start_thread is done.
LEMMA SleepInit == Init => SleepInv
<1> SUFFICES ASSUME Init PROVE SleepInv
    OBVIOUS
<1> USE Constants
<1>0. /\ TypeInv /\ {"RUNNING", "READY", "SUSPEND", "DIED"} = Status
      /\ Sleeper \in Booted /\ Cleaner \notin Booted /\ Booted \subseteq Node /\ Cleaner # Sleeper
    BY InitTypeInv, BootType, ThreadAssumption DEF Status, Booted
<1>1. /\ pc = [n \in Node |-> CASE n = Cleaner -> "c_start" [] n = Sleeper -> "s_start" [] OTHER -> "run"]
      /\ frame = [n \in Node |-> NoCall] /\ heap = Booted /\ current = Cleaner /\ fix = NULL
      /\ lock = 0 /\ \A n \in Node : ref[n] = 0 /\ wake[n] = 0 /\ status[n] = "RUNNING"
    BY DEF Init
<1>2. ASSUME NEW n \in Node
      PROVE  /\ pc[n] = CASE n = Cleaner -> "c_start" [] n = Sleeper -> "s_start" [] OTHER -> "run"
             /\ frame[n] = NoCall /\ frame[n].op = "none"
    BY <1>1 DEF NoCall
<1>3. \A n \in Node : /\ pc[n] \in {"c_start", "s_start", "run"}
                      /\ pc[n] = "c_start" <=> n = Cleaner
                      /\ pc[n] = "s_start" <=> n = Sleeper
    BY <1>0, <1>2
<1>4. \A n \in Node : SleepPlace(n)
    BY <1>0, <1>2, <1>3 DEF SleepPlace, Client
<1>5. Asleep = {} /\ \A n \in Node : pc[n] \notin Masked /\ pc[n] # "resume" /\ ~ Crit(n)
    BY <1>0, <1>3, BootQueue DEF Asleep, Masked, Crit
<1>6. MaskInv
    BY <1>1, <1>5 DEF MaskInv
<1>7. SleepQueues
    <2>1. ListsOK
        BY <1>0, <1>1, BootQueue DEF ListsOK
    <2>2. head["READY"] = NULL /\ head["DIED"] = NULL
        BY <1>0 DEF Init
    <2>3. \A m \in Booted : tid[m] = Slot(m) /\ tid[m] \in 1 .. Len(Boot) /\ Boot[tid[m]] = m
        BY <1>0, BootType DEF Init
    <2>4. tid[Cleaner] = 0
        BY <1>0 DEF Init
    <2>5. \A m, k \in Threads : tid[m] = tid[k] => m = k
        BY <2>3, <2>4 DEF Threads
    <2> QED BY <1>0, <1>1, <2>1, <2>2, <2>5, BootQueue DEF SleepQueues, Threads
<1>8. SleepHand /\ AsleepInv
    BY <1>3, <1>5 DEF SleepHand, AsleepInv
<1>9. SleepWalk
    BY <1>3 DEF SleepWalk
<1>10. SleepCpu
    BY <1>0, <1>1, BootQueue DEF SleepCpu
<1>11. SleepRefs
    BY <1>1, <1>5 DEF SleepRefs
<1>12. DueInv
    <2>1. 0 <= (Horizon - 1) * MsPerTick
        BY ThreadAssumption
    <2> QED BY <1>1, <1>5, <2>1 DEF DueInv
<1> QED BY <1>0, <1>4, <1>6, <1>7, <1>8, <1>9, <1>10, <1>11, <1>12 DEF SleepInv

\* It holds in every reachable state, whatever such threads do.
LEMMA SleepAlways == Sleepers => (Spec => []SleepInv)
<1>1. SleepInv /\ Sleepers /\ [Next]_vars => SleepInv'
    BY SleepStep
<1> SUFFICES ASSUME Sleepers PROVE Spec => []SleepInv
    OBVIOUS
<1>2. SleepInv /\ [Next]_vars => SleepInv'
    BY <1>1
<1> QED BY <1>2, SleepInit, PTL DEF Spec

-----------------------------------------------------------------------------
(***************************************************************************)
(* The theorems.                                                           *)
(***************************************************************************)
\* sleep takes one reference and sleeper_polling gives back that one, though
\* neither of the two changes of ref is under thread_lock.
THEOREM SleepersBalanced == Sleepers => (Spec => []SleepBalanced)
<1>1. SleepInv => SleepBalanced
    <2>1. SUFFICES ASSUME SleepInv, NEW n \in Node PROVE ref[n] <= 1 /\ (pc[n] = "run" => ref[n] = 0)
        BY DEF SleepBalanced
    <2>2. SleepRefs /\ AsleepInv
        BY <2>1 DEF SleepInv
    <2>3. pc[n] = "run" => pc[n] \notin Masked /\ n \notin Asleep
        BY <2>2 DEF AsleepInv, Masked
    <2> QED BY <2>2, <2>3 DEF SleepRefs
<1> QED BY <1>1, SleepAlways, PTL

\* No sleep returns before its time, however the walks of sleeper_polling
\* fall between the sleeps and wherever the timer interrupts them.
THEOREM SleepersNotEarly == Sleepers => (Spec => []NoEarlyReturn)
<1>1. SleepInv => NoEarlyReturn
    <2>1. SUFFICES ASSUME SleepInv, NEW n \in Node, At(n, "resume") PROVE wake[n] <= Millis
        BY DEF NoEarlyReturn
    <2>2. current = n /\ pc[n] = "resume" /\ DueInv
        BY <2>1 DEF At, SleepInv
    <2>3. n \in Queue("RUNNING")
        BY <2>1, <2>2, Open DEF Masked
    <2>4. n \notin Asleep
        BY <2>1, <2>3, Behind, Parts DEF Asleep
    <2> QED BY <2>2, <2>4 DEF DueInv
<1> QED BY <1>1, SleepAlways, PTL

\* The second pe_unlock, which a thread runs when its sleep ends, never takes
\* thread_lock away from another.
THEOREM SleepersMutex == Sleepers => (Spec => []MutualExclusion)
<1>1. SleepInv => MutualExclusion
    <2>1. SUFFICES ASSUME SleepInv, NEW n \in Node, Crit(n)
                   PROVE  lock = 1 /\ \A m \in Node : Crit(m) => m = n
        BY DEF MutualExclusion
    <2> QED BY <2>1, CritMasked DEF SleepInv, MaskInv
<1> QED BY <1>1, SleepAlways, PTL

\* The queues hold allocated threads of the queue's status only, while
\* threads take themselves out of RUNNING and sleeper_polling walks SUSPEND.
THEOREM SleepersQueues == Sleepers => (Spec => []QueuesSound)
<1>1. SleepInv => QueuesSound
    BY DEF SleepInv, SleepQueues, ListsOK, Threads, QueuesSound
<1> QED BY <1>1, SleepAlways, PTL

\* thread_schedule always finds a thread of RUNNING, also for a thread that
\* has put itself on SUSPEND.
THEOREM SleepersScheduler == Sleepers => (Spec => []SchedulerSound)
BY SleepNextOnRunning, SleepAlways, PTL
=============================================================================
