------------------------- MODULE QueuedSignalProofs -------------------------
(* Theorems about QueuedSignal for any number of readers, allocations and  *)
(* operations.                                                             *)
EXTENDS QueuedSignal, FiniteSetTheorems, SequenceTheorems, TLAPS

\* The steps of the system, one action at a time.
LEMMA NextCases ==
    ASSUME Next
    PROVE  \/ \E k \in Queue : Send(k)
           \/ DirectAppend
           \/ WriteAbsolute
           \/ TickStart
           \/ \E k \in Queue : \E next \in {"mutate_set", "mutate", "check", "idle"} : Drain(k, next)
           \/ StartPublish
           \/ SkipPublish
           \/ WaitForReaders
           \/ Absorb
           \/ Swap
           \/ Notify
           \/ UpdateHealth
           \/ \E s \in Subscribers : Mount(s)
           \/ \E s \in Subscribers : Subscribe(s)
           \/ \E s \in Subscribers : Wake(s)
           \/ \E s \in Subscribers : EnterForward(s)
           \/ \E s \in Subscribers : CopyForward(s)
           \/ \E s \in Subscribers : LeaveForward(s)
           \/ \E s \in Subscribers : ForwardHealth(s)
           \/ \E s \in Subscribers : Unmount(s)
           \/ \E u \in Users : Enter(u)
           \/ \E u \in Users : Copy(u)
           \/ \E u \in Users : Leave(u)
           \/ \E u \in Users : Release(u)
           \/ \E u \in Users : Heartbeat(u)
           \/ \E r \in Readers : Stall(r)
BY DEF Next, Tick, AfterDrains, Forward, Use, Queue

LEMMA CollectedType ==
    ASSUME NEW hp \in [Cells -> Seq(Op)], NEW arcs, NEW holds
    PROVE  Collected(hp, arcs, holds) \in [Cells -> Seq(Op)]
<1>1. <<>> \in Seq(Op)
  OBVIOUS
<1> QED BY <1>1, Zenon DEF Collected

LEMMA StalledType == Stalled \in Nat
<1>1. IsFiniteSet(Readers)
  BY ReadersAssumption, FS_Union DEF Readers
<1>2. {r \in Readers : reg[r] = "stale"} \in SUBSET Readers
  OBVIOUS
<1>3. IsFiniteSet({r \in Readers : reg[r] = "stale"})
  BY <1>1, <1>2, FS_Subset
<1> QED BY <1>3, FS_CardinalityType DEF Stalled

----------------------------------------------------------------------------
(* Type correctness                                                        *)

LEMMA TypeInit == Init => TypeOK
<1> SUFFICES ASSUME Init PROVE TypeOK
  OBVIOUS
<1>1. chan \in [Queue -> Seq(Op)] /\ \A k \in Queue : \A i \in DOMAIN chan[k] : chan[k][i][1] = k
  BY DEF Init
<1>2. heap \in [Cells -> Seq(Op)] /\ half \in Seq(Op) /\ pend \in Seq(Op) /\ todo \in Seq(Op)
  BY DEF Init
<1> QED BY <1>1, <1>2 DEF Init, TypeOK, Buf

LEMMA AppendOpsType ==
    ASSUME TypeOK, NEW ops \in Seq(Op), AppendOps(ops)
    PROVE  heap' \in [Cells -> Seq(Op)] /\ pend' \in Seq(Op)
<1>1. writeBuf \in Buf
  BY DEF TypeOK, writeBuf, Other, Buf
<1>2. arc[writeBuf] \in Cells
  BY <1>1 DEF TypeOK
<1>3. heap[arc[writeBuf]] \o ops \in Seq(Op)
  BY <1>2 DEF TypeOK
<1>4. heap \in [Cells -> Seq(Op)] /\ pend \in Seq(Op) /\ pend \o ops \in Seq(Op)
  BY DEF TypeOK
<1> QED BY <1>2, <1>3, <1>4 DEF AppendOps

LEMMA TypeNext == TypeOK /\ [Next]_vars => TypeOK'
<1> SUFFICES ASSUME TypeOK, [Next]_vars PROVE TypeOK'
  OBVIOUS
<1> USE DEF TypeOK
<1>1. CASE UNCHANGED vars
  BY <1>1 DEF vars, driverVars, bufferVars, watchVars, readerVars, taskVars
<1>2. CASE \E k \in Queue : Send(k)
  <2> PICK k \in Queue : Send(k)
    BY <1>2
  <2>1. sent' \in [Kind -> Nat] /\ <<k, sent[k] + 1>> \in Op
    BY DEF Send, Queue, Kind, Op
  <2>2. Append(chan[k], <<k, sent[k] + 1>>) \in Seq(Op)
    BY <2>1
  <2>3. chan' = [chan EXCEPT ![k] = Append(chan[k], <<k, sent[k] + 1>>)]
    BY DEF Send, Channel
  <2>4. chan' \in [Queue -> Seq(Op)]
    BY <2>2, <2>3
  <2>5. ASSUME NEW q \in Queue, NEW i \in DOMAIN chan'[q] PROVE chan'[q][i][1] = q
    BY <2>1, <2>2, <2>3, <2>5
  <2> QED
    BY <2>1, <2>4, <2>5 DEF Send, bufferVars, watchVars, readerVars, taskVars
<1>3. CASE DirectAppend
  <2>1. sent' \in [Kind -> Nat] /\ << <<"append", sent["append"] + 1>> >> \in Seq(Op)
    BY <1>3 DEF DirectAppend, Kind, Op
  <2>2. heap' \in [Cells -> Seq(Op)] /\ pend' \in Seq(Op)
    BY <1>3, <2>1, AppendOpsType DEF DirectAppend
  <2> QED
    BY <1>3, <2>1, <2>2 DEF DirectAppend, driverVars, watchVars, readerVars, taskVars
<1>4. CASE WriteAbsolute
  <2>1. chan' \in [Queue -> Seq(Op)] /\ \A k \in Queue : \A i \in DOMAIN chan'[k] : chan'[k][i][1] = k
    BY <1>4 DEF WriteAbsolute
  <2> QED
    BY <1>4, <2>1 DEF WriteAbsolute, Kind, bufferVars, watchVars, readerVars, taskVars
<1>5. CASE TickStart
  <2>1. << <<"absolute", absSlot>> >> \in Seq(Op)
    BY DEF Kind, Op
  <2>2. heap' \in [Cells -> Seq(Op)] /\ pend' \in Seq(Op)
    BY <1>5, <2>1, AppendOpsType DEF TickStart
  <2> QED
    BY <1>5, <2>2 DEF TickStart, watchVars, readerVars, taskVars
<1>6. CASE \E k \in Queue : \E next \in {"mutate_set", "mutate", "check", "idle"} : Drain(k, next)
  <2> PICK k \in Queue, next \in {"mutate_set", "mutate", "check", "idle"} : Drain(k, next)
    BY <1>6
  <2>1. heap' \in [Cells -> Seq(Op)] /\ pend' \in Seq(Op)
    BY AppendOpsType DEF Drain
  <2>2. chan' \in [Queue -> Seq(Op)] /\ \A q \in Queue : \A i \in DOMAIN chan'[q] : chan'[q][i][1] = q
    BY DEF Drain, DrainQueue
  <2>3. didWork' \in BOOLEAN
    BY DEF Drain
  <2> QED
    BY <2>1, <2>2, <2>3 DEF Drain, watchVars, readerVars, taskVars
<1>7. CASE StartPublish
  BY <1>7 DEF StartPublish, bufferVars, watchVars, readerVars, taskVars
<1>8. CASE SkipPublish
  BY <1>8 DEF SkipPublish, bufferVars, watchVars, readerVars, taskVars
<1>9. CASE WaitForReaders
  <2>1. todo' \in Seq(Op)
    BY <1>9 DEF WaitForReaders, Oplog
  <2>2. arc' \in [Buf -> Cells] /\ heap' \in [Cells -> Seq(Op)]
    <3>1. CASE phase # "second"
      BY <1>9, <3>1 DEF WaitForReaders
    <3>2. CASE phase = "second"
      <4>1. PICK c \in Cells :
              /\ arc' = [arc EXCEPT ![writeBuf] = c]
              /\ heap' = Collected([heap EXCEPT ![c] = heap[arc[readBuf]]], arc', hold)
        BY <1>9, <3>2 DEF WaitForReaders
      <4>2. [heap EXCEPT ![c] = heap[arc[readBuf]]] \in [Cells -> Seq(Op)]
        OBVIOUS
      <4> QED
        BY <4>1, <4>2, CollectedType
    <3> QED BY <3>1, <3>2
  <2> QED
    BY <1>9, <2>1, <2>2 DEF WaitForReaders, watchVars, readerVars, taskVars
<1>10. CASE Absorb
  <2> DEFINE op == Head(todo)
             b  == writeBuf
  <2>1. todo' \in Seq(Op) /\ op \in Op
    BY <1>10 DEF Absorb
  <2>2. b \in Buf /\ arc[b] \in Cells
    BY DEF writeBuf, Other, Buf
  <2>3. Append(heap[arc[b]], op) \in Seq(Op)
    BY <2>1, <2>2
  <2>4. arc' \in [Buf -> Cells] /\ heap' \in [Cells -> Seq(Op)]
    <3>1. CASE Exclusive(b)
      <4>1. heap' = [heap EXCEPT ![arc[b]] = Append(heap[arc[b]], op)] /\ arc' = arc
        BY <1>10, <2>2, <3>1 DEF Absorb
      <4> QED
        BY <2>2, <2>3, <4>1
    <3>2. CASE ~Exclusive(b) /\ IsSet(op)
      <4>1. PICK c \in Cells :
              /\ arc' = [arc EXCEPT ![b] = c]
              /\ heap' = Collected([heap EXCEPT ![c] = Append(heap[arc[b]], op)], arc', hold)
        BY <1>10, <3>2 DEF Absorb
      <4>2. [heap EXCEPT ![c] = Append(heap[arc[b]], op)] \in [Cells -> Seq(Op)]
        BY <2>3
      <4> QED
        BY <4>1, <4>2, CollectedType
    <3>3. CASE ~Exclusive(b) /\ ~IsSet(op)
      BY <1>10, <3>3 DEF Absorb
    <3> QED BY <3>1, <3>2, <3>3
  <2> QED
    BY <1>10, <2>1, <2>4 DEF Absorb, driverVars, watchVars, readerVars, taskVars
<1>11. CASE Swap
  BY <1>11 DEF Swap, writeBuf, Other, Buf, watchVars, readerVars, taskVars
<1>12. CASE Notify
  BY <1>12 DEF Notify, Listening, Running, bufferVars, readerVars
<1>13. CASE UpdateHealth
  BY <1>13, StalledType DEF UpdateHealth, Running, bufferVars, readerVars
<1>14. CASE \E s \in Subscribers : Mount(s)
  BY <1>14 DEF Mount, EnterRead, Readers, driverVars, bufferVars, watchVars
<1>15. CASE \E s \in Subscribers : Subscribe(s)
  BY <1>15 DEF Subscribe, Unseen, UnseenHealth, driverVars, bufferVars, watchVars, readerVars
<1>16. CASE \E s \in Subscribers : Wake(s)
  BY <1>16 DEF Wake, driverVars, bufferVars, watchVars, readerVars
<1>17. CASE \E s \in Subscribers : EnterForward(s)
  BY <1>17 DEF EnterForward, EnterRead, Readers, driverVars, bufferVars, watchVars
<1>18. CASE \E s \in Subscribers : CopyForward(s)
  <2> PICK s \in Subscribers : CopyForward(s)
    BY <1>18
  <2>1. hold' \in [Readers -> Cells \cup {None}]
    BY DEF CopyForward, CloneArc, Readers
  <2>2. heap' \in [Cells -> Seq(Op)]
    BY CollectedType DEF CopyForward, CloneArc
  <2> QED
    BY <2>1, <2>2 DEF CopyForward, CloneArc, driverVars, watchVars
<1>19. CASE \E s \in Subscribers : LeaveForward(s)
  BY <1>19 DEF LeaveForward, LeaveRead, Readers, driverVars, bufferVars, watchVars
<1>20. CASE \E s \in Subscribers : ForwardHealth(s)
  BY <1>20 DEF ForwardHealth, driverVars, bufferVars, watchVars, readerVars
<1>21. CASE \E s \in Subscribers : Unmount(s)
  <2> PICK s \in Subscribers : Unmount(s)
    BY <1>21
  <2>1. heap' \in [Cells -> Seq(Op)]
    BY CollectedType DEF Unmount, DropArc
  <2> QED
    BY <2>1 DEF Unmount, DropArc, driverVars, watchVars
<1>22. CASE \E u \in Users : Enter(u)
  BY <1>22 DEF Enter, EnterRead, Readers, driverVars, bufferVars, watchVars, taskVars
<1>23. CASE \E u \in Users : Copy(u)
  <2> PICK u \in Users : Copy(u)
    BY <1>23
  <2>1. hold' \in [Readers -> Cells \cup {None}]
    BY DEF Copy, CloneArc, Readers
  <2>2. heap' \in [Cells -> Seq(Op)]
    BY CollectedType DEF Copy, CloneArc
  <2> QED
    BY <2>1, <2>2 DEF Copy, CloneArc, driverVars, watchVars, taskVars
<1>24. CASE \E u \in Users : Leave(u)
  BY <1>24 DEF Leave, LeaveRead, Readers, driverVars, bufferVars, watchVars, taskVars
<1>25. CASE \E u \in Users : Release(u)
  <2> PICK u \in Users : Release(u)
    BY <1>25
  <2>1. heap' \in [Cells -> Seq(Op)]
    BY CollectedType DEF Release, DropArc
  <2> QED
    BY <2>1 DEF Release, DropArc, driverVars, watchVars, taskVars
<1>26. CASE \E u \in Users : Heartbeat(u)
  BY <1>26 DEF Heartbeat, driverVars, bufferVars, watchVars, taskVars
<1>27. CASE \E r \in Readers : Stall(r)
  BY <1>27 DEF Stall, driverVars, bufferVars, watchVars, taskVars
<1> QED
  BY <1>1, <1>2, <1>3, <1>4, <1>5, <1>6, <1>7, <1>8, <1>9, <1>10, <1>11, <1>12, <1>13, <1>14,
     <1>15, <1>16, <1>17, <1>18, <1>19, <1>20, <1>21, <1>22, <1>23, <1>24, <1>25, <1>26, <1>27,
     NextCases

\* Every variable keeps its type in every behaviour of a signal.
THEOREM TypeCorrect == Spec => []TypeOK
BY TypeInit, TypeNext, PTL DEF Spec

----------------------------------------------------------------------------
(* Buffers and Arcs                                                        *)

LEMMA WriteBufType ==
    ASSUME TypeOK
    PROVE  /\ writeBuf \in Buf /\ writeBuf # readBuf /\ Buf = {readBuf, writeBuf}
           /\ arc[readBuf] \in Cells /\ arc[writeBuf] \in Cells
           /\ DistinctArcs <=> arc[readBuf] # arc[writeBuf]
           /\ Other(writeBuf) = readBuf /\ Other(readBuf) = writeBuf
BY DEF TypeOK, writeBuf, Other, Buf, DistinctArcs

LEMMA BufferInit == Init => BufferInv
<1> SUFFICES ASSUME Init PROVE BufferInv
  OBVIOUS
<1>1. None \notin Buf /\ None \notin Cells
  BY NoneAssumption
<1>2. arc[1] \in Cells /\ arc[2] \in Cells /\ writeBuf = 2
  BY DEF Init, Buf, writeBuf, Other
<1> QED
  BY <1>1, <1>2 DEF Init, BufferInv, DistinctArcs, ReadersOut, PrivateUntilPublished, Buf

\* Steps that move no guard, no Arc and no buffer.
LEMMA BufferStutter ==
    ASSUME BufferInv, UNCHANGED <<arc, readBuf, phase, guard, hold>>,
           pc' = "absorb" => pc = "absorb"
    PROVE  BufferInv'
BY DEF BufferInv, DistinctArcs, ReadersOut, PrivateUntilPublished, Unread, writeBuf, Other

LEMMA BufferNext == TypeOK /\ BufferInv /\ [Next]_vars => BufferInv'
<1> SUFFICES ASSUME TypeOK, BufferInv, [Next]_vars PROVE BufferInv'
  OBVIOUS
<1>1. CASE UNCHANGED vars
  BY <1>1, BufferStutter DEF vars, driverVars, bufferVars, readerVars
<1>2. CASE \E k \in Queue : Send(k)
  BY <1>2, BufferStutter DEF Send, bufferVars, readerVars
<1>3. CASE DirectAppend
  BY <1>3, BufferStutter DEF DirectAppend, driverVars, readerVars
<1>4. CASE WriteAbsolute
  BY <1>4, BufferStutter DEF WriteAbsolute, bufferVars, readerVars
<1>5. CASE TickStart
  BY <1>5, BufferStutter DEF TickStart, readerVars
<1>6. CASE \E k \in Queue : \E next \in {"mutate_set", "mutate", "check", "idle"} : Drain(k, next)
  BY <1>6, BufferStutter DEF Drain, readerVars
<1>7. CASE StartPublish
  BY <1>7, BufferStutter DEF StartPublish, bufferVars, readerVars
<1>8. CASE SkipPublish
  BY <1>8, BufferStutter DEF SkipPublish, bufferVars, readerVars
<1>9. CASE WaitForReaders
  <2>1. UNCHANGED <<readBuf, phase, guard, hold>> /\ Unread(writeBuf)
    BY <1>9 DEF WaitForReaders, readerVars
  <2>2. ReadersOut'
    BY <2>1 DEF ReadersOut, Unread, writeBuf, Other
  <2>3. CASE phase = "second"
    <3>1. PICK c \in Cells : FreshCell(c) /\ arc' = [arc EXCEPT ![writeBuf] = c]
      BY <1>9, <2>3 DEF WaitForReaders
    <3>2. DistinctArcs'
      BY <3>1, WriteBufType DEF FreshCell, DistinctArcs, TypeOK, Buf
    <3> QED
      BY <2>1, <2>2, <2>3, <3>2 DEF BufferInv, PrivateUntilPublished
  <2>4. CASE phase # "second"
    <3>1. arc' = arc
      BY <1>9, <2>4 DEF WaitForReaders
    <3> QED
      BY <2>1, <2>2, <3>1 DEF BufferInv, DistinctArcs, PrivateUntilPublished, writeBuf, Other
  <2> QED BY <2>3, <2>4
<1>10. CASE Absorb
  <2>1. UNCHANGED <<readBuf, phase, guard, hold, pc>>
    BY <1>10 DEF Absorb, readerVars, driverVars
  <2>2. ReadersOut'
    BY <2>1 DEF BufferInv, ReadersOut, Unread, writeBuf, Other
  <2>3. CASE arc' = arc
    BY <2>1, <2>2, <2>3 DEF BufferInv, DistinctArcs, PrivateUntilPublished, writeBuf, Other
  <2>4. CASE arc' # arc
    <3>1. PICK c \in Cells : FreshCell(c) /\ arc' = [arc EXCEPT ![writeBuf] = c]
      BY <1>10, <2>4 DEF Absorb
    <3>2. DistinctArcs'
      BY <3>1, WriteBufType DEF FreshCell, DistinctArcs, TypeOK, Buf
    <3>3. PrivateUntilPublished'
      BY <2>1, <3>1, WriteBufType
         DEF FreshCell, TypeOK, BufferInv, PrivateUntilPublished, writeBuf, Other
    <3> QED
      BY <2>2, <3>2, <3>3 DEF BufferInv
  <2> QED BY <2>3, <2>4
<1>11. CASE Swap
  BY <1>11 DEF Swap, BufferInv, DistinctArcs, ReadersOut, PrivateUntilPublished
<1>12. CASE Notify
  BY <1>12, BufferStutter DEF Notify, bufferVars, readerVars
<1>13. CASE UpdateHealth
  BY <1>13, BufferStutter DEF UpdateHealth, bufferVars, readerVars
<1>14. ASSUME NEW r \in Readers, EnterRead(r), UNCHANGED <<arc, readBuf, phase, pc>>
       PROVE  BufferInv'
  <2>1. guard' = [guard EXCEPT ![r] = readBuf] /\ hold' = hold
    BY <1>14 DEF EnterRead
  <2> QED
    BY <1>14, <2>1, WriteBufType
       DEF BufferInv, DistinctArcs, ReadersOut, PrivateUntilPublished, Unread, writeBuf, Other, TypeOK
<1>15. ASSUME NEW r \in Readers, LeaveRead(r), UNCHANGED <<arc, readBuf, phase, pc>>
       PROVE  BufferInv'
  <2>1. guard' = [guard EXCEPT ![r] = None] /\ hold' = hold
    BY <1>15 DEF LeaveRead
  <2> QED
    BY <1>15, <2>1, WriteBufType, NoneAssumption
       DEF BufferInv, DistinctArcs, ReadersOut, PrivateUntilPublished, Unread, writeBuf, Other, TypeOK
<1>16. ASSUME NEW r \in Readers, CloneArc(r), UNCHANGED <<arc, readBuf, phase, pc>>
       PROVE  BufferInv'
  <2>1. guard' = guard /\ guard[r] # None /\ hold' = [hold EXCEPT ![r] = arc[guard[r]]]
    BY <1>16 DEF CloneArc
  <2>2. guard[r] \in Buf
    BY <2>1 DEF TypeOK
  <2>3. phase = "first" => arc[guard[r]] # arc[writeBuf]
    BY <2>2, WriteBufType DEF BufferInv, PrivateUntilPublished
  <2> QED
    BY <1>16, <2>1, <2>3
       DEF BufferInv, DistinctArcs, ReadersOut, PrivateUntilPublished, Unread, writeBuf, Other, TypeOK
<1>17. ASSUME NEW r \in Readers, DropArc(r), UNCHANGED <<arc, readBuf, phase, pc, guard>>
       PROVE  BufferInv'
  <2>1. hold' = [hold EXCEPT ![r] = None]
    BY <1>17 DEF DropArc
  <2> QED
    BY <1>17, <2>1, WriteBufType, NoneAssumption
       DEF BufferInv, DistinctArcs, ReadersOut, PrivateUntilPublished, Unread, writeBuf, Other, TypeOK
<1>18. CASE \E s \in Subscribers : Mount(s) \/ EnterForward(s)
  BY <1>14, <1>18 DEF Mount, EnterForward, Readers, driverVars, bufferVars
<1>19. CASE \E s \in Subscribers : Subscribe(s) \/ Wake(s) \/ ForwardHealth(s)
  BY <1>19, BufferStutter DEF Subscribe, Wake, ForwardHealth, driverVars, bufferVars, readerVars
<1>20. CASE \E s \in Subscribers : CopyForward(s)
  BY <1>16, <1>20 DEF CopyForward, Readers, driverVars
<1>21. CASE \E s \in Subscribers : LeaveForward(s)
  BY <1>15, <1>21 DEF LeaveForward, Readers, driverVars, bufferVars
<1>22. CASE \E s \in Subscribers : Unmount(s)
  BY <1>17, <1>22 DEF Unmount, Readers, driverVars
<1>23. CASE \E u \in Users : Enter(u)
  BY <1>14, <1>23 DEF Enter, Readers, driverVars, bufferVars
<1>24. CASE \E u \in Users : Copy(u)
  BY <1>16, <1>24 DEF Copy, Readers, driverVars
<1>25. CASE \E u \in Users : Leave(u)
  BY <1>15, <1>25 DEF Leave, Readers, driverVars, bufferVars
<1>26. CASE \E u \in Users : Release(u)
  BY <1>17, <1>26 DEF Release, Readers, driverVars
<1>27. CASE (\E u \in Users : Heartbeat(u)) \/ (\E r \in Readers : Stall(r))
  BY <1>27, BufferStutter DEF Heartbeat, Stall, driverVars, bufferVars
<1> QED
  BY <1>1, <1>2, <1>3, <1>4, <1>5, <1>6, <1>7, <1>8, <1>9, <1>10, <1>11, <1>12, <1>13, <1>18,
     <1>19, <1>20, <1>21, <1>22, <1>23, <1>24, <1>25, <1>26, <1>27, NextCases

LEMMA BufferCorrect == Spec => [](TypeOK /\ BufferInv)
BY TypeInit, TypeNext, BufferInit, BufferNext, PTL DEF Spec

\* The two buffers never own one allocation.
THEOREM ArcsStayDistinct == Spec => []DistinctArcs
<1>1. BufferInv => DistinctArcs
  BY DEF BufferInv
<1> QED BY <1>1, BufferCorrect, PTL

LEMMA CollectedKeeps ==
    ASSUME NEW hp, NEW arcs, NEW holds, NEW c \in Cells, Owned(c, arcs, holds)
    PROVE  Collected(hp, arcs, holds)[c] = hp[c]
BY DEF Collected

\* What a step leaves of the values that somebody can see: the read buffer,
\* the write buffer while a late reader is inside, and every Arc that is kept.
LEMMA HeapStep ==
    ASSUME TypeOK, BufferInv, [Next]_vars
    PROVE  /\ arc'[readBuf] = arc[readBuf] /\ heap'[arc[readBuf]] = heap[arc[readBuf]]
           /\ ~Unread(writeBuf)
                => arc'[writeBuf] = arc[writeBuf] /\ heap'[arc[writeBuf]] = heap[arc[writeBuf]]
           /\ \A r \in Readers :
                hold[r] # None /\ hold'[r] = hold[r] => heap'[hold[r]] = heap[hold[r]]
<1> DEFINE Kept == /\ arc'[readBuf] = arc[readBuf] /\ heap'[arc[readBuf]] = heap[arc[readBuf]]
                   /\ ~Unread(writeBuf)
                        => /\ arc'[writeBuf] = arc[writeBuf]
                           /\ heap'[arc[writeBuf]] = heap[arc[writeBuf]]
                   /\ \A r \in Readers :
                        hold[r] # None /\ hold'[r] = hold[r] => heap'[hold[r]] = heap[hold[r]]
<1> SUFFICES Kept
  OBVIOUS
<1>0. /\ arc[readBuf] \in Cells /\ arc[writeBuf] \in Cells /\ arc[readBuf] # arc[writeBuf]
      /\ writeBuf \in Buf /\ readBuf \in Buf /\ Buf = {readBuf, writeBuf} /\ writeBuf # readBuf
      /\ \A r \in Readers : hold[r] # None => hold[r] \in Cells
      /\ heap \in [Cells -> Seq(Op)] /\ arc \in [Buf -> Cells]
  BY WriteBufType DEF BufferInv, TypeOK
<1>1. CASE UNCHANGED <<arc, heap>>
  BY <1>1
\* Only a buffer that nobody has reached is appended to in place.
<1>2. ASSUME NEW ops, AppendOps(ops), UNCHANGED <<arc, hold>> PROVE Kept
  <2>1. CASE phase # "first"
    BY <1>2, <2>1, <1>1 DEF AppendOps
  <2>2. CASE phase = "first"
    <3>1. heap' = [heap EXCEPT ![arc[writeBuf]] = heap[arc[writeBuf]] \o ops]
      BY <1>2, <2>2 DEF AppendOps
    <3>2. Unread(writeBuf) /\ \A r \in Readers : hold[r] # arc[writeBuf]
      BY <2>2 DEF BufferInv, PrivateUntilPublished, Unread
    <3> QED
      BY <1>0, <1>2, <3>1, <3>2
  <2> QED BY <2>1, <2>2
<1>3. CASE DirectAppend
  BY <1>2, <1>3 DEF DirectAppend, readerVars
<1>4. CASE TickStart
  BY <1>1, <1>2, <1>4 DEF TickStart, readerVars
<1>5. CASE \E k \in Queue : \E next \in {"mutate_set", "mutate", "check", "idle"} : Drain(k, next)
  BY <1>1, <1>2, <1>5 DEF Drain, readerVars
\* A new allocation for the write buffer takes no cell that anybody sees.
<1>6. ASSUME NEW c \in Cells, NEW v, FreshCell(c), arc' = [arc EXCEPT ![writeBuf] = c],
             heap' = Collected([heap EXCEPT ![c] = v], arc', hold), hold' = hold,
             Unread(writeBuf)
      PROVE  Kept
  <2>1. arc'[readBuf] = arc[readBuf] /\ c # arc[readBuf]
    BY <1>0, <1>6 DEF FreshCell
  <2>2. Owned(arc[readBuf], arc', hold)
    BY <1>0, <2>1 DEF Owned
  <2>a. ASSUME NEW d \in Cells, d # c, Owned(d, arc', hold) PROVE heap'[d] = heap[d]
    <3>1. [heap EXCEPT ![c] = v][d] = heap[d]
      BY <1>0, <2>a
    <3>2. Collected([heap EXCEPT ![c] = v], arc', hold)[d] = [heap EXCEPT ![c] = v][d]
      BY <2>a DEF Collected
    <3> QED
      BY <1>6, <3>1, <3>2
  <2>3. heap'[arc[readBuf]] = heap[arc[readBuf]]
    BY <1>0, <2>1, <2>2, <2>a
  <2>4. ASSUME NEW r \in Readers, hold[r] # None PROVE heap'[hold[r]] = heap[hold[r]]
    <3>1. Owned(hold[r], arc', hold) /\ hold[r] # c /\ hold[r] \in Cells
      BY <1>0, <1>6, <2>4 DEF Owned, FreshCell
    <3> QED
      BY <2>a, <3>1
  <2> QED
    BY <1>6, <2>1, <2>3, <2>4
<1>7. CASE WaitForReaders
  <2>1. hold' = hold /\ Unread(writeBuf)
    BY <1>7 DEF WaitForReaders, readerVars
  <2>2. CASE phase = "second"
    BY <1>6, <1>7, <2>1, <2>2 DEF WaitForReaders
  <2>3. CASE phase # "second"
    BY <1>1, <1>7, <2>3 DEF WaitForReaders
  <2> QED BY <2>2, <2>3
<1>8. CASE Absorb
  <2>1. hold' = hold /\ Unread(writeBuf)
    BY <1>8 DEF Absorb, readerVars, BufferInv, ReadersOut
  <2>2. CASE Exclusive(writeBuf)
    <3>1. heap' = [heap EXCEPT ![arc[writeBuf]] = Append(heap[arc[writeBuf]], Head(todo))] /\ arc' = arc
      BY <1>0, <1>8, <2>2 DEF Absorb
    <3>2. \A r \in Readers : hold[r] # arc[writeBuf]
      BY <2>2 DEF Exclusive
    <3> QED
      BY <1>0, <2>1, <3>1, <3>2
  <2>3. CASE ~Exclusive(writeBuf) /\ IsSet(Head(todo))
    BY <1>6, <1>8, <2>1, <2>3 DEF Absorb
  <2>4. CASE ~Exclusive(writeBuf) /\ ~IsSet(Head(todo))
    BY <1>1, <1>8, <2>4 DEF Absorb
  <2> QED BY <2>2, <2>3, <2>4
\* Dropping an Arc frees no allocation that somebody else owns.
<1>9. ASSUME arc' = arc, heap' = Collected(heap, arc, hold') PROVE Kept
  <2>1. Owned(arc[readBuf], arc, hold') /\ Owned(arc[writeBuf], arc, hold')
    BY <1>0 DEF Owned
  <2>2. ASSUME NEW r \in Readers, hold[r] # None, hold'[r] = hold[r]
        PROVE  heap'[hold[r]] = heap[hold[r]]
    <3>1. Owned(hold[r], arc, hold') /\ hold[r] \in Cells
      BY <1>0, <2>2 DEF Owned
    <3> QED
      BY <1>9, <3>1, CollectedKeeps
  <2> QED
    BY <1>0, <1>9, <2>1, <2>2, CollectedKeeps
<1>10. CASE \E s \in Subscribers : CopyForward(s) \/ Unmount(s)
  BY <1>9, <1>10 DEF CopyForward, Unmount, CloneArc, DropArc
<1>11. CASE \E u \in Users : Copy(u) \/ Release(u)
  BY <1>9, <1>11 DEF Copy, Release, CloneArc, DropArc
<1>12. CASE UNCHANGED vars
  BY <1>1, <1>12 DEF vars, bufferVars
<1>13. CASE (\E k \in Queue : Send(k)) \/ WriteAbsolute \/ StartPublish \/ SkipPublish
  BY <1>1, <1>13 DEF Send, WriteAbsolute, StartPublish, SkipPublish, bufferVars
<1>14. CASE Swap \/ Notify \/ UpdateHealth
  BY <1>1, <1>14 DEF Swap, Notify, UpdateHealth, bufferVars
<1>15. CASE \E s \in Subscribers : \/ Mount(s) \/ Subscribe(s) \/ Wake(s)
                                  \/ EnterForward(s) \/ LeaveForward(s) \/ ForwardHealth(s)
  BY <1>1, <1>15 DEF Mount, Subscribe, Wake, EnterForward, LeaveForward, ForwardHealth, bufferVars
<1>16. CASE \E u \in Users : Enter(u) \/ Leave(u) \/ Heartbeat(u)
  BY <1>1, <1>16 DEF Enter, Leave, Heartbeat, bufferVars
<1>17. CASE \E r \in Readers : Stall(r)
  BY <1>1, <1>17 DEF Stall, bufferVars
<1> HIDE DEF Kept
<1> QED
  BY <1>3, <1>4, <1>5, <1>7, <1>8, <1>10, <1>11, <1>12, <1>13, <1>14, <1>15, <1>16, <1>17, NextCases

\* No reader sees its buffer change while it is inside a guard.
THEOREM GuardsFreezeBuffers == Spec => FrozenUnderGuard
<1> DEFINE Frozen == \A r \in Readers :
             guard[r] # None /\ guard'[r] = guard[r]
               => arc'[guard[r]] = arc[guard[r]] /\ heap'[arc[guard[r]]] = heap[arc[guard[r]]]
<1>1. TypeOK /\ BufferInv /\ [Next]_vars => Frozen
  <2> SUFFICES ASSUME TypeOK, BufferInv, [Next]_vars, NEW r \in Readers, guard[r] # None
               PROVE  arc'[guard[r]] = arc[guard[r]] /\ heap'[arc[guard[r]]] = heap[arc[guard[r]]]
    OBVIOUS
  <2>1. guard[r] = readBuf \/ guard[r] = writeBuf
    BY WriteBufType DEF TypeOK
  <2>2. guard[r] = writeBuf => ~Unread(writeBuf)
    BY DEF Unread
  <2> QED
    BY <2>1, <2>2, HeapStep
<1>2. Spec => [][Frozen]_vars
  BY <1>1, BufferCorrect, PTL DEF Spec
<1> QED
  BY <1>2 DEF FrozenUnderGuard

\* The value behind an Arc that a reader keeps is immutable.
THEOREM KeptArcsAreImmutable == Spec => ArcImmutable
<1> DEFINE Immutable == \A r \in Readers :
             hold[r] # None /\ hold'[r] = hold[r] => heap'[hold[r]] = heap[hold[r]]
<1>1. TypeOK /\ BufferInv /\ [Next]_vars => Immutable
  BY HeapStep
<1>2. Spec => [][Immutable]_vars
  BY <1>1, BufferCorrect, PTL DEF Spec
<1> QED
  BY <1>2 DEF ArcImmutable

----------------------------------------------------------------------------
(* Notifications                                                           *)

LEMMA WakeupInit == Init => WakeupInv
BY DEF Init, WakeupInv, WakeupOf, Readers

\* A step that neither publishes, nor notifies, nor is a step of s.
LEMMA WakeupQuiet ==
    ASSUME TypeOK, BufferInv, [Next]_vars, NEW s \in Subscribers, WakeupOf(s),
           UNCHANGED <<readBuf, version>>, pc' = pc \/ (pc # "notify" /\ pc' # "notify"),
           task'[s] = task[s], guard'[s] = guard[s], hold'[s] = hold[s], dirty'[s] = dirty[s]
    PROVE  WakeupOf(s)'
<1>1. arc'[readBuf] = arc[readBuf]
  BY HeapStep
<1> QED
  BY <1>1 DEF WakeupOf, Pristine

LEMMA WakeupNext == TypeOK /\ BufferInv /\ WakeupInv /\ [Next]_vars => WakeupInv'
<1> SUFFICES ASSUME TypeOK, BufferInv, WakeupInv, [Next]_vars, NEW s \in Subscribers
             PROVE  WakeupOf(s)'
  BY DEF WakeupInv
<1>0. /\ WakeupOf(s) /\ s \in Readers /\ s \notin Users
      /\ arc'[readBuf] = arc[readBuf]
  BY HeapStep, ReadersAssumption DEF WakeupInv, Readers
<1>1. CASE UNCHANGED vars
  BY <1>0, <1>1, WakeupQuiet
     DEF vars, driverVars, bufferVars, watchVars, readerVars, taskVars
<1>2. CASE (\E k \in Queue : Send(k)) \/ DirectAppend \/ WriteAbsolute
  BY <1>0, <1>2, WakeupQuiet
     DEF Send, DirectAppend, WriteAbsolute, driverVars, bufferVars, watchVars, readerVars, taskVars
<1>3. CASE \/ TickStart
           \/ \E k \in Queue : \E next \in {"mutate_set", "mutate", "check", "idle"} : Drain(k, next)
  BY <1>0, <1>3, WakeupQuiet DEF TickStart, Drain, Queue, watchVars, readerVars, taskVars
<1>4. CASE StartPublish \/ SkipPublish
  BY <1>0, <1>4, WakeupQuiet
     DEF StartPublish, SkipPublish, bufferVars, watchVars, readerVars, taskVars
<1>5. CASE WaitForReaders \/ Absorb
  BY <1>0, <1>5, WakeupQuiet
     DEF WaitForReaders, Absorb, driverVars, watchVars, readerVars, taskVars
<1>6. CASE Swap
  BY <1>0, <1>6 DEF Swap, WakeupOf, Pristine, readerVars, taskVars
<1>7. CASE Notify
  <2>1. version' # 0 /\ UNCHANGED <<task, hold, guard>>
    BY <1>7 DEF Notify, TypeOK, readerVars
  <2>2. task[s] \in {"forward", "set", "idle"} => dirty'[s]
    BY <1>7 DEF Notify, Listening, Running
  <2> QED
    BY <1>0, <2>1, <2>2 DEF WakeupOf, Pristine
<1>8. CASE UpdateHealth
  BY <1>0, <1>8, WakeupQuiet DEF UpdateHealth, bufferVars, readerVars
\* Steps of another task, or of a user.
<1>9. ASSUME NEW r \in Readers, r # s, UNCHANGED <<readBuf, version, pc>>,
             guard' = guard \/ \E v : guard' = [guard EXCEPT ![r] = v],
             hold' = hold \/ \E v : hold' = [hold EXCEPT ![r] = v],
             task' = task \/ \E v : task' = [task EXCEPT ![r] = v],
             dirty' = dirty \/ \E v : dirty' = [dirty EXCEPT ![r] = v]
      PROVE  WakeupOf(s)'
  <2>1. guard'[s] = guard[s] /\ hold'[s] = hold[s] /\ task'[s] = task[s] /\ dirty'[s] = dirty[s]
    BY <1>0, <1>9 DEF TypeOK
  <2> QED
    BY <1>0, <1>9, <2>1, WakeupQuiet
<1>10. CASE \E u \in Users : Enter(u) \/ Copy(u) \/ Leave(u) \/ Release(u) \/ Heartbeat(u)
  <2> PICK u \in Users : Enter(u) \/ Copy(u) \/ Leave(u) \/ Release(u) \/ Heartbeat(u)
    BY <1>10
  <2>1. u \in Readers /\ u # s
    BY <1>0 DEF Readers
  <2>2. CASE Enter(u) \/ Leave(u) \/ Heartbeat(u)
    BY <1>9, <2>1, <2>2
       DEF Enter, Leave, Heartbeat, EnterRead, LeaveRead, driverVars, bufferVars, watchVars, taskVars
  <2>3. CASE Copy(u) \/ Release(u)
    BY <1>9, <2>1, <2>3
       DEF Copy, Release, CloneArc, DropArc, driverVars, watchVars, taskVars
  <2> QED BY <2>2, <2>3
<1>11. CASE \E r \in Readers : Stall(r)
  BY <1>0, <1>11, WakeupQuiet DEF Stall, driverVars, bufferVars, watchVars, taskVars
<1>12. CASE \E r \in Subscribers : Mount(r) \/ EnterForward(r)
  <2> PICK r \in Subscribers : Mount(r) \/ EnterForward(r)
    BY <1>12
  <2>1. CASE r # s
    BY <1>9, <2>1
       DEF Readers, Mount, EnterForward, EnterRead, driverVars, bufferVars, watchVars
  <2>2. CASE r = s
    <3>1. guard'[s] = readBuf /\ readBuf' = readBuf /\ task'[s] \in {"eager", "forward"}
      BY <1>0, <2>2
         DEF Mount, EnterForward, EnterRead, bufferVars, TypeOK
    <3> QED
      BY <3>1 DEF WakeupOf
  <2> QED BY <2>1, <2>2
<1>13. CASE \E r \in Subscribers : Subscribe(r)
  <2> PICK r \in Subscribers : Subscribe(r)
    BY <1>13
  <2>1. CASE r # s
    BY <1>9, <2>1 DEF Readers, Subscribe, driverVars, bufferVars, watchVars, readerVars
  <2>2. CASE r = s
    <3>1. /\ task'[s] = "idle" /\ dirty'[s] = (version # 0) /\ task[s] \in {"off", "mounted"}
          /\ UNCHANGED <<readBuf, version, pc, hold>>
      BY <2>2 DEF Subscribe, Unseen, driverVars, bufferVars, watchVars, readerVars, TypeOK
    <3> QED
      BY <1>0, <3>1 DEF WakeupOf, Pristine
  <2> QED BY <2>1, <2>2
<1>14. CASE \E r \in Subscribers : Wake(r)
  <2> PICK r \in Subscribers : Wake(r)
    BY <1>14
  <2>1. CASE r # s
    BY <1>9, <2>1 DEF Readers, Wake, driverVars, bufferVars, watchVars, readerVars
  <2>2. CASE r = s
    BY <2>2 DEF Wake, WakeupOf, TypeOK
  <2> QED BY <2>1, <2>2
<1>15. CASE \E r \in Subscribers : CopyForward(r)
  <2> PICK r \in Subscribers : CopyForward(r)
    BY <1>15
  <2>1. CASE r # s
    BY <1>9, <2>1 DEF Readers, CopyForward, CloneArc, driverVars, watchVars
  <2>2. CASE r = s
    <3>1. /\ task[s] \in {"eager", "forward"}
          /\ task'[s] = IF task[s] = "eager" THEN "copied" ELSE "set"
          /\ hold'[s] = arc[guard[s]]
          /\ UNCHANGED <<readBuf, version, pc, dirty>>
      BY <1>0, <2>2 DEF CopyForward, CloneArc, driverVars, watchVars, TypeOK
    <3> QED
      BY <1>0, <3>1 DEF WakeupOf, Pristine
  <2> QED BY <2>1, <2>2
<1>16. CASE \E r \in Subscribers : LeaveForward(r)
  <2> PICK r \in Subscribers : LeaveForward(r)
    BY <1>16
  <2>1. CASE r # s
    BY <1>9, <2>1
       DEF Readers, LeaveForward, LeaveRead, driverVars, bufferVars, watchVars
  <2>2. CASE r = s
    <3>1. /\ task[s] \in {"copied", "set"}
          /\ task'[s] = IF task[s] = "copied" THEN "mounted" ELSE "idle"
          /\ UNCHANGED <<readBuf, version, pc, dirty, hold>>
      BY <2>2 DEF LeaveForward, LeaveRead, driverVars, bufferVars, watchVars, TypeOK
    <3> QED
      BY <1>0, <3>1 DEF WakeupOf, Pristine
  <2> QED BY <2>1, <2>2
<1>17. CASE \E r \in Subscribers : ForwardHealth(r)
  BY <1>0, <1>17, WakeupQuiet DEF ForwardHealth, driverVars, bufferVars, watchVars, readerVars
<1>18. CASE \E r \in Subscribers : Unmount(r)
  <2> PICK r \in Subscribers : Unmount(r)
    BY <1>18
  <2>1. CASE r # s
    BY <1>9, <2>1 DEF Readers, Unmount, DropArc, driverVars, watchVars
  <2>2. CASE r = s
    <3>1. task'[s] = "off" /\ hold'[s] = None
      BY <1>0, <2>2 DEF Unmount, DropArc, TypeOK
    <3> QED
      BY <3>1 DEF WakeupOf
  <2> QED BY <2>1, <2>2
<1> QED
  BY <1>1, <1>2, <1>3, <1>4, <1>5, <1>6, <1>7, <1>8, <1>10, <1>11, <1>12, <1>13, <1>14,
     <1>15, <1>16, <1>17, <1>18, NextCases

LEMMA WakeupCorrect == Spec => [](TypeOK /\ BufferInv /\ WakeupInv)
BY TypeInit, TypeNext, BufferInit, BufferNext, WakeupInit, WakeupNext, PTL DEF Spec

\* A waiting task without a pending notification shows the published value.
THEOREM NoWakeupIsLost == Spec => []NoLostWakeup
<1>1. WakeupInv => NoLostWakeup
  BY DEF WakeupInv, WakeupOf, NoLostWakeup
<1> QED BY <1>1, WakeupCorrect, PTL

\* A task that defers publishing by keeping the write buffer's Arc will be
\* woken, and so let go of it.
THEOREM DeferralIsTemporary == Spec => []DeferralEnds
<1>1. TypeOK /\ BufferInv /\ WakeupInv => DeferralEnds
  <2> SUFFICES ASSUME TypeOK, BufferInv, WakeupInv, NEW s \in Subscribers,
                      task[s] \in {"set", "idle"}, hold[s] = arc[writeBuf],
                      ~dirty[s], pc # "notify"
               PROVE  FALSE
    BY DEF DeferralEnds
  <2>1. hold[s] = arc[readBuf] \/ hold[s] = None
    BY DEF WakeupInv, WakeupOf
  <2> QED
    BY <2>1, WriteBufType, NoneAssumption DEF BufferInv
<1> QED BY <1>1, WakeupCorrect, PTL

----------------------------------------------------------------------------
(* The two buffers hold the same operations, provided that every task is   *)
(* quick between entering a buffer and cloning its Arc (~SlowClone).       *)

LEMMA MoveHead ==
    ASSUME NEW S, NEW s \in Seq(S), NEW t \in Seq(S), t # <<>>
    PROVE  Append(s, Head(t)) \o Tail(t) = s \o t
<1>1. Head(t) \in S /\ Tail(t) \in Seq(S) /\ Append(s, Head(t)) \in Seq(S)
  OBVIOUS
<1>2. Len(Append(s, Head(t)) \o Tail(t)) = Len(s \o t)
  BY <1>1
<1>3. ASSUME NEW i \in 1..Len(s \o t)
      PROVE  (Append(s, Head(t)) \o Tail(t))[i] = (s \o t)[i]
  BY <1>1
<1>4. Append(s, Head(t)) \o Tail(t) \in Seq(S) /\ s \o t \in Seq(S)
  BY <1>1
<1> QED
  BY <1>2, <1>3, <1>4, SeqEqual

LEMMA ConcatOps == \A a, b, c \in Seq(Op) : (a \o b) \o c = a \o (b \o c)
BY ConcatAssociative

ConvergeInv == StaysExclusive /\ OplogInv

LEMMA ConvergeInit == Init => ConvergeInv
BY DEF Init, ConvergeInv, StaysExclusive, OplogInv, BuffersAgree

\* Steps that leave both buffers, the oplog and the driver alone.
LEMMA ConvergeQuiet ==
    ASSUME ConvergeInv, UNCHANGED <<arc, readBuf, phase, half, pend, todo>>,
           heap'[arc[readBuf]] = heap[arc[readBuf]], heap'[arc[writeBuf]] = heap[arc[writeBuf]],
           pc' = pc,
           pc \in {"wait", "absorb"} => \A r \in Readers : hold'[r] = arc[writeBuf] => hold[r] = arc[writeBuf]
    PROVE  ConvergeInv'
BY DEF ConvergeInv, StaysExclusive, Exclusive, OplogInv, BuffersAgree, writeBuf, Other

\* Driver steps outside of a publish that apply nothing to the write buffer.
LEMMA ConvergeDrive ==
    ASSUME ConvergeInv, UNCHANGED <<arc, readBuf, phase, half, todo>>,
           pc # "absorb", pc' \notin {"wait", "absorb"},
           phase = "first" => pend' = pend, phase # "first" => heap' = heap
    PROVE  ConvergeInv'
BY DEF ConvergeInv, StaysExclusive, OplogInv, BuffersAgree, writeBuf, Other

LEMMA ConvergeNext ==
    ASSUME ~SlowClone, TypeOK, BufferInv, ConvergeInv, [Next]_vars
    PROVE  ConvergeInv'
<1>0. /\ arc[readBuf] \in Cells /\ arc[writeBuf] \in Cells /\ arc[readBuf] # arc[writeBuf]
      /\ writeBuf \in Buf /\ readBuf \in Buf /\ Buf = {readBuf, writeBuf} /\ writeBuf # readBuf
      /\ heap \in [Cells -> Seq(Op)] /\ arc \in [Buf -> Cells]
      /\ heap[arc[readBuf]] \in Seq(Op) /\ heap[arc[writeBuf]] \in Seq(Op)
      /\ half \in Seq(Op) /\ pend \in Seq(Op) /\ todo \in Seq(Op)
  BY WriteBufType DEF BufferInv, TypeOK
<1>1. CASE UNCHANGED vars
  BY <1>1, ConvergeQuiet DEF vars, driverVars, bufferVars, readerVars
<1>2. CASE \E k \in Queue : Send(k)
  BY <1>2, ConvergeQuiet DEF Send, bufferVars, readerVars
<1>3. CASE DirectAppend
  BY <1>3, ConvergeDrive DEF DirectAppend, AppendOps, driverVars
<1>4. CASE WriteAbsolute \/ TickStart
  BY <1>4, ConvergeDrive DEF WriteAbsolute, TickStart, AppendOps, bufferVars
<1>5. CASE \E k \in Queue : \E next \in {"mutate_set", "mutate", "check", "idle"} : Drain(k, next)
  BY <1>5, ConvergeDrive DEF Drain, AppendOps, Queue
<1>6. CASE StartPublish
  BY <1>6 DEF StartPublish, bufferVars, readerVars,
              ConvergeInv, StaysExclusive, Exclusive, OplogInv, BuffersAgree, writeBuf, Other
<1>7. CASE SkipPublish \/ Notify \/ UpdateHealth
  BY <1>7, ConvergeDrive DEF SkipPublish, Notify, UpdateHealth, bufferVars
<1>8. CASE WaitForReaders
  <2>1. /\ UNCHANGED <<readBuf, phase, half, pend, hold>> /\ todo' = half \o pend
        /\ Exclusive(writeBuf) /\ pc' = "absorb" /\ writeBuf' = writeBuf
    BY <1>8 DEF WaitForReaders, Oplog, readerVars, ConvergeInv, StaysExclusive, writeBuf, Other
  <2>2. CASE phase = "second"
    <3>1. PICK c \in Cells :
            /\ FreshCell(c)
            /\ arc' = [arc EXCEPT ![writeBuf] = c]
            /\ heap' = Collected([heap EXCEPT ![c] = heap[arc[readBuf]]], arc', hold)
      BY <1>8, <2>2 DEF WaitForReaders
    <3>2. arc'[writeBuf] = c /\ arc'[readBuf] = arc[readBuf] /\ c # arc[readBuf]
      BY <1>0, <3>1 DEF FreshCell
    <3>3. Owned(c, arc', hold) /\ Owned(arc[readBuf], arc', hold)
      BY <1>0, <3>2 DEF Owned
    <3>4. heap'[c] = heap[arc[readBuf]]
      BY <1>0, <3>1, <3>3 DEF Collected
    <3>5. heap'[arc[readBuf]] = heap[arc[readBuf]]
      BY <1>0, <3>1, <3>2, <3>3 DEF Collected
    <3>6. Exclusive(writeBuf)'
      BY <2>1, <3>1, <3>2, WriteBufType DEF Exclusive, FreshCell
    <3>7. half = <<>> /\ half \o pend = pend
      BY <1>0, <2>2 DEF ConvergeInv, OplogInv
    <3> QED
      BY <2>1, <2>2, <3>2, <3>4, <3>5, <3>6, <3>7
         DEF ConvergeInv, StaysExclusive, OplogInv, BuffersAgree
  <2>3. CASE phase # "second"
    <3>1. UNCHANGED <<arc, heap>>
      BY <1>8, <2>3 DEF WaitForReaders
    <3>2. CASE phase = "first"
      BY <2>1, <3>1, <3>2
         DEF ConvergeInv, StaysExclusive, Exclusive, OplogInv, BuffersAgree
    <3>3. CASE phase = "rest"
      <4>1. heap[arc[readBuf]] = heap[arc[writeBuf]] \o half
        BY <1>8, <3>3 DEF WaitForReaders, ConvergeInv, OplogInv, BuffersAgree
      <4>2. heap[arc[writeBuf]] \o todo' = heap[arc[readBuf]] \o pend
        <5>1. (heap[arc[writeBuf]] \o half) \o pend = heap[arc[writeBuf]] \o (half \o pend)
          BY <1>0, ConcatOps
        <5> QED
          BY <2>1, <4>1, <5>1
      <4> QED
        BY <2>1, <3>1, <3>3, <4>2
           DEF ConvergeInv, StaysExclusive, Exclusive, OplogInv, BuffersAgree
    <3> QED BY <2>3, <3>2, <3>3 DEF TypeOK
  <2> QED BY <2>2, <2>3
<1>9. CASE Absorb
  <2>1. /\ UNCHANGED <<readBuf, phase, half, pend, hold, pc>> /\ pc = "absorb"
        /\ todo # <<>> /\ todo' = Tail(todo) /\ Exclusive(writeBuf) /\ writeBuf' = writeBuf
    BY <1>9 DEF Absorb, driverVars, readerVars, ConvergeInv, StaysExclusive, writeBuf, Other
  <2>2. heap' = [heap EXCEPT ![arc[writeBuf]] = Append(heap[arc[writeBuf]], Head(todo))] /\ arc' = arc
    BY <1>0, <1>9, <2>1 DEF Absorb
  <2>3. /\ heap'[arc[readBuf]] = heap[arc[readBuf]]
        /\ heap'[arc[writeBuf]] = Append(heap[arc[writeBuf]], Head(todo))
    BY <1>0, <2>2
  <2>4. phase # "first" /\ heap[arc[writeBuf]] \o todo = heap[arc[readBuf]] \o pend
    BY <2>1 DEF ConvergeInv, OplogInv
  <2>5. heap'[arc[writeBuf]] \o todo' = heap[arc[readBuf]] \o pend
    BY <1>0, <2>1, <2>3, <2>4, MoveHead
  <2> QED
    BY <2>1, <2>2, <2>3, <2>4, <2>5
       DEF ConvergeInv, StaysExclusive, Exclusive, OplogInv, BuffersAgree
<1>10. CASE Swap
  <2>1. /\ UNCHANGED <<arc, heap, todo>> /\ readBuf' = writeBuf /\ writeBuf' = readBuf
        /\ half' = pend /\ pend' = <<>> /\ pc = "absorb" /\ pc' = "notify" /\ todo = <<>>
        /\ phase' = IF phase = "first" THEN "second" ELSE "rest"
    BY <1>10, WriteBufType DEF Swap, writeBuf
  <2>2. CASE phase = "first"
    BY <2>1, <2>2 DEF ConvergeInv, StaysExclusive, OplogInv, BuffersAgree
  <2>3. CASE phase # "first"
    <3>1. heap[arc[writeBuf]] = heap[arc[readBuf]] \o pend
      BY <1>0, <2>1, <2>3 DEF ConvergeInv, OplogInv
    <3> QED
      BY <2>1, <2>3, <3>1 DEF ConvergeInv, StaysExclusive, OplogInv, BuffersAgree
  <2> QED BY <2>2, <2>3
\* Clones and drops: whoever clones while publish is under way is inside a
\* guard on the read buffer.
<1>11. ASSUME UNCHANGED <<arc, readBuf, phase, half, pend, todo, pc>>,
              heap' = Collected(heap, arc, hold'),
              NEW r \in Readers, NEW v \in Cells \cup {None}, hold' = [hold EXCEPT ![r] = v],
              pc \in {"wait", "absorb"} => v # arc[writeBuf]
       PROVE  ConvergeInv'
  <2>1. Owned(arc[readBuf], arc, hold') /\ Owned(arc[writeBuf], arc, hold')
    BY <1>0 DEF Owned
  <2>2. heap'[arc[readBuf]] = heap[arc[readBuf]] /\ heap'[arc[writeBuf]] = heap[arc[writeBuf]]
    BY <1>0, <1>11, <2>1, CollectedKeeps
  <2>3. pc \in {"wait", "absorb"} =>
          \A q \in Readers : hold'[q] = arc[writeBuf] => hold[q] = arc[writeBuf]
    BY <1>11 DEF TypeOK
  <2> QED
    BY <1>11, <2>2, <2>3, ConvergeQuiet
<1>12. ASSUME NEW r \in Readers, CloneArc(r), UNCHANGED <<arc, readBuf, phase, half, pend, todo, pc>>
       PROVE  ConvergeInv'
  <2>1. /\ guard[r] \in Buf /\ hold' = [hold EXCEPT ![r] = arc[guard[r]]]
        /\ heap' = Collected(heap, arc, hold') /\ arc[guard[r]] \in Cells
    BY <1>12 DEF CloneArc, TypeOK
  <2>2. pc \in {"wait", "absorb"} => guard[r] = readBuf
    BY <1>0, <1>12, <2>1 DEF CloneArc, BufferInv, ReadersOut, Unread
  <2> QED
    BY <1>0, <1>11, <1>12, <2>1, <2>2
<1>13. ASSUME NEW r \in Readers, DropArc(r), UNCHANGED <<arc, readBuf, phase, half, pend, todo, pc>>
       PROVE  ConvergeInv'
  <2>1. None # arc[writeBuf]
    BY <1>0, NoneAssumption
  <2> QED
    BY <1>11, <1>13, <2>1 DEF DropArc
<1>14. CASE \E s \in Subscribers : CopyForward(s)
  BY <1>12, <1>14 DEF CopyForward, Readers, driverVars
<1>15. CASE \E u \in Users : Copy(u)
  BY <1>12, <1>15 DEF Copy, Readers, driverVars
<1>16. CASE \E s \in Subscribers : Unmount(s)
  BY <1>13, <1>16 DEF Unmount, Readers, driverVars
<1>17. CASE \E u \in Users : Release(u)
  BY <1>13, <1>17 DEF Release, Readers, driverVars
<1>18. CASE \E s \in Subscribers : \/ Mount(s) \/ Subscribe(s) \/ Wake(s)
                                  \/ EnterForward(s) \/ LeaveForward(s) \/ ForwardHealth(s)
  BY <1>18, ConvergeQuiet
     DEF Mount, Subscribe, Wake, EnterForward, LeaveForward, ForwardHealth, EnterRead, LeaveRead,
         driverVars, bufferVars, readerVars
<1>19. CASE (\E u \in Users : Enter(u) \/ Leave(u) \/ Heartbeat(u)) \/ (\E r \in Readers : Stall(r))
  BY <1>19, ConvergeQuiet
     DEF Enter, Leave, Heartbeat, Stall, EnterRead, LeaveRead, driverVars, bufferVars
<1> QED
  BY <1>1, <1>2, <1>3, <1>4, <1>5, <1>6, <1>7, <1>8, <1>9, <1>10, <1>14, <1>15, <1>16, <1>17,
     <1>18, <1>19, NextCases

\* Neither buffer ever misses an operation that the other one has, except for
\* those that the next publish applies to it.
THEOREM BuffersConverge == ASSUME ~SlowClone PROVE Spec => []BuffersAgree
<1>1. TypeOK /\ BufferInv /\ ConvergeInv /\ [Next]_vars => ConvergeInv'
  BY ConvergeNext
<1>2. ConvergeInv => BuffersAgree
  BY DEF ConvergeInv, OplogInv
<1> QED
  BY <1>1, <1>2, ConvergeInit, BufferCorrect, PTL DEF Spec

----------------------------------------------------------------------------
(* The views of readers, again for quick tasks                             *)

LEMMA BeginsWithConcat == \A s, u \in Seq(Op) : BeginsWith(s \o u, s)
BY DEF BeginsWith

LEMMA BeginsWithItself == \A s \in Seq(Op) : BeginsWith(s, s)
BY DEF BeginsWith

LEMMA BeginsWithTransitive ==
    \A s, t, u \in Seq(Op) : BeginsWith(u, t) /\ BeginsWith(t, s) => BeginsWith(u, s)
BY DEF BeginsWith

LEMMA BeginsWithEmpty ==
    \A s, u \in Seq(Op) : BeginsWith(<<>>, s) => BeginsWith(u, s)
BY DEF BeginsWith

LEMMA BeginsWithSubSeq ==
    ASSUME NEW s \in Seq(Op), NEW t \in Seq(Op), BeginsWith(t, s)
    PROVE  Len(s) \in 0..Len(t) /\ s = SubSeq(t, 1, Len(s))
<1>1. Len(s) \in Nat /\ Len(t) \in Nat /\ Len(s) <= Len(t)
  BY DEF BeginsWith
<1>2. SubSeq(t, 1, Len(s)) \in Seq(Op) /\ Len(SubSeq(t, 1, Len(s))) = Len(s)
  BY <1>1
<1>3. \A i \in 1..Len(s) : s[i] = SubSeq(t, 1, Len(s))[i]
  BY <1>1 DEF BeginsWith
<1> QED
  BY <1>1, <1>2, <1>3, SeqEqual

LEMMA ViewInit == Init => ViewInv
<1> SUFFICES ASSUME Init PROVE ViewInv
  OBVIOUS
<1>1. arc[readBuf] \in Cells /\ arc[writeBuf] \in Cells
  BY DEF Init, Buf, writeBuf, Other
<1> QED
  BY <1>1 DEF Init, ViewInv, ViewOf

\* A late reader's buffer is a prefix of the published one.
LEMMA LateBuffer ==
    ASSUME TypeOK, BufferInv, ConvergeInv, ViewInv, ~Unread(writeBuf)
    PROVE  BeginsWith(heap[arc[readBuf]], heap[arc[writeBuf]])
<1>1. /\ heap[arc[readBuf]] \in Seq(Op) /\ heap[arc[writeBuf]] \in Seq(Op) /\ half \in Seq(Op)
  BY WriteBufType DEF TypeOK
<1>2. pc # "absorb" /\ phase # "first"
  BY DEF BufferInv, ReadersOut, PrivateUntilPublished, Unread
<1>3. CASE phase = "rest"
  BY <1>1, <1>2, <1>3, BeginsWithConcat DEF ConvergeInv, OplogInv, BuffersAgree
<1>4. CASE phase = "second"
  BY <1>1, <1>2, <1>4 DEF ViewInv, BeginsWith
<1> QED BY <1>2, <1>3, <1>4 DEF TypeOK

LEMMA ViewNext ==
    ASSUME TypeOK, TypeOK', BufferInv, ConvergeInv, ViewInv, [Next]_vars
    PROVE  ViewInv'
<1>0. /\ arc[readBuf] \in Cells /\ arc[writeBuf] \in Cells /\ arc[readBuf] # arc[writeBuf]
      /\ heap[arc[readBuf]] \in Seq(Op) /\ heap[arc[writeBuf]] \in Seq(Op) /\ pend \in Seq(Op)
      /\ \A r \in Readers : guard[r] = readBuf \/ guard[r] = writeBuf \/ guard[r] = None
      /\ \A r \in Readers : hold[r] # None => heap[hold[r]] \in Seq(Op)
      /\ None # readBuf /\ None # writeBuf
      /\ arc'[readBuf] = arc[readBuf] /\ heap'[arc[readBuf]] = heap[arc[readBuf]]
  BY WriteBufType, HeapStep, NoneAssumption DEF BufferInv, TypeOK
\* A reader that takes no step itself keeps its view, unless buffers are swapped.
<1>1. ASSUME readBuf' = readBuf, NEW r \in Readers, guard'[r] = guard[r], hold'[r] = hold[r]
      PROVE  ViewOf(r)'
  <2>1. hold[r] # None => heap'[hold[r]] = heap[hold[r]]
    BY <1>1, HeapStep
  <2>2. guard[r] = writeBuf
          => arc'[writeBuf] = arc[writeBuf] /\ heap'[arc[writeBuf]] = heap[arc[writeBuf]]
    BY HeapStep DEF Unread
  <2>3. writeBuf' = writeBuf
    BY <1>1 DEF writeBuf, Other
  <2> QED
    BY <1>0, <1>1, <2>1, <2>2, <2>3 DEF ViewInv, ViewOf
<1>2. ASSUME UNCHANGED <<readBuf, guard, hold>>, phase' = phase,
             phase = "second" /\ pc' # "absorb" =>
               pc # "absorb" /\ heap'[arc'[writeBuf]] = heap[arc[writeBuf]]
      PROVE  ViewInv'
  BY <1>0, <1>1, <1>2 DEF ViewInv, writeBuf, Other
<1>3. CASE UNCHANGED vars
  BY <1>2, <1>3 DEF vars, driverVars, bufferVars, readerVars
<1>4. CASE (\E k \in Queue : Send(k)) \/ WriteAbsolute
  BY <1>2, <1>4 DEF Send, WriteAbsolute, bufferVars, readerVars
<1>5. CASE DirectAppend
  BY <1>2, <1>5 DEF DirectAppend, AppendOps, driverVars, readerVars
<1>6. CASE TickStart
  BY <1>2, <1>6 DEF TickStart, AppendOps, readerVars
<1>7. CASE \E k \in Queue : \E next \in {"mutate_set", "mutate", "check", "idle"} : Drain(k, next)
  BY <1>2, <1>7 DEF Drain, AppendOps, Queue, readerVars
<1>8. CASE StartPublish \/ SkipPublish \/ Notify \/ UpdateHealth
  BY <1>2, <1>8 DEF StartPublish, SkipPublish, Notify, UpdateHealth, bufferVars, readerVars
<1>9. CASE WaitForReaders
  BY <1>2, <1>9 DEF WaitForReaders, readerVars
<1>10. CASE Absorb
  BY <1>2, <1>10 DEF Absorb, readerVars, driverVars
<1>11. CASE Swap
  <2>1. /\ UNCHANGED <<arc, heap, guard, hold>> /\ readBuf' = writeBuf /\ writeBuf' = readBuf
        /\ pc = "absorb" /\ todo = <<>> /\ phase' # "first"
        /\ phase' = "second" => phase = "first"
    BY <1>11, WriteBufType DEF Swap, writeBuf, readerVars
  <2>2. BeginsWith(heap[arc[writeBuf]], heap[arc[readBuf]])
    <3>1. CASE phase = "first"
      BY <1>0, <3>1 DEF ViewInv, BeginsWith
    <3>2. CASE phase # "first"
      <4>1. heap[arc[writeBuf]] = heap[arc[readBuf]] \o pend
        BY <1>0, <2>1, <3>2 DEF ConvergeInv, OplogInv
      <4> QED
        BY <1>0, <4>1, BeginsWithConcat
    <3> QED BY <3>1, <3>2
  <2>3. ASSUME NEW r \in Readers PROVE ViewOf(r)'
    <3>1. hold[r] # None => BeginsWith(heap[arc[readBuf]], heap[hold[r]])
      BY DEF ViewInv, ViewOf
    <3>2. hold[r] # None => BeginsWith(heap[arc[writeBuf]], heap[hold[r]])
      BY <1>0, <2>2, <3>1, BeginsWithTransitive
    <3>3. hold[r] # None => Len(heap[hold[r]]) <= Len(heap[arc[readBuf]])
      BY <3>1 DEF BeginsWith
    <3> QED
      BY <2>1, <3>2, <3>3 DEF ViewOf
  <2> QED
    BY <2>1, <2>3 DEF ViewInv
\* Steps of one reader.
<1>12. ASSUME NEW r \in Readers, UNCHANGED <<arc, readBuf, phase, pc>>,
              \A q \in Readers : q # r => guard'[q] = guard[q] /\ hold'[q] = hold[q],
              ViewOf(r)', heap' = heap \/ heap' = Collected(heap, arc, hold')
       PROVE  ViewInv'
  <2>1. Owned(arc[writeBuf], arc, hold')
    BY WriteBufType DEF Owned
  <2>2. heap'[arc[writeBuf]] = heap[arc[writeBuf]]
    BY <1>0, <1>12, <2>1, CollectedKeeps
  <2> QED
    BY <1>0, <1>1, <1>12, <2>2 DEF ViewInv, writeBuf, Other
<1>13. ASSUME NEW r \in Readers, EnterRead(r) \/ LeaveRead(r),
              UNCHANGED <<arc, readBuf, phase, pc, heap>>
       PROVE  ViewInv'
  <2>1. /\ hold' = hold /\ guard'[r] # writeBuf
        /\ \A q \in Readers : q # r => guard'[q] = guard[q]
    BY <1>0, <1>13, WriteBufType DEF EnterRead, LeaveRead, TypeOK
  <2>2. writeBuf' = writeBuf
    BY <1>13 DEF writeBuf, Other
  <2>3. ViewOf(r)'
    BY <1>13, <2>1, <2>2 DEF ViewInv, ViewOf
  <2> QED
    BY <1>12, <1>13, <2>1, <2>3
<1>14. ASSUME NEW r \in Readers, CloneArc(r), UNCHANGED <<arc, readBuf, phase, pc>>
       PROVE  ViewInv'
  <2>1. /\ guard' = guard /\ guard[r] # None /\ hold' = [hold EXCEPT ![r] = arc[guard[r]]]
        /\ heap' = Collected(heap, arc, hold')
    BY <1>14 DEF CloneArc
  <2>2. writeBuf' = writeBuf
    BY <1>14 DEF writeBuf, Other
  <2>3. hold'[r] = arc[guard[r]] /\ \A q \in Readers : q # r => hold'[q] = hold[q]
    BY <2>1 DEF TypeOK
  <2>4. Owned(arc[writeBuf], arc, hold')
    BY WriteBufType DEF Owned
  <2>5. heap'[arc[writeBuf]] = heap[arc[writeBuf]]
    BY <1>0, <2>1, <2>4, CollectedKeeps
  <2>6. CASE guard[r] = readBuf
    BY <1>0, <1>14, <2>1, <2>2, <2>3, <2>6, BeginsWithItself, WriteBufType, <1>12 DEF ViewOf
  <2>7. CASE guard[r] = writeBuf
    <3>1. BeginsWith(heap[arc[readBuf]], heap[arc[writeBuf]])
      BY <2>7, LateBuffer DEF Unread
    <3>2. ViewOf(r)'
      <4>1. /\ heap'[hold'[r]] = heap[arc[writeBuf]]
            /\ heap'[arc'[readBuf']] = heap[arc[readBuf]]
            /\ heap'[arc'[writeBuf']] = heap[arc[writeBuf]]
        BY <1>0, <1>14, <2>2, <2>3, <2>5, <2>7
      <4>2. Len(heap[arc[writeBuf]]) <= Len(heap[arc[writeBuf]])
        BY <1>0
      <4> QED
        BY <3>1, <4>1, <4>2 DEF ViewOf
    <3> QED
      BY <1>12, <1>14, <2>1, <2>3, <3>2
  <2> QED
    BY <1>0, <2>1, <2>6, <2>7
<1>15. ASSUME NEW r \in Readers, DropArc(r), UNCHANGED <<arc, readBuf, phase, pc, guard>>
       PROVE  ViewInv'
  <2>1. hold'[r] = None /\ \A q \in Readers : q # r => hold'[q] = hold[q]
    BY <1>15 DEF DropArc, TypeOK
  <2> QED
    BY <1>12, <1>15, <2>1 DEF DropArc, ViewOf
<1>16. CASE \E s \in Subscribers : Mount(s) \/ EnterForward(s) \/ LeaveForward(s)
  BY <1>13, <1>16 DEF Mount, EnterForward, LeaveForward, Readers, driverVars, bufferVars
<1>17. CASE \E s \in Subscribers : Subscribe(s) \/ Wake(s) \/ ForwardHealth(s)
  BY <1>2, <1>17 DEF Subscribe, Wake, ForwardHealth, driverVars, bufferVars, readerVars
<1>18. CASE \E s \in Subscribers : CopyForward(s)
  BY <1>14, <1>18 DEF CopyForward, Readers, driverVars
<1>19. CASE \E s \in Subscribers : Unmount(s)
  BY <1>15, <1>19 DEF Unmount, Readers, driverVars
<1>20. CASE \E u \in Users : Enter(u) \/ Leave(u)
  BY <1>13, <1>20 DEF Enter, Leave, Readers, driverVars, bufferVars
<1>21. CASE \E u \in Users : Copy(u)
  BY <1>14, <1>21 DEF Copy, Readers, driverVars
<1>22. CASE \E u \in Users : Release(u)
  BY <1>15, <1>22 DEF Release, Readers, driverVars
<1>23. CASE (\E u \in Users : Heartbeat(u)) \/ (\E r \in Readers : Stall(r))
  BY <1>2, <1>23 DEF Heartbeat, Stall, driverVars, bufferVars
<1> QED
  BY <1>3, <1>4, <1>5, <1>6, <1>7, <1>8, <1>9, <1>10, <1>11, <1>16, <1>17, <1>18, <1>19, <1>20,
     <1>21, <1>22, <1>23, NextCases

----------------------------------------------------------------------------
(* Refinement of SnapshotLog                                               *)

LEMMA SnapshotInit == Init => Snapshot!Init
<1> SUFFICES ASSUME Init PROVE Snapshot!Init
  OBVIOUS
<1>1. arc[readBuf] \in Cells /\ arc[writeBuf] \in Cells
  BY DEF Init, Buf, writeBuf, Other
<1> QED
  BY <1>1 DEF Init, Snapshot!Init, Log, View

LEMMA SnapshotNext ==
    ASSUME TypeOK, TypeOK', BufferInv, ConvergeInv, ViewInv, ViewInv', [Next]_vars
    PROVE  [Snapshot!Next]_Snapshot!snapshotVars
<1> DEFINE published == heap[arc[readBuf]]
<1>a. /\ arc[readBuf] \in Cells /\ arc[writeBuf] \in Cells /\ arc[readBuf] # arc[writeBuf]
      /\ published \in Seq(Op) /\ heap[arc[writeBuf]] \in Seq(Op) /\ pend \in Seq(Op)
      /\ heap \in [Cells -> Seq(Op)]
      /\ arc'[readBuf] = arc[readBuf] /\ heap'[arc[readBuf]] = heap[arc[readBuf]]
  BY WriteBufType, HeapStep DEF BufferInv, TypeOK
<1>b. Log \in Seq(Op)
  BY <1>a DEF Log
<1>0. /\ arc[readBuf] \in Cells /\ arc[writeBuf] \in Cells /\ arc[readBuf] # arc[writeBuf]
      /\ published \in Seq(Op) /\ heap[arc[writeBuf]] \in Seq(Op) /\ pend \in Seq(Op)
      /\ Log \in Seq(Op)
      /\ heap \in [Cells -> Seq(Op)]
      /\ arc'[readBuf] = arc[readBuf] /\ heap'[arc[readBuf]] = heap[arc[readBuf]]
  BY <1>a, <1>b
<1>1. ASSUME hold' = hold PROVE View' = View
  <2>1. ASSUME NEW r \in Readers, hold[r] # None PROVE heap'[hold[r]] = heap[hold[r]]
    BY <1>1, <2>1, HeapStep
  <2> QED
    BY <1>1, <2>1 DEF View
\* Steps that the abstract log does not see.
<1>2. ASSUME hold' = hold, UNCHANGED <<readBuf, phase, pend>>,
             phase = "first" => arc'[writeBuf] = arc[writeBuf] /\ heap'[arc[writeBuf]] = heap[arc[writeBuf]]
      PROVE  UNCHANGED Snapshot!snapshotVars
  <2>1. Log' = Log
    BY <1>0, <1>2 DEF Log, writeBuf, Other
  <2> QED
    BY <1>0, <1>1, <1>2, <2>1 DEF Snapshot!snapshotVars
\* Accepting operations extends the log.
<1>3. ASSUME NEW ops \in Seq(Op), AppendOps(ops), UNCHANGED <<arc, readBuf, phase, hold>>
      PROVE  [Snapshot!Next]_Snapshot!snapshotVars
  <2>1. Log' = Log \o ops
    <3>1. CASE phase = "first"
      BY <1>0, <1>3, <3>1 DEF AppendOps, Log, writeBuf, Other
    <3>2. CASE phase # "first"
      <4>1. pend' = pend \o ops /\ Log' = published \o (pend \o ops) /\ Log = published \o pend
        BY <1>0, <1>3, <3>2 DEF AppendOps, Log
      <4> QED
        BY <1>0, <1>3, <4>1, ConcatOps
    <3> QED BY <3>1, <3>2
  <2>2. published' = published /\ View' = View
    BY <1>0, <1>1, <1>3
  <2>3. CASE ops = <<>>
    BY <1>0, <2>1, <2>2, <2>3 DEF Snapshot!snapshotVars
  <2>4. CASE ops # <<>>
    <3>1. Len(Log') > Len(Log)
      BY <1>0, <1>3, <2>1, <2>4
    <3>2. BeginsWith(Log', Log) /\ Log' \in Seq(Op)
      BY <1>0, <1>3, <2>1, BeginsWithConcat
    <3>3. SubSeq(Log', 1, Len(Log)) = Log
      BY <1>0, <3>2, BeginsWithSubSeq
    <3>4. Snapshot!Commit
      BY <2>2, <3>1, <3>3 DEF Snapshot!Commit
    <3> QED
      BY <3>4 DEF Snapshot!Next
  <2> QED BY <2>3, <2>4
<1>4. CASE UNCHANGED vars
  BY <1>2, <1>4 DEF vars, bufferVars, readerVars
<1>5. CASE (\E k \in Queue : Send(k)) \/ WriteAbsolute \/ StartPublish \/ SkipPublish
           \/ Notify \/ UpdateHealth
  BY <1>2, <1>5
     DEF Send, WriteAbsolute, StartPublish, SkipPublish, Notify, UpdateHealth, bufferVars, readerVars
<1>6. CASE DirectAppend
  <2>1. << <<"append", sent["append"] + 1>> >> \in Seq(Op)
    BY DEF TypeOK, Kind, Op
  <2> QED
    BY <1>3, <1>6, <2>1 DEF DirectAppend, readerVars
<1>7. CASE TickStart
  <2>1. << <<"absolute", absSlot>> >> \in Seq(Op)
    BY DEF TypeOK, Kind, Op
  <2> QED
    BY <1>2, <1>3, <1>7, <2>1 DEF TickStart, readerVars
<1>8. CASE \E k \in Queue : \E next \in {"mutate_set", "mutate", "check", "idle"} : Drain(k, next)
  <2> PICK k \in Queue, next \in {"mutate_set", "mutate", "check", "idle"} : Drain(k, next)
    BY <1>8
  <2>1. chan[k] \in Seq(Op)
    BY DEF TypeOK
  <2> QED
    BY <1>2, <1>3, <2>1 DEF Drain, readerVars
<1>9. CASE WaitForReaders
  BY <1>2, <1>9 DEF WaitForReaders, readerVars
<1>10. CASE Absorb
  <2>1. phase # "first"
    BY <1>10 DEF Absorb, ConvergeInv, OplogInv
  <2> QED
    BY <1>2, <1>10, <2>1 DEF Absorb, readerVars
\* A publish makes the whole log visible.
<1>11. CASE Swap
  <2>1. /\ UNCHANGED <<arc, heap, hold>> /\ readBuf' = writeBuf /\ pend' = <<>>
        /\ pc = "absorb" /\ todo = <<>> /\ phase' # "first"
    BY <1>11 DEF Swap, readerVars
  <2>2. heap[arc[writeBuf]] = Log
    <3>1. CASE phase = "first"
      BY <3>1 DEF Log
    <3>2. CASE phase # "first"
      BY <1>0, <2>1, <3>2 DEF ConvergeInv, OplogInv, Log
    <3> QED BY <3>1, <3>2
  <2>3. published' = Log
    BY <2>1, <2>2
  <2>4. Log' = Log
    BY <1>0, <2>1, <2>2 DEF Log
  <2>5. Snapshot!Publish
    BY <1>1, <2>1, <2>3, <2>4 DEF Snapshot!Publish
  <2> QED
    BY <2>5 DEF Snapshot!Next
\* Clones and drops leave the log alone.
<1>12. ASSUME UNCHANGED <<arc, readBuf, phase, pend>>,
              heap' = Collected(heap, arc, hold')
       PROVE  Log' = Log /\ published' = published
  <2>1. Owned(arc[writeBuf], arc, hold')
    BY WriteBufType DEF Owned
  <2>2. heap'[arc[writeBuf]] = heap[arc[writeBuf]]
    BY <1>0, <1>12, <2>1, CollectedKeeps
  <2> QED
    BY <1>0, <1>12, <2>2 DEF Log, writeBuf, Other
<1>13. ASSUME NEW r \in Readers, NEW v \in Cells \cup {None}, hold' = [hold EXCEPT ![r] = v]
       PROVE  View' = [View EXCEPT ![r] = IF v = None THEN None ELSE heap'[v]]
  <2>1. hold'[r] = v /\ \A q \in Readers : q # r => hold'[q] = hold[q]
    BY <1>13 DEF TypeOK
  <2>2. \A q \in Readers : q # r /\ hold[q] # None => heap'[hold[q]] = heap[hold[q]]
    BY <2>1, HeapStep
  <2>3. View' = [q \in Readers |-> IF q = r THEN IF v = None THEN None ELSE heap'[v] ELSE View[q]]
    <3>1. ASSUME NEW q \in Readers
          PROVE  (IF hold'[q] = None THEN None ELSE heap'[hold'[q]])
                   = (IF q = r THEN IF v = None THEN None ELSE heap'[v] ELSE View[q])
      BY <2>1, <2>2 DEF View
    <3> QED
      BY <3>1 DEF View
  <2> QED
    BY <2>3 DEF View
\* Cloning an Arc is observing a published prefix, not shorter than before.
<1>14. ASSUME NEW r \in Readers, CloneArc(r), UNCHANGED <<arc, readBuf, phase, pend>>
       PROVE  [Snapshot!Next]_Snapshot!snapshotVars
  <2>1. /\ guard[r] \in Buf /\ arc[guard[r]] \in Cells
        /\ hold' = [hold EXCEPT ![r] = arc[guard[r]]] /\ heap' = Collected(heap, arc, hold')
    BY <1>14 DEF CloneArc, TypeOK
  <2> DEFINE new == heap'[arc[guard[r]]]
  <2>2. Owned(arc[guard[r]], arc, hold')
    BY <2>1 DEF Owned
  <2>3. new = heap[arc[guard[r]]] /\ new \in Seq(Op)
    <3>1. Collected(heap, arc, hold')[arc[guard[r]]] = heap[arc[guard[r]]]
      BY <2>1, <2>2 DEF Collected
    <3>2. heap[arc[guard[r]]] \in Seq(Op)
      BY <1>0, <2>1
    <3> QED
      BY <2>1, <3>1, <3>2
  <2>4. guard[r] = readBuf \/ (guard[r] = writeBuf /\ ~Unread(writeBuf))
    BY <2>1, WriteBufType DEF Unread
  <2>5. BeginsWith(published, new)
    BY <1>0, <2>3, <2>4, BeginsWithItself, LateBuffer
  <2>6. Len(new) \in 0..Len(published) /\ new = SubSeq(published, 1, Len(new))
    BY <1>0, <2>3, <2>5, BeginsWithSubSeq
  <2>7. View' = [View EXCEPT ![r] = new]
    BY <1>13, <2>1, NoneAssumption
  <2>8. View[r] # None => Len(View[r]) <= Len(new)
    <3>1. ViewOf(r)
      BY DEF ViewInv
    <3>2. hold[r] # None => Len(heap[hold[r]]) <= Len(published)
      BY <3>1 DEF ViewOf, BeginsWith
    <3> QED
      BY <2>3, <2>4, <3>1, <3>2 DEF View, ViewOf
  <2>9. Log' = Log /\ published' = published
    BY <1>12, <1>14, <2>1
  <2>10. Snapshot!Observe(r)
    BY <2>6, <2>7, <2>8, <2>9 DEF Snapshot!Observe
  <2> QED
    BY <2>10 DEF Snapshot!Next
<1>15. ASSUME NEW r \in Readers, DropArc(r), UNCHANGED <<arc, readBuf, phase, pend>>
       PROVE  [Snapshot!Next]_Snapshot!snapshotVars
  <2>1. hold' = [hold EXCEPT ![r] = None] /\ heap' = Collected(heap, arc, hold')
    BY <1>15 DEF DropArc
  <2>2. View' = [View EXCEPT ![r] = None]
    BY <1>13, <2>1
  <2>3. Log' = Log /\ published' = published
    BY <1>12, <1>15, <2>1
  <2>4. Snapshot!Forget(r)
    BY <2>2, <2>3 DEF Snapshot!Forget
  <2> QED
    BY <2>4 DEF Snapshot!Next
<1>16. CASE \E s \in Subscribers : \/ Mount(s) \/ Subscribe(s) \/ Wake(s)
                                  \/ EnterForward(s) \/ LeaveForward(s) \/ ForwardHealth(s)
  BY <1>2, <1>16
     DEF Mount, Subscribe, Wake, EnterForward, LeaveForward, ForwardHealth, EnterRead, LeaveRead,
         bufferVars, readerVars
<1>17. CASE \E u \in Users : Enter(u) \/ Leave(u) \/ Heartbeat(u)
  BY <1>2, <1>17 DEF Enter, Leave, Heartbeat, EnterRead, LeaveRead, bufferVars
<1>18. CASE \E r \in Readers : Stall(r)
  BY <1>2, <1>18 DEF Stall, bufferVars
<1>19. CASE \E s \in Subscribers : CopyForward(s)
  BY <1>14, <1>19 DEF CopyForward, Readers
<1>20. CASE \E u \in Users : Copy(u)
  BY <1>14, <1>20 DEF Copy, Readers
<1>21. CASE \E s \in Subscribers : Unmount(s)
  BY <1>15, <1>21 DEF Unmount, Readers
<1>22. CASE \E u \in Users : Release(u)
  BY <1>15, <1>22 DEF Release, Readers
<1> QED
  BY <1>4, <1>5, <1>6, <1>7, <1>8, <1>9, <1>10, <1>11, <1>16, <1>17, <1>18, <1>19, <1>20,
     <1>21, <1>22, NextCases

\* Buffers, oplog, guards and Arcs implement one append-only log of which every
\* reader keeps a published prefix that only grows.
THEOREM ImplementsSnapshotLog == ASSUME ~SlowClone PROVE Spec => SnapshotSpec
<1>1. TypeOK /\ BufferInv /\ ConvergeInv /\ [Next]_vars => ConvergeInv'
  BY ConvergeNext
<1>2. TypeOK /\ TypeOK' /\ BufferInv /\ ConvergeInv /\ ViewInv /\ [Next]_vars => ViewInv'
  BY ViewNext
<1>3. TypeOK /\ TypeOK' /\ BufferInv /\ ConvergeInv /\ ViewInv /\ ViewInv' /\ [Next]_vars
        => [Snapshot!Next]_Snapshot!snapshotVars
  BY SnapshotNext
<1> QED
  BY <1>1, <1>2, <1>3, BufferCorrect, ConvergeInit, ViewInit, SnapshotInit, PTL
     DEF Spec, SnapshotSpec, Snapshot!Spec
=============================================================================
