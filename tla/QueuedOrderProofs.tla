------------------------- MODULE QueuedOrderProofs -------------------------
(***************************************************************************)
(* Theorems about QueuedSignal that speak of its queues and of what the    *)
(* driver has accepted: operations are accepted in the order in which they *)
(* were sent, at most once, and none is lost; and what slow readers, which *)
(* keep closures from being applied, leave of that: the order, and every   *)
(* replacement value.                                                      *)
(***************************************************************************)
EXTENDS QueuedSignalProofs

LOCAL INSTANCE SequencesExt

\* What the write buffer will hold when it is published next, unless a closure
\* still to be applied meets a shared Arc.
Draft ==
    IF phase = "first" THEN heap[arc[writeBuf]]
    ELSE IF pc = "absorb" THEN heap[arc[writeBuf]] \o todo
    ELSE IF phase = "second" THEN heap[arc[readBuf]] \o pend
    ELSE heap[arc[writeBuf]] \o (half \o pend)

\* Until the first publish readers see nothing and left-right's oplog is empty,
\* and its first half until the second.
PhaseInv ==
    /\ phase = "first" => half = <<>> /\ pend = <<>> /\ todo = <<>> /\ heap[arc[readBuf]] = <<>>
    /\ phase = "second" => half = <<>>

\* The log holds operations, and each queue those of its kind.
LEMMA LogType ==
    ASSUME TypeOK
    PROVE  /\ Log \in Seq(Op) /\ Draft \in Seq(Op)
           /\ chan \in [Queue -> Seq(Op)] /\ sent \in [Kind -> Nat] /\ absSlot \in Nat
           /\ \A k \in Queue : /\ chan[k] \in Seq(Op)
                               /\ \A i \in 1..Len(chan[k]) : chan[k][i] \in Op /\ chan[k][i][1] = k
<1>1. /\ chan \in [Queue -> Seq(Op)] /\ sent \in [Kind -> Nat] /\ absSlot \in Nat
      /\ half \in Seq(Op) /\ pend \in Seq(Op) /\ todo \in Seq(Op) /\ heap \in [Cells -> Seq(Op)]
      /\ \A k \in Queue : \A i \in DOMAIN chan[k] : chan[k][i][1] = k
  BY DEF TypeOK
<1>2. heap[arc[readBuf]] \in Seq(Op) /\ heap[arc[writeBuf]] \in Seq(Op)
  BY <1>1, WriteBufType
<1>3. Log \in Seq(Op)
  BY <1>1, <1>2 DEF Log
<1>4. Draft \in Seq(Op)
  BY <1>1, <1>2 DEF Draft
<1>5. ASSUME NEW k \in Queue
      PROVE  /\ chan[k] \in Seq(Op)
             /\ \A i \in 1..Len(chan[k]) : chan[k][i] \in Op /\ chan[k][i][1] = k
  <2>1. chan[k] \in Seq(Op) /\ \A i \in DOMAIN chan[k] : chan[k][i][1] = k
    BY <1>1
  <2>2. DOMAIN chan[k] = 1..Len(chan[k])
    BY <2>1
  <2> QED BY <2>1, <2>2
<1> QED BY <1>1, <1>3, <1>4, <1>5

\* Every step keeps these facts of the phases.
LEMMA PhaseNext == TypeOK /\ BufferInv /\ PhaseInv /\ [Next]_vars => PhaseInv'
<1> SUFFICES ASSUME TypeOK, BufferInv, PhaseInv, [Next]_vars PROVE PhaseInv'
  OBVIOUS
<1>0. arc'[readBuf] = arc[readBuf] /\ heap'[arc[readBuf]] = heap[arc[readBuf]]
  BY HeapStep
<1>1. ASSUME UNCHANGED <<readBuf, phase, half, todo>>, phase = "first" => pend' = pend PROVE PhaseInv'
  BY <1>0, <1>1 DEF PhaseInv
<1>2. CASE UNCHANGED vars
  BY <1>1, <1>2 DEF vars, bufferVars
<1>3. CASE (\E k \in Queue : Send(k)) \/ WriteAbsolute \/ StartPublish \/ SkipPublish \/ Notify \/ UpdateHealth
  BY <1>1, <1>3 DEF Send, WriteAbsolute, StartPublish, SkipPublish, Notify, UpdateHealth, bufferVars
<1>4. CASE \/ DirectAppend \/ TickStart
           \/ \E k \in Queue : \E next \in {"mutate_set", "mutate", "check", "idle"} : Drain(k, next)
  BY <1>1, <1>4 DEF DirectAppend, TickStart, Drain, AppendOps
<1>5. CASE WaitForReaders
  BY <1>0, <1>5 DEF WaitForReaders, PhaseInv, Oplog
<1>6. CASE Absorb
  BY <1>0, <1>6 DEF Absorb, PhaseInv
<1>7. CASE Swap
  BY <1>7 DEF Swap, PhaseInv
<1>8. CASE \E s \in Subscribers : \/ Mount(s) \/ Subscribe(s) \/ Wake(s) \/ EnterForward(s)
                                  \/ CopyForward(s) \/ LeaveForward(s) \/ ForwardHealth(s) \/ Unmount(s)
  BY <1>1, <1>8
     DEF Mount, Subscribe, Wake, EnterForward, CopyForward, LeaveForward, ForwardHealth, Unmount, bufferVars
<1>9. CASE \E u \in Users : Enter(u) \/ Copy(u) \/ Leave(u) \/ Release(u) \/ Heartbeat(u)
  BY <1>1, <1>9 DEF Enter, Copy, Leave, Release, Heartbeat, bufferVars
<1>10. CASE \E r \in Readers : Stall(r)
  BY <1>1, <1>10 DEF Stall, bufferVars
<1> QED
  BY <1>2, <1>3, <1>4, <1>5, <1>6, <1>7, <1>8, <1>9, <1>10, NextCases

\* A step at which the driver accepts ops.
Accepts(ops) ==
    \/ ops = <<>> /\ UNCHANGED <<sent, chan, absSlot, discard>>
    \/ ops = <<>> /\ ((\E k \in Queue : Send(k)) \/ WriteAbsolute)
    \/ ops = << <<"append", sent["append"] + 1>> >> /\ DirectAppend
    \/ ops = (IF absSlot = 0 THEN <<>> ELSE << <<"absolute", absSlot>> >>) /\ TickStart
    \/ \E k \in Queue : \E next \in {"mutate_set", "mutate", "check", "idle"} :
         ops = (IF discard THEN <<>> ELSE chan[k]) /\ Drain(k, next)

\* M is L without a closure.
Skips(L, M) ==
    \E s, t \in Seq(Op), op \in Op : ~IsSet(op) /\ L = s \o (<<op>> \o t) /\ M = s \o t

\* A publish exchanges the two, and applying a closure to a shared Arc drops it
\* from what is published next.
LEMMA DraftStep ==
    ASSUME TypeOK, TypeOK', BufferInv, PhaseInv, [Next]_vars
    PROVE  \/ \E ops \in Seq(Op) : Accepts(ops) /\ Log' = Log \o ops /\ Draft' = Draft \o ops
           \/ /\ Log' = Draft /\ Draft' = Log /\ UNCHANGED <<sent, chan, absSlot, discard>>
              /\ Swap
           \/ /\ Log' = Log /\ Skips(Draft, Draft') /\ UNCHANGED <<sent, chan, absSlot, discard>>
              /\ Absorb /\ ~Exclusive(writeBuf)
<1> DEFINE published == heap[arc[readBuf]]
           written == heap[arc[writeBuf]]
           Same == UNCHANGED <<sent, chan, absSlot, discard>>
<1>0. /\ arc[readBuf] \in Cells /\ arc[writeBuf] \in Cells /\ arc[readBuf] # arc[writeBuf]
      /\ writeBuf \in Buf /\ readBuf \in Buf /\ writeBuf # readBuf /\ arc \in [Buf -> Cells]
      /\ published \in Seq(Op) /\ written \in Seq(Op)
      /\ half \in Seq(Op) /\ pend \in Seq(Op) /\ todo \in Seq(Op)
      /\ heap \in [Cells -> Seq(Op)] /\ Log \in Seq(Op) /\ Draft \in Seq(Op)
      /\ arc'[readBuf] = arc[readBuf] /\ heap'[arc[readBuf]] = heap[arc[readBuf]]
      /\ readBuf' = readBuf => writeBuf' = writeBuf
  BY WriteBufType, HeapStep, LogType DEF BufferInv, TypeOK, writeBuf, Other
<1>a. published \in Seq(Op) /\ written \in Seq(Op) /\ half \in Seq(Op) /\ pend \in Seq(Op) /\ todo \in Seq(Op)
  BY <1>0
<1>b. ASSUME NEW ops \in Seq(Op)
      PROVE  (written \o (half \o pend)) \o ops = written \o (half \o (pend \o ops))
  <2> DEFINE oplog == half \o pend
  <2>1. oplog \in Seq(Op) /\ oplog \o ops = half \o (pend \o ops)
    BY <1>a, ConcatOps
  <2> HIDE DEF oplog
  <2>2. (written \o oplog) \o ops = written \o (oplog \o ops)
    BY <1>a, <2>1, ConcatOps
  <2> QED BY <2>1, <2>2 DEF oplog
<1>1. ASSUME UNCHANGED <<arc, readBuf, phase, half, pend, todo>>, pc' = "absorb" <=> pc = "absorb",
             heap'[arc[writeBuf]] = heap[arc[writeBuf]]
      PROVE  Log' = Log /\ Draft' = Draft
  BY <1>0, <1>1 DEF Log, Draft
<1>2. ASSUME NEW ops \in Seq(Op), AppendOps(ops), UNCHANGED <<arc, readBuf, phase, half, todo>>,
             pc # "absorb", pc' # "absorb"
      PROVE  Log' = Log \o ops /\ Draft' = Draft \o ops
  <2>1. CASE phase = "first"
    BY <1>0, <1>2, <2>1 DEF AppendOps, Log, Draft
  <2>2. CASE phase # "first"
    <3>1. pend' = pend \o ops /\ heap' = heap
      BY <1>2, <2>2 DEF AppendOps
    <3>2. (published \o pend) \o ops = published \o (pend \o ops)
      BY <1>a, <1>2, ConcatOps
    <3>3. (written \o (half \o pend)) \o ops = written \o (half \o (pend \o ops))
      BY <1>b, <1>2
    <3> QED
      BY <1>0, <1>2, <2>2, <3>1, <3>2, <3>3 DEF Log, Draft
  <2> QED BY <2>1, <2>2
<1>c. ASSUME Log' = Log, Draft' = Draft, Accepts(<<>>)
      PROVE  \E ops \in Seq(Op) : Accepts(ops) /\ Log' = Log \o ops /\ Draft' = Draft \o ops
  <2>1. <<>> \in Seq(Op) /\ Log \o <<>> = Log /\ Draft \o <<>> = Draft
    BY <1>0
  <2> QED BY <1>c, <2>1
<1>3. CASE UNCHANGED vars
  <2>1. Log' = Log /\ Draft' = Draft /\ Same
    BY <1>1, <1>3 DEF vars, bufferVars, driverVars
  <2> QED BY <1>c, <2>1 DEF Accepts
<1>4. CASE (\E k \in Queue : Send(k)) \/ WriteAbsolute
  <2>1. Log' = Log /\ Draft' = Draft
    BY <1>1, <1>4 DEF Send, WriteAbsolute, bufferVars
  <2> QED BY <1>c, <1>4, <2>1 DEF Accepts
<1>5. CASE StartPublish \/ SkipPublish \/ Notify \/ UpdateHealth
  <2>1. Log' = Log /\ Draft' = Draft /\ Same
    BY <1>1, <1>5 DEF StartPublish, SkipPublish, Notify, UpdateHealth, bufferVars
  <2> QED BY <1>c, <2>1 DEF Accepts
<1>6. CASE DirectAppend
  <2>1. << <<"append", sent["append"] + 1>> >> \in Seq(Op)
    BY DEF TypeOK, Kind, Op
  <2>2. /\ Log' = Log \o << <<"append", sent["append"] + 1>> >>
        /\ Draft' = Draft \o << <<"append", sent["append"] + 1>> >>
    BY <1>2, <1>6, <2>1 DEF DirectAppend, driverVars
  <2> QED BY <1>6, <2>1, <2>2 DEF Accepts
<1>7. CASE TickStart
  <2> DEFINE ops == << <<"absolute", absSlot>> >>
  <2>1. CASE absSlot = 0
    <3>1. Log' = Log /\ Draft' = Draft
      BY <1>1, <1>7, <2>1 DEF TickStart
    <3> QED BY <1>c, <1>7, <2>1, <3>1 DEF Accepts
  <2>2. CASE absSlot # 0
    <3>1. ops \in Seq(Op)
      BY DEF TypeOK, Kind, Op
    <3>2. Log' = Log \o ops /\ Draft' = Draft \o ops
      BY <1>2, <1>7, <2>2, <3>1 DEF TickStart
    <3> QED BY <1>7, <2>2, <3>1, <3>2 DEF Accepts
  <2> QED BY <2>1, <2>2
<1>8. CASE \E k \in Queue : \E next \in {"mutate_set", "mutate", "check", "idle"} : Drain(k, next)
  <2> PICK k \in Queue, next \in {"mutate_set", "mutate", "check", "idle"} : Drain(k, next)
    BY <1>8
  <2>1. chan[k] \in Seq(Op) /\ k # "absorb" /\ next # "absorb"
    BY DEF TypeOK, Queue
  <2>2. CASE discard
    <3>1. Log' = Log /\ Draft' = Draft
      BY <1>1, <2>1, <2>2 DEF Drain
    <3> QED BY <1>c, <2>2, <3>1 DEF Accepts
  <2>3. CASE ~discard
    <3>1. Log' = Log \o chan[k] /\ Draft' = Draft \o chan[k]
      BY <1>2, <2>1, <2>3 DEF Drain
    <3> QED BY <2>1, <2>3, <3>1 DEF Accepts
  <2> QED BY <2>2, <2>3
<1>9. CASE WaitForReaders
  <2>1. /\ UNCHANGED <<readBuf, phase, half, pend>> /\ Same /\ pc = "wait" /\ pc' = "absorb"
        /\ todo' = half \o pend
    BY <1>9 DEF WaitForReaders, Oplog
  <2>2. Log' = Log /\ Draft' = Draft
    <3>1. CASE phase = "second"
      <4> PICK c \in Cells : /\ FreshCell(c) /\ arc' = [arc EXCEPT ![writeBuf] = c]
                             /\ heap' = Collected([heap EXCEPT ![c] = published], arc', hold)
        BY <1>9, <3>1 DEF WaitForReaders
      <4>1. arc'[writeBuf] = c /\ Owned(c, arc', hold)
        BY <1>0 DEF Owned
      <4>2. heap'[c] = published
        BY <1>0, <4>1 DEF Collected
      <4>3. half \o pend = pend
        BY <1>0, <3>1 DEF PhaseInv
      <4> QED BY <1>0, <2>1, <3>1, <4>1, <4>2, <4>3 DEF Log, Draft
    <3>2. CASE phase # "second"
      <4>1. UNCHANGED <<arc, heap>>
        BY <1>9, <3>2 DEF WaitForReaders
      <4> QED BY <1>0, <2>1, <3>2, <4>1 DEF Log, Draft
    <3> QED BY <3>1, <3>2
  <2> QED BY <1>c, <2>1, <2>2 DEF Accepts
<1>10. CASE Absorb
  <2> DEFINE op == Head(todo)
  <2>1. /\ UNCHANGED <<readBuf, phase, half, pend, pc>> /\ Same /\ pc = "absorb" /\ phase # "first"
        /\ todo' = Tail(todo) /\ todo # <<>>
    BY <1>10 DEF Absorb, driverVars, PhaseInv
  <2>2. Tail(todo) \in Seq(Op) /\ op \in Op /\ todo = <<op>> \o Tail(todo)
    BY <1>0, <2>1
  <2>3. Log' = Log
    BY <1>0, <2>1 DEF Log
  <2>4. ASSUME heap'[arc'[writeBuf]] = Append(written, op) PROVE Draft' = Draft
    <3>1. <<op>> \in Seq(Op) /\ Append(written, op) = written \o <<op>>
      BY <1>0, <2>2
    <3>2. (written \o <<op>>) \o Tail(todo) = written \o (<<op>> \o Tail(todo))
      BY <1>a, <2>2, <3>1, ConcatOps
    <3> QED BY <1>0, <2>1, <2>2, <2>4, <3>1, <3>2 DEF Draft
  <2>5. CASE Exclusive(writeBuf)
    <3>1. arc' = arc /\ heap'[arc[writeBuf]] = Append(written, op)
      BY <1>0, <1>10, <2>5 DEF Absorb
    <3> QED BY <1>c, <2>1, <2>3, <2>4, <3>1 DEF Accepts
  <2>6. CASE ~Exclusive(writeBuf) /\ IsSet(op)
    <3> PICK c \in Cells :
            /\ FreshCell(c) /\ arc' = [arc EXCEPT ![writeBuf] = c]
            /\ heap' = Collected([heap EXCEPT ![c] = Append(written, op)], arc', hold)
      BY <1>10, <2>6 DEF Absorb
    <3>1. arc'[writeBuf] = c /\ Owned(c, arc', hold)
      BY <1>0 DEF Owned
    <3>2. heap'[c] = Append(written, op)
      BY <1>0, <3>1 DEF Collected
    <3> QED BY <1>c, <2>1, <2>3, <2>4, <3>1, <3>2 DEF Accepts
  <2>7. CASE ~Exclusive(writeBuf) /\ ~IsSet(op)
    <3>1. UNCHANGED <<arc, heap>>
      BY <1>10, <2>7 DEF Absorb
    <3>2. Draft = written \o (<<op>> \o Tail(todo)) /\ Draft' = written \o Tail(todo)
      BY <1>0, <2>1, <2>2, <3>1 DEF Draft
    <3>3. Skips(Draft, Draft')
      BY <1>0, <2>2, <2>7, <3>2 DEF Skips
    <3> QED BY <1>10, <2>1, <2>3, <2>7, <3>3
  <2> QED BY <2>5, <2>6, <2>7
<1>11. CASE Swap
  <2>1. /\ UNCHANGED <<arc, heap>> /\ Same /\ readBuf' = writeBuf /\ half' = pend /\ pend' = <<>>
        /\ pc = "absorb" /\ todo = <<>> /\ pc' = "notify"
        /\ phase' = IF phase = "first" THEN "second" ELSE "rest"
    BY <1>11 DEF Swap
  <2>2. writeBuf' = readBuf
    BY <2>1, WriteBufType DEF writeBuf, Other
  <2>3. Draft = written /\ Log' = written
    BY <1>0, <2>1 DEF Log, Draft
  <2>4. Draft' = Log
    <3>1. CASE phase = "first"
      BY <1>0, <2>1, <2>2, <3>1 DEF Log, Draft
    <3>2. CASE phase # "first"
      <4>1. pend \o <<>> = pend
        BY <1>0
      <4> QED BY <1>0, <2>1, <2>2, <3>2, <4>1 DEF Log, Draft
    <3> QED BY <3>1, <3>2
  <2> QED BY <1>11, <2>1, <2>3, <2>4
<1>12. ASSUME NEW holds, heap' = Collected(heap, arc, holds), UNCHANGED <<arc, readBuf, phase, half, pend, todo, pc>>
       PROVE  Log' = Log /\ Draft' = Draft
  <2>1. Owned(arc[writeBuf], arc, holds)
    BY WriteBufType DEF Owned
  <2>2. heap'[arc[writeBuf]] = heap[arc[writeBuf]]
    BY <1>0, <1>12, <2>1, CollectedKeeps
  <2> QED
    BY <1>1, <1>12, <2>2
<1>13. CASE \E s \in Subscribers : \/ Mount(s) \/ Subscribe(s) \/ Wake(s)
                                   \/ EnterForward(s) \/ LeaveForward(s) \/ ForwardHealth(s)
  <2>1. Log' = Log /\ Draft' = Draft /\ Same
    BY <1>1, <1>13
       DEF Mount, Subscribe, Wake, EnterForward, LeaveForward, ForwardHealth, bufferVars, driverVars
  <2> QED BY <1>c, <2>1 DEF Accepts
<1>14. CASE (\E u \in Users : Enter(u) \/ Leave(u) \/ Heartbeat(u)) \/ \E r \in Readers : Stall(r)
  <2>1. Log' = Log /\ Draft' = Draft /\ Same
    BY <1>1, <1>14 DEF Enter, Leave, Heartbeat, Stall, bufferVars, driverVars
  <2> QED BY <1>c, <2>1 DEF Accepts
<1>15. CASE \/ \E s \in Subscribers : CopyForward(s) \/ Unmount(s)
            \/ \E u \in Users : Copy(u) \/ Release(u)
  <2>1. Log' = Log /\ Draft' = Draft /\ Same
    BY <1>12, <1>15 DEF CopyForward, Copy, CloneArc, Unmount, Release, DropArc, driverVars
  <2> QED BY <1>c, <2>1 DEF Accepts
<1> QED
  BY <1>3, <1>4, <1>5, <1>6, <1>7, <1>8, <1>9, <1>10, <1>11, <1>13, <1>14, <1>15, NextCases
----------------------------------------------------------------------------
(* Order                                                                   *)

\* The operations of each kind in s are in the order of their numbers.
Ordered(s) == \A i, j \in 1..Len(s) : i < j /\ s[i][1] = s[j][1] => s[i][2] < s[j][2]

\* What is in s was sent before all of its kind that is in t.
Earlier(s, t) == \A i \in 1..Len(s), j \in 1..Len(t) : s[i][1] = t[j][1] => s[i][2] < t[j][2]

\* Sent operations are numbered; what is queued, or in the slot, was sent after
\* what the log L has, and each queue is in order.
InOrder(L, st, ch, slot) ==
    /\ Ordered(L)
    /\ \A i \in 1..Len(L) : L[i][2] <= st[L[i][1]]
    /\ \A k \in Queue : /\ Ordered(ch[k]) /\ Earlier(L, ch[k])
                        /\ \A i \in 1..Len(ch[k]) : ch[k][i][2] <= st[k]
    /\ slot <= st["absolute"]
    /\ slot # 0 => Earlier(L, << <<"absolute", slot>> >>)

\* What is published now or next holds nothing out of order.
OrderInv == InOrder(Log, sent, chan, absSlot) /\ InOrder(Draft, sent, chan, absSlot)

\* A sequence in order, and another one behind it.
LEMMA OrderedConcat ==
    ASSUME NEW s \in Seq(Op), NEW t \in Seq(Op), Ordered(s), Ordered(t), Earlier(s, t)
    PROVE  Ordered(s \o t)
<1> SUFFICES ASSUME NEW i \in 1..Len(s \o t), NEW j \in 1..Len(s \o t), i < j,
                    (s \o t)[i][1] = (s \o t)[j][1]
             PROVE  (s \o t)[i][2] < (s \o t)[j][2]
  BY DEF Ordered
<1>1. CASE j <= Len(s)
  BY <1>1 DEF Ordered
<1>2. CASE i <= Len(s) /\ j > Len(s)
  BY <1>2 DEF Earlier
<1>3. CASE i > Len(s)
  BY <1>3 DEF Ordered
<1> QED BY <1>1, <1>2, <1>3

\* What is earlier, or numbered so far, in both parts of a sequence is in the whole.
LEMMA ConcatParts ==
    ASSUME NEW s \in Seq(Op), NEW t \in Seq(Op), NEW i \in 1..Len(s \o t)
    PROVE  \/ i \in 1..Len(s) /\ (s \o t)[i] = s[i]
           \/ \E j \in 1..Len(t) : (s \o t)[i] = t[j]
<1>1. CASE i <= Len(s)
  BY <1>1
<1>2. CASE i > Len(s)
  BY <1>2
<1> QED BY <1>1, <1>2

\* Accepting ops keeps a log in order.
LEMMA Accepting ==
    ASSUME TypeOK, NEW L \in Seq(Op), InOrder(L, sent, chan, absSlot), NEW ops \in Seq(Op),
           Ordered(ops), Earlier(L, ops), sent' \in [Kind -> Nat], \A k \in Kind : sent[k] <= sent'[k],
           \A i \in 1..Len(ops) : ops[i][2] <= sent'[ops[i][1]]
    PROVE  /\ Ordered(L \o ops)
           /\ \A i \in 1..Len(L \o ops) : (L \o ops)[i][2] <= sent'[(L \o ops)[i][1]]
           /\ \A t \in Seq(Op) : Earlier(L, t) /\ Earlier(ops, t) => Earlier(L \o ops, t)
<1> DEFINE M == L \o ops
<1>0. \A i \in 1..Len(M) : (i \in 1..Len(L) /\ M[i] = L[i]) \/ \E j \in 1..Len(ops) : M[i] = ops[j]
  BY ConcatParts
<1>1. Ordered(M)
  BY OrderedConcat DEF InOrder
<1> HIDE DEF M
<1>2. ASSUME NEW i \in 1..Len(M) PROVE M[i][2] <= sent'[M[i][1]]
  <2>1. CASE i \in 1..Len(L) /\ M[i] = L[i]
    <3>1. L[i][1] \in Kind /\ L[i][2] \in Nat
      BY <2>1 DEF Op
    <3>2. L[i][2] <= sent[L[i][1]]
      BY <2>1 DEF InOrder
    <3> QED BY <2>1, <3>1, <3>2 DEF TypeOK
  <2>2. CASE \E j \in 1..Len(ops) : M[i] = ops[j]
    BY <2>2
  <2> QED BY <1>0, <2>1, <2>2
<1>3. ASSUME NEW t \in Seq(Op), Earlier(L, t), Earlier(ops, t) PROVE Earlier(M, t)
  <2> SUFFICES ASSUME NEW i \in 1..Len(M), NEW j \in 1..Len(t), M[i][1] = t[j][1]
               PROVE  M[i][2] < t[j][2]
    BY DEF Earlier
  <2> QED BY <1>0, <1>3 DEF Earlier
<1> QED BY <1>1, <1>2, <1>3 DEF M

\* Accepting what was sent keeps a log in order.
LEMMA AcceptsStep ==
    ASSUME TypeOK, TypeOK', NEW L \in Seq(Op), NEW ops \in Seq(Op), InOrder(L, sent, chan, absSlot), Accepts(ops)
    PROVE  InOrder(L \o ops, sent', chan', absSlot')
<1> DEFINE M == L \o ops
<1>0. /\ L \in Seq(Op) /\ chan \in [Queue -> Seq(Op)] /\ sent \in [Kind -> Nat] /\ absSlot \in Nat
      /\ \A k \in Queue : /\ chan[k] \in Seq(Op)
                          /\ \A i \in 1..Len(chan[k]) : chan[k][i] \in Op /\ chan[k][i][1] = k
  BY LogType
<1>a. sent' \in [Kind -> Nat]
  BY DEF TypeOK
<1>b. /\ ops = <<>> => M = L
      /\ \A x : ops = x => M = L \o x
  OBVIOUS
<1> HIDE DEF M
<1>1. ASSUME M = L, UNCHANGED <<sent, chan, absSlot, discard>> PROVE InOrder(M, sent', chan', absSlot')
  BY <1>1
<1>2. ASSUME M = L, NEW k \in Queue, Send(k) PROVE InOrder(M, sent', chan', absSlot')
  <2>1. /\ sent' = [sent EXCEPT ![k] = @ + 1] /\ absSlot' = absSlot
        /\ chan' = [chan EXCEPT ![k] = Append(@, <<k, sent[k] + 1>>)]
    BY <1>2 DEF Send, Channel
  <2> DEFINE c == chan[k]
             op == <<k, sent[k] + 1>>
  <2>2. c \in Seq(Op) /\ op \in Op /\ chan'[k] = Append(c, op) /\ sent'[k] = sent[k] + 1
        /\ \A q \in Kind \ {k} : sent'[q] = sent[q]
    BY <1>0, <2>1 DEF Op, Kind
  <2>3. \A q \in Kind : sent[q] <= sent'[q] /\ sent[q] \in Nat /\ sent'[q] \in Nat
    BY <1>0, <2>1, <2>2 DEF Kind
  <2>4. \A i \in 1..Len(c) : c[i][1] = k /\ c[i][2] <= sent[k] /\ c[i][2] \in Nat
    BY <1>0, <2>2 DEF InOrder, Op
  <2>5. \A i \in 1..Len(L) : L[i][2] <= sent[L[i][1]] /\ L[i][2] \in Nat /\ L[i][1] \in Kind
    BY <1>0 DEF InOrder, Op
  <2> HIDE DEF c
  <2>6. Len(Append(c, op)) = Len(c) + 1 /\ Append(c, op)[Len(c) + 1] = op
        /\ \A i \in 1..Len(c) : Append(c, op)[i] = c[i]
    BY <2>2
  <2>7. Ordered(Append(c, op))
    BY <1>2, <2>2, <2>3, <2>4, <2>6 DEF Ordered, InOrder, c, Kind
  <2>8. Earlier(L, Append(c, op))
    BY <1>2, <2>2, <2>3, <2>5, <2>6 DEF Earlier, InOrder, c, Kind
  <2>9. \A i \in 1..Len(Append(c, op)) : Append(c, op)[i][2] <= sent'[k]
    BY <2>2, <2>3, <2>4, <2>6 DEF Kind
  <2>10. \A i \in 1..Len(L) : L[i][2] <= sent'[L[i][1]]
    BY <2>3, <2>5
  <2>11. \A q \in Queue \ {k} : chan'[q] = chan[q] /\ sent'[q] = sent[q]
    BY <1>0, <2>1, <2>2 DEF Kind
  <2>12. sent'["absolute"] = sent["absolute"]
    BY <1>2, <2>2 DEF Kind, Queue
  <2> QED
    BY <1>2, <2>1, <2>2, <2>7, <2>8, <2>9, <2>10, <2>11, <2>12 DEF InOrder
<1>3. ASSUME M = L, WriteAbsolute PROVE InOrder(M, sent', chan', absSlot')
  <2>1. /\ sent' = [sent EXCEPT !["absolute"] = @ + 1] /\ chan' = chan
        /\ absSlot' = sent["absolute"] + 1
    BY <1>3 DEF WriteAbsolute
  <2>2. /\ \A q \in Kind : sent[q] <= sent'[q] /\ sent[q] \in Nat /\ sent'[q] \in Nat
        /\ sent'["absolute"] = sent["absolute"] + 1 /\ \A q \in Queue : sent'[q] = sent[q]
    BY <1>0, <2>1 DEF Kind, Queue
  <2>3. \A i \in 1..Len(L) : L[i][2] <= sent[L[i][1]] /\ L[i][2] \in Nat /\ L[i][1] \in Kind
    BY <1>0 DEF InOrder, Op
  <2>4. \A i \in 1..Len(L) : L[i][2] <= sent'[L[i][1]]
    BY <2>2, <2>3
  <2>5. Earlier(L, << <<"absolute", sent["absolute"] + 1>> >>)
    BY <2>2, <2>3 DEF Earlier, Kind
  <2> QED BY <1>3, <2>1, <2>2, <2>4, <2>5 DEF InOrder, Kind
<1>4. ASSUME DirectAppend, M = L \o << <<"append", sent["append"] + 1>> >> PROVE InOrder(M, sent', chan', absSlot')
  <2> DEFINE new == << <<"append", sent["append"] + 1>> >>
  <2>1. sent' = [sent EXCEPT !["append"] = @ + 1] /\ UNCHANGED <<chan, absSlot>>
    BY <1>4 DEF DirectAppend, driverVars
  <2>2. /\ \A q \in Kind : sent[q] <= sent'[q] /\ sent[q] \in Nat /\ sent'[q] \in Nat
        /\ sent'["append"] = sent["append"] + 1 /\ \A q \in Queue \cup {"absolute"} : sent'[q] = sent[q]
    BY <1>0, <2>1 DEF Kind, Queue
  <2>3. new \in Seq(Op) /\ Ordered(new) /\ Len(new) = 1 /\ new[1] = <<"append", sent["append"] + 1>>
    BY <2>2 DEF Ordered, Op, Kind
  <2>4. \A i \in 1..Len(L) : L[i][2] <= sent[L[i][1]] /\ L[i][2] \in Nat
    BY <1>0 DEF InOrder, Op
  <2>5. Earlier(L, new)
    BY <2>2, <2>3, <2>4 DEF Earlier, Kind
  <2>6. \A i \in 1..Len(new) : new[i][2] <= sent'[new[i][1]]
    BY <2>2, <2>3 DEF Kind
  <2>7. \A k \in Queue : chan[k] \in Seq(Op) /\ Earlier(new, chan[k])
    <3>1. \A k \in Queue : \A i \in 1..Len(chan[k]) : chan[k][i][1] # "append"
      BY <1>0 DEF Queue
    <3> QED BY <1>0, <2>3, <3>1 DEF Earlier
  <2>8. Earlier(new, << <<"absolute", absSlot>> >>) /\ << <<"absolute", absSlot>> >> \in Seq(Op)
    BY <1>0, <2>3 DEF Earlier, Op, Kind
  <2> HIDE DEF new
  <2>9. /\ Ordered(M) /\ \A i \in 1..Len(M) : M[i][2] <= sent'[M[i][1]]
        /\ \A t \in Seq(Op) : Earlier(L, t) /\ Earlier(new, t) => Earlier(M, t)
    BY <1>0, <1>a, <1>4, <2>2, <2>3, <2>5, <2>6, Accepting DEF new
  <2> QED BY <2>1, <2>2, <2>7, <2>8, <2>9 DEF InOrder
<1>5. ASSUME TickStart, M = (IF absSlot = 0 THEN L ELSE L \o << <<"absolute", absSlot>> >>)
      PROVE  InOrder(M, sent', chan', absSlot')
  <2>1. UNCHANGED <<sent, chan>> /\ absSlot' = 0 /\ sent["absolute"] \in Nat
    BY <1>0, <1>5 DEF TickStart, Kind
  <2>2. CASE absSlot = 0
    BY <1>5, <2>1, <2>2 DEF InOrder
  <2>3. CASE absSlot # 0
    <3> DEFINE new == << <<"absolute", absSlot>> >>
    <3>1. new \in Seq(Op) /\ Ordered(new) /\ Len(new) = 1 /\ new[1] = <<"absolute", absSlot>>
      BY <1>0 DEF Ordered, Op, Kind
    <3>2. Earlier(L, new) /\ \A i \in 1..Len(new) : new[i][2] <= sent'[new[i][1]]
      BY <2>1, <2>3, <3>1 DEF InOrder
    <3>3. \A k \in Queue : chan[k] \in Seq(Op) /\ Earlier(new, chan[k])
      <4>1. \A k \in Queue : \A i \in 1..Len(chan[k]) : chan[k][i][1] # "absolute"
        BY <1>0 DEF Queue
      <4> QED BY <1>0, <3>1, <4>1 DEF Earlier
    <3>4. \A q \in Kind : sent[q] <= sent'[q]
      BY <1>0, <2>1
    <3> HIDE DEF new
    <3>5. /\ Ordered(M) /\ \A i \in 1..Len(M) : M[i][2] <= sent'[M[i][1]]
          /\ \A t \in Seq(Op) : Earlier(L, t) /\ Earlier(new, t) => Earlier(M, t)
      BY <1>0, <1>a, <1>5, <2>3, <3>1, <3>2, <3>4, Accepting DEF new
    <3> QED BY <2>1, <3>3, <3>5 DEF InOrder
  <2> QED BY <2>2, <2>3
<1>6. ASSUME NEW k \in Queue, NEW next \in {"mutate_set", "mutate", "check", "idle"}, Drain(k, next),
             M = (IF discard THEN L ELSE L \o chan[k])
      PROVE  InOrder(M, sent', chan', absSlot')
  <2>1. /\ UNCHANGED <<sent, absSlot>> /\ chan' = [chan EXCEPT ![k] = <<>>]
        /\ chan'[k] = <<>> /\ \A q \in Queue \ {k} : chan'[q] = chan[q]
    BY <1>0, <1>6 DEF Drain, DrainQueue
  <2>2. \A s : Earlier(s, <<>>)
    BY DEF Earlier
  <2>3. Ordered(<<>>)
    BY DEF Ordered
  <2>4. CASE discard
    BY <1>6, <2>1, <2>2, <2>3, <2>4 DEF InOrder
  <2>5. CASE ~discard
    <3>1. /\ chan[k] \in Seq(Op) /\ Ordered(chan[k]) /\ Earlier(L, chan[k])
          /\ \A i \in 1..Len(chan[k]) : chan[k][i][1] = k /\ chan[k][i][2] <= sent[k]
      BY <1>0 DEF InOrder
    <3>2. \A q \in Queue \ {k} : Earlier(chan[k], chan[q]) /\ chan[q] \in Seq(Op)
      BY <1>0, <3>1 DEF Earlier
    <3>3. Earlier(chan[k], << <<"absolute", absSlot>> >>) /\ << <<"absolute", absSlot>> >> \in Seq(Op)
      BY <1>0, <3>1 DEF Earlier, Queue, Op, Kind
    <3>4. \A q \in Kind : sent[q] <= sent'[q]
      BY <1>0, <2>1
    <3>5. /\ Ordered(M) /\ \A i \in 1..Len(M) : M[i][2] <= sent'[M[i][1]]
          /\ \A t \in Seq(Op) : Earlier(L, t) /\ Earlier(chan[k], t) => Earlier(M, t)
      BY <1>0, <1>a, <1>6, <2>1, <2>5, <3>1, <3>4, Accepting
    <3>6. \A q \in Queue : /\ Ordered(chan'[q]) /\ Earlier(M, chan'[q])
                           /\ \A i \in 1..Len(chan'[q]) : chan'[q][i][2] <= sent'[q]
      <4> TAKE q \in Queue
      <4>1. CASE q = k
        BY <2>1, <2>2, <2>3, <4>1
      <4>2. CASE q # k
        <5>1. Earlier(L, chan[q]) /\ Ordered(chan[q]) /\ \A i \in 1..Len(chan[q]) : chan[q][i][2] <= sent[q]
          BY DEF InOrder
        <5> QED BY <2>1, <3>2, <3>5, <4>2, <5>1
      <4> QED BY <4>1, <4>2
    <3>7. absSlot # 0 => Earlier(M, << <<"absolute", absSlot>> >>)
      BY <3>3, <3>5 DEF InOrder
    <3> QED BY <2>1, <3>5, <3>6, <3>7 DEF InOrder
  <2> QED BY <2>4, <2>5
<1> QED
  BY <1>b, <1>1, <1>2, <1>3, <1>4, <1>5, <1>6 DEF Accepts, M

\* A skipped closure leaves the others where they were, one place earlier at most.
LEMMA SkippedPlaces ==
    ASSUME NEW s \in Seq(Op), NEW t \in Seq(Op), NEW op \in Op
    PROVE  LET Place(i) == IF i <= Len(s) THEN i ELSE i + 1
           IN  \A i \in 1..Len(s \o t) : /\ Place(i) \in 1..Len(s \o (<<op>> \o t))
                                         /\ (s \o t)[i] = (s \o (<<op>> \o t))[Place(i)]
<1> DEFINE u == <<op>> \o t
<1>1. u \in Seq(Op) /\ Len(u) = Len(t) + 1 /\ \A i \in 1..Len(t) : u[i + 1] = t[i]
  OBVIOUS
<1> HIDE DEF u
<1>2. /\ Len(s \o u) = Len(s) + Len(u) /\ Len(s \o t) = Len(s) + Len(t)
      /\ \A i \in 1..Len(s) : (s \o u)[i] = s[i] /\ (s \o t)[i] = s[i]
      /\ \A i \in 1..Len(u) : (s \o u)[Len(s) + i] = u[i]
      /\ \A i \in 1..Len(t) : (s \o t)[Len(s) + i] = t[i]
  BY <1>1
<1>3. ASSUME NEW i \in 1..Len(s \o t)
      PROVE  LET p == IF i <= Len(s) THEN i ELSE i + 1
             IN  p \in 1..Len(s \o u) /\ (s \o t)[i] = (s \o u)[p]
  <2>1. CASE i <= Len(s)
    BY <1>1, <1>2, <2>1
  <2>2. CASE i > Len(s)
    <3> DEFINE j == i - Len(s)
    <3>1. j \in 1..Len(t) /\ i = Len(s) + j /\ i + 1 = Len(s) + (j + 1) /\ j + 1 \in 1..Len(u)
      BY <1>1, <1>2, <2>2
    <3>2. (s \o t)[i] = t[j] /\ (s \o u)[i + 1] = u[j + 1] /\ u[j + 1] = t[j]
      BY <1>1, <1>2, <3>1
    <3> QED BY <1>1, <1>2, <2>2, <3>1, <3>2
  <2> QED BY <2>1, <2>2
<1> QED BY <1>3 DEF u

\* Skipping a closure keeps a log in order.
LEMMA SkipsInOrder ==
    ASSUME NEW L, NEW M, NEW st, NEW ch, NEW slot, InOrder(L, st, ch, slot), Skips(L, M)
    PROVE  InOrder(M, st, ch, slot)
<1> PICK s \in Seq(Op), t \in Seq(Op), op \in Op : L = s \o (<<op>> \o t) /\ M = s \o t
  BY DEF Skips
<1> DEFINE Place(i) == IF i <= Len(s) THEN i ELSE i + 1
<1>a. \A i \in 1..Len(M) : Place(i) \in 1..Len(L) /\ M[i] = L[Place(i)]
  BY SkippedPlaces
<1>b. \A i, j \in 1..Len(M) : i < j => Place(i) < Place(j)
  <2>1. Len(s) \in Nat
    OBVIOUS
  <2>2. \A m : \A i, j \in 1..m : i < j => Place(i) < Place(j)
    BY <2>1
  <2> QED BY <2>2
<1>1. /\ \A i \in 1..Len(M) : Place(i) \in 1..Len(L) /\ M[i] = L[Place(i)]
      /\ \A i, j \in 1..Len(M) : i < j => Place(i) < Place(j)
  BY <1>a, <1>b
<1> HIDE DEF Place
<1>2. Ordered(M)
  <2> SUFFICES ASSUME NEW i \in 1..Len(M), NEW j \in 1..Len(M), i < j, M[i][1] = M[j][1]
               PROVE  M[i][2] < M[j][2]
    BY DEF Ordered
  <2>1. /\ Place(i) \in 1..Len(L) /\ Place(j) \in 1..Len(L) /\ Place(i) < Place(j)
        /\ M[i] = L[Place(i)] /\ M[j] = L[Place(j)]
    BY <1>1
  <2> QED BY <2>1 DEF InOrder, Ordered
<1>3. \A i \in 1..Len(M) : M[i][2] <= st[M[i][1]]
  BY <1>1 DEF InOrder
<1>4. ASSUME NEW u, Earlier(L, u) PROVE Earlier(M, u)
  BY <1>1, <1>4 DEF Earlier
<1> QED BY <1>2, <1>3, <1>4 DEF InOrder

\* Every step keeps the order.
LEMMA OrderStep ==
    ASSUME TypeOK, TypeOK', BufferInv, PhaseInv, OrderInv, [Next]_vars
    PROVE  OrderInv'
<1>1. Log \in Seq(Op) /\ Draft \in Seq(Op)
  BY LogType
<1>2. CASE \E ops \in Seq(Op) : Accepts(ops) /\ Log' = Log \o ops /\ Draft' = Draft \o ops
  BY <1>1, <1>2, AcceptsStep DEF OrderInv
<1>3. CASE Log' = Draft /\ Draft' = Log /\ UNCHANGED <<sent, chan, absSlot, discard>>
  BY <1>3 DEF OrderInv
<1>4. CASE Log' = Log /\ Skips(Draft, Draft') /\ UNCHANGED <<sent, chan, absSlot, discard>>
  BY <1>4, SkipsInOrder DEF OrderInv
<1> QED BY <1>2, <1>3, <1>4, DraftStep

\* Nothing is published and nothing logged at first.
LEMMA PhaseInit == Init => PhaseInv /\ Log = <<>> /\ Draft = <<>>
BY WriteBufType DEF Init, PhaseInv, Log, Draft, writeBuf, Other, Buf

\* Each sender's operations take effect at most once and in the order sent, over
\* both buffers, every phase of left-right and every deferral, and also when
\* slow readers keep closures from being applied.
THEOREM AcceptedInOrder == Spec => []AppliedInOrder
<1>1. TypeOK /\ BufferInv /\ PhaseInv /\ [Next]_vars => PhaseInv'
  BY PhaseNext
<1>2. TypeOK /\ TypeOK' /\ BufferInv /\ PhaseInv /\ OrderInv /\ [Next]_vars => OrderInv'
  BY OrderStep
<1>3. Init => PhaseInv /\ OrderInv
  <2> SUFFICES ASSUME Init PROVE PhaseInv /\ OrderInv
    OBVIOUS
  <2>1. PhaseInv /\ Log = <<>> /\ Draft = <<>>
    BY PhaseInit
  <2> QED BY <2>1 DEF Init, OrderInv, InOrder, Ordered, Earlier, Kind, Queue
<1>4. TypeOK /\ OrderInv => AppliedInOrder
  <2>1. TypeOK => Log \in Seq(Op)
    BY LogType
  <2> QED BY <2>1 DEF OrderInv, InOrder, AppliedInOrder, Ordered
<1> QED
  BY <1>1, <1>2, <1>3, <1>4, BufferCorrect, PTL DEF Spec

----------------------------------------------------------------------------
(* Replacements reach every reader                                         *)

\* The replacement values among the operations of s.
Sets(s) == {s[i] : i \in {j \in 1..Len(s) : IsSet(s[j])}}

\* A set_value is queued or in the log, unless an absolute write may have
\* discarded it; the last absolute write is in its slot or in the log.
ReplacementsKept ==
    /\ sent["absolute"] = 0 =>
         \A n \in 1..sent["set_value"] :
            Contains(chan["set_value"], <<"set_value", n>>) \/ <<"set_value", n>> \in Sets(Log)
    /\ sent["absolute"] # 0 =>
         absSlot = sent["absolute"] \/ <<"absolute", sent["absolute"]>> \in Sets(Log)

\* What was published is not taken back by a later publish.
PublishedStay == [][Sets(heap[arc[readBuf]]) \subseteq Sets(heap[arc[readBuf]])']_vars

\* A publish takes back no replacement, and an absolute write alone discards.
ReplacedInv ==
    /\ Sets(Log) = Sets(Draft)
    /\ sent["absolute"] = 0 => absSlot = 0 /\ ~discard
    /\ ReplacementsKept

\* The replacements of a sequence are those of its parts.
LEMMA SetsConcat ==
    ASSUME NEW s \in Seq(Op), NEW t \in Seq(Op)
    PROVE  Sets(s \o t) = Sets(s) \cup Sets(t)
<1>1. Sets(s \o t) \subseteq Sets(s) \cup Sets(t)
  <2> SUFFICES ASSUME NEW i \in 1..Len(s \o t), IsSet((s \o t)[i])
               PROVE  (s \o t)[i] \in Sets(s) \cup Sets(t)
    BY DEF Sets
  <2> QED BY ConcatParts DEF Sets
<1>2. Sets(s) \subseteq Sets(s \o t)
  <2> SUFFICES ASSUME NEW i \in 1..Len(s), IsSet(s[i]) PROVE s[i] \in Sets(s \o t)
    BY DEF Sets
  <2>1. i \in 1..Len(s \o t) /\ (s \o t)[i] = s[i]
    OBVIOUS
  <2> QED BY <2>1 DEF Sets
<1>3. Sets(t) \subseteq Sets(s \o t)
  <2> SUFFICES ASSUME NEW i \in 1..Len(t), IsSet(t[i]) PROVE t[i] \in Sets(s \o t)
    BY DEF Sets
  <2>1. Len(s) + i \in 1..Len(s \o t) /\ (s \o t)[Len(s) + i] = t[i]
    OBVIOUS
  <2> QED BY <2>1 DEF Sets
<1> QED BY <1>1, <1>2, <1>3

\* A single operation, and what is contained.
LEMMA SetsOfOne ==
    /\ \A op \in Op : Sets(<<op>>) = IF IsSet(op) THEN {op} ELSE {}
    /\ \A s \in Seq(Op), op \in Op : Contains(s, op) /\ IsSet(op) => op \in Sets(s)
BY DEF Sets, Contains

\* Skipping a closure leaves the replacements.
LEMMA SkipsKeepsSets ==
    ASSUME NEW L, NEW M, Skips(L, M)
    PROVE  Sets(L) = Sets(M)
<1> PICK s \in Seq(Op), t \in Seq(Op), op \in Op : ~IsSet(op) /\ L = s \o (<<op>> \o t) /\ M = s \o t
  BY DEF Skips
<1>1. <<op>> \in Seq(Op) /\ <<op>> \o t \in Seq(Op)
  OBVIOUS
<1> DEFINE one == <<op>>
           rest == one \o t
<1>2. one \in Seq(Op) /\ rest \in Seq(Op) /\ Sets(one) = {}
  BY <1>1, SetsOfOne
<1>3. Sets(s \o t) = Sets(s) \cup Sets(t)
  BY SetsConcat
<1> HIDE DEF one
<1>4. Sets(rest) = Sets(t)
  <2>1. Sets(one \o t) = Sets(one) \cup Sets(t)
    BY <1>2, SetsConcat
  <2> QED BY <1>2, <2>1
<1> HIDE DEF rest
<1>5. Sets(s \o rest) = Sets(s) \cup Sets(rest)
  BY <1>2, SetsConcat
<1> QED BY <1>3, <1>4, <1>5 DEF one, rest

\* Every step keeps the replacements of the log those of what is published next,
\* and adds those that it accepts.
LEMMA SetsStep ==
    ASSUME TypeOK, TypeOK', BufferInv, PhaseInv, [Next]_vars, Sets(Log) = Sets(Draft)
    PROVE  /\ Sets(Log)' = Sets(Draft)'
           /\ \/ \E ops \in Seq(Op) : Accepts(ops) /\ Sets(Log)' = Sets(Log) \cup Sets(ops)
              \/ Sets(Log)' = Sets(Log) /\ UNCHANGED <<sent, chan, absSlot, discard>>
<1>0. Log \in Seq(Op) /\ Draft \in Seq(Op)
  BY LogType
<1>1. ASSUME NEW ops \in Seq(Op), Accepts(ops), Log' = Log \o ops, Draft' = Draft \o ops
      PROVE  Sets(Log)' = Sets(Draft)' /\ Sets(Log)' = Sets(Log) \cup Sets(ops)
  <2>1. Sets(Log \o ops) = Sets(Log) \cup Sets(ops) /\ Sets(Draft \o ops) = Sets(Draft) \cup Sets(ops)
    BY <1>0, SetsConcat
  <2> QED BY <1>1, <2>1
<1>2. CASE Log' = Draft /\ Draft' = Log /\ UNCHANGED <<sent, chan, absSlot, discard>>
  BY <1>2
<1>3. CASE Log' = Log /\ Skips(Draft, Draft') /\ UNCHANGED <<sent, chan, absSlot, discard>>
  BY <1>3, SkipsKeepsSets
<1> QED BY <1>1, <1>2, <1>3, DraftStep

\* What a sequence contains it still contains when it grows.
LEMMA ContainsConcat ==
    ASSUME NEW s \in Seq(Op), NEW t \in Seq(Op), NEW x, Contains(s, x) \/ Contains(t, x)
    PROVE  Contains(s \o t, x)
<1>1. CASE Contains(s, x)
  <2>1. PICK i \in 1..Len(s) : s[i] = x
    BY <1>1 DEF Contains
  <2>2. i \in 1..Len(s \o t) /\ (s \o t)[i] = x
    BY <2>1
  <2> QED BY <2>2 DEF Contains
<1>2. CASE Contains(t, x)
  <2>1. PICK i \in 1..Len(t) : t[i] = x
    BY <1>2 DEF Contains
  <2>2. Len(s) + i \in 1..Len(s \o t) /\ (s \o t)[Len(s) + i] = x
    BY <2>1
  <2> QED BY <2>2 DEF Contains
<1> QED BY <1>1, <1>2

\* Sending to a queue.
LEMMA ContainsAppend ==
    ASSUME NEW s \in Seq(Op), NEW x \in Op
    PROVE  Contains(Append(s, x), x) /\ \A y : Contains(s, y) => Contains(Append(s, x), y)
<1>1. /\ Len(Append(s, x)) = Len(s) + 1 /\ Append(s, x)[Len(s) + 1] = x /\ Len(s) \in Nat
      /\ \A i \in 1..Len(s) : Append(s, x)[i] = s[i]
  OBVIOUS
<1>2. Len(s) + 1 \in 1..(Len(s) + 1) /\ 1..Len(s) \subseteq 1..(Len(s) + 1)
  BY <1>1
<1> QED BY <1>1, <1>2 DEF Contains

\* Every step keeps each replacement queued, in its slot or in the log.
LEMMA ReplacedStep ==
    ASSUME TypeOK, TypeOK', BufferInv, PhaseInv, ReplacedInv, [Next]_vars
    PROVE  ReplacedInv'
<1>0. /\ chan \in [Queue -> Seq(Op)] /\ sent \in [Kind -> Nat] /\ absSlot \in Nat
      /\ \A k \in Queue : chan[k] \in Seq(Op)
  BY LogType
<1>a. /\ Sets(Log)' = Sets(Draft)'
      /\ \/ \E ops \in Seq(Op) : Accepts(ops) /\ Sets(Log)' = Sets(Log) \cup Sets(ops)
         \/ Sets(Log)' = Sets(Log) /\ UNCHANGED <<sent, chan, absSlot, discard>>
  BY SetsStep DEF ReplacedInv
<1>b. Sets(Log) \subseteq Sets(Log)'
  BY <1>a
<1> DEFINE Absolutes == /\ sent["absolute"] = 0 => absSlot = 0 /\ ~discard
                        /\ sent["absolute"] # 0 =>
                             absSlot = sent["absolute"] \/ <<"absolute", sent["absolute"]>> \in Sets(Log)
           There(n) == Contains(chan["set_value"], <<"set_value", n>>) \/ <<"set_value", n>> \in Sets(Log)
           SetValues == sent["absolute"] = 0 => \A n \in 1..sent["set_value"] : There(n)
<1>c. Absolutes /\ SetValues
  BY DEF ReplacedInv, ReplacementsKept
<1>1. ASSUME UNCHANGED <<sent, chan, absSlot, discard>> PROVE (Absolutes /\ SetValues)'
  BY <1>b, <1>c, <1>1
<1>2. ASSUME NEW k \in Queue, Send(k) PROVE (Absolutes /\ SetValues)'
  <2>1. /\ sent' = [sent EXCEPT ![k] = @ + 1] /\ UNCHANGED <<absSlot, discard>>
        /\ chan' = [chan EXCEPT ![k] = Append(@, <<k, sent[k] + 1>>)]
    BY <1>2 DEF Send, Channel
  <2>2. /\ k \in Kind /\ <<k, sent[k] + 1>> \in Op /\ sent[k] \in Nat /\ chan[k] \in Seq(Op)
        /\ sent'[k] = sent[k] + 1 /\ sent'["absolute"] = sent["absolute"]
        /\ \A q \in Queue \ {k} : sent'[q] = sent[q] /\ chan'[q] = chan[q]
    BY <1>0, <2>1 DEF Kind, Queue, Op
  <2>3. /\ Contains(chan'[k], <<k, sent[k] + 1>>)
        /\ \A y : Contains(chan[k], y) => Contains(chan'[k], y)
    BY <1>0, <2>1, <2>2, ContainsAppend
  <2>4. Absolutes'
    BY <1>b, <1>c, <2>1, <2>2
  <2>5. CASE k = "set_value"
    <3>1. ASSUME NEW n \in 1..(sent[k] + 1), sent["absolute"] = 0 PROVE There(n)'
      <4>1. CASE n = sent[k] + 1
        BY <2>3, <2>5, <4>1
      <4>2. CASE n \in 1..sent[k]
        BY <1>b, <1>c, <2>3, <2>5, <3>1, <4>2
      <4> QED BY <2>2, <4>1, <4>2
    <3> HIDE DEF There
    <3> QED BY <2>2, <2>4, <2>5, <3>1
  <2>6. CASE k # "set_value"
    BY <1>b, <1>c, <2>2, <2>4, <2>6 DEF Queue
  <2> QED BY <2>5, <2>6
<1>3. ASSUME WriteAbsolute PROVE (Absolutes /\ SetValues)'
  <2>1. sent'["absolute"] = sent["absolute"] + 1 /\ sent["absolute"] \in Nat /\ absSlot' = sent["absolute"] + 1
    BY <1>0, <1>3 DEF WriteAbsolute, Kind
  <2> QED BY <2>1
<1>4. ASSUME DirectAppend PROVE (Absolutes /\ SetValues)'
  <2>1. /\ UNCHANGED <<chan, absSlot, discard>> /\ \A q \in Queue \cup {"absolute"} : sent'[q] = sent[q]
    BY <1>0, <1>4 DEF DirectAppend, driverVars, Kind, Queue
  <2> QED BY <1>b, <1>c, <2>1 DEF Queue
<1>5. ASSUME TickStart, Sets(Log)' = Sets(Log) \cup Sets(IF absSlot = 0 THEN <<>> ELSE << <<"absolute", absSlot>> >>)
      PROVE  (Absolutes /\ SetValues)'
  <2>1. UNCHANGED <<sent, chan>> /\ absSlot' = 0 /\ (absSlot = 0 => ~discard')
    BY <1>5 DEF TickStart
  <2>2. absSlot # 0 => <<"absolute", absSlot>> \in Sets(Log)'
    <3>1. <<"absolute", absSlot>> \in Op /\ IsSet(<<"absolute", absSlot>>)
      BY <1>0 DEF Op, Kind, IsSet
    <3> QED BY <1>5, <3>1, SetsOfOne
  <2> QED BY <1>b, <1>c, <2>1, <2>2
<1>6. ASSUME NEW k \in Queue, NEW next \in {"mutate_set", "mutate", "check", "idle"}, Drain(k, next),
             Sets(Log)' = Sets(Log) \cup Sets(IF discard THEN <<>> ELSE chan[k])
      PROVE  (Absolutes /\ SetValues)'
  <2>1. /\ UNCHANGED <<sent, absSlot, discard>> /\ \A q \in Queue \ {k} : chan'[q] = chan[q]
    BY <1>0, <1>6 DEF Drain, DrainQueue
  <2>2. Absolutes'
    BY <1>b, <1>c, <2>1
  <2>3. ASSUME NEW n \in 1..sent["set_value"], sent["absolute"] = 0 PROVE There(n)'
    <3>1. CASE k = "set_value" /\ Contains(chan[k], <<"set_value", n>>)
      <4>1. <<"set_value", n>> \in Op /\ IsSet(<<"set_value", n>>) /\ ~discard
        BY <1>0, <1>c, <2>3 DEF Op, Kind, Queue, IsSet
      <4> QED BY <1>0, <1>6, <3>1, <4>1, SetsOfOne
    <3>2. CASE k # "set_value" \/ <<"set_value", n>> \in Sets(Log)
      BY <1>b, <1>c, <2>1, <2>3, <3>2 DEF Queue
    <3> QED BY <1>c, <2>3, <3>1, <3>2
  <2> QED BY <2>1, <2>2, <2>3
<1>7. (Absolutes /\ SetValues)'
  BY <1>a, <1>1, <1>2, <1>3, <1>4, <1>5, <1>6 DEF Accepts
<1> QED BY <1>a, <1>7 DEF ReplacedInv, ReplacementsKept

\* Readers are sent to the other buffer by a swap only.
LEMMA OnlySwap == [Next]_vars => readBuf' = readBuf \/ Swap
<1> SUFFICES ASSUME [Next]_vars PROVE readBuf' = readBuf \/ Swap
  OBVIOUS
<1>1. CASE UNCHANGED vars
  BY <1>1 DEF vars, bufferVars
<1>2. CASE \/ \E k \in Queue : Send(k)
           \/ \E k \in Queue : \E next \in {"mutate_set", "mutate", "check", "idle"} : Drain(k, next)
           \/ DirectAppend \/ WriteAbsolute \/ TickStart \/ StartPublish \/ SkipPublish
           \/ WaitForReaders \/ Absorb \/ Notify \/ UpdateHealth
  BY <1>2 DEF Send, Drain, DirectAppend, WriteAbsolute, TickStart, StartPublish, SkipPublish,
              WaitForReaders, Absorb, Notify, UpdateHealth, bufferVars
<1>3. CASE \E s \in Subscribers : \/ Mount(s) \/ Subscribe(s) \/ Wake(s) \/ EnterForward(s)
                                  \/ CopyForward(s) \/ LeaveForward(s) \/ ForwardHealth(s) \/ Unmount(s)
  BY <1>3 DEF Mount, Subscribe, Wake, EnterForward, CopyForward, LeaveForward, ForwardHealth, Unmount,
              bufferVars
<1>4. CASE \/ \E u \in Users : Enter(u) \/ Copy(u) \/ Leave(u) \/ Release(u) \/ Heartbeat(u)
           \/ \E r \in Readers : Stall(r)
  BY <1>4 DEF Enter, Copy, Leave, Release, Heartbeat, Stall, bufferVars
<1> QED BY <1>1, <1>2, <1>3, <1>4, NextCases

\* Slow readers cost closures only: every replacement value is in what readers
\* will see, over both buffers, and stays there, in whatever order readers
\* clone and publishes swap.
THEOREM ReplacementsAreKept == Spec => []ReplacementsKept /\ PublishedStay
<1>1. TypeOK /\ BufferInv /\ PhaseInv /\ [Next]_vars => PhaseInv'
  BY PhaseNext
<1>2. TypeOK /\ TypeOK' /\ BufferInv /\ PhaseInv /\ ReplacedInv /\ [Next]_vars => ReplacedInv'
  BY ReplacedStep
<1>3. Init => PhaseInv /\ ReplacedInv
  <2> SUFFICES ASSUME Init PROVE PhaseInv /\ ReplacedInv
    OBVIOUS
  <2>1. PhaseInv /\ Log = <<>> /\ Draft = <<>>
    BY PhaseInit
  <2> QED BY <2>1 DEF Init, ReplacedInv, ReplacementsKept, Kind, Queue
<1>4. ReplacedInv => ReplacementsKept
  BY DEF ReplacedInv
<1>5. ASSUME TypeOK, TypeOK', BufferInv, PhaseInv, ReplacedInv, [Next]_vars
      PROVE  Sets(heap[arc[readBuf]]) \subseteq Sets(heap[arc[readBuf]])'
  <2>1. Sets(heap[arc[readBuf]]) \subseteq Sets(Log)
    <3>1. CASE phase = "first"
      BY <1>5, <3>1 DEF PhaseInv, Sets
    <3>2. CASE phase # "first"
      <4>1. heap[arc[readBuf]] \in Seq(Op) /\ pend \in Seq(Op)
        BY <1>5, WriteBufType DEF TypeOK
      <4> QED BY <3>2, <4>1, SetsConcat DEF Log
    <3> QED BY <3>1, <3>2
  <2>2. CASE readBuf' = readBuf
    BY <1>5, <2>2, HeapStep
  <2>3. CASE Swap
    <3>1. heap[arc[readBuf]]' = Draft
      <4>1. heap[arc[writeBuf]] \in Seq(Op)
        BY <1>5, WriteBufType DEF TypeOK
      <4> QED BY <2>3, <4>1 DEF Swap, Draft
    <3> QED BY <1>5, <2>1, <3>1 DEF ReplacedInv
  <2>4. readBuf' = readBuf \/ Swap
    BY <1>5, OnlySwap
  <2> QED BY <2>2, <2>3, <2>4
<1> QED
  BY <1>1, <1>2, <1>3, <1>4, <1>5, BufferCorrect, PTL DEF Spec, PublishedStay

----------------------------------------------------------------------------
(* Nothing is lost                                                         *)

\* Unless something is written absolutely, nothing is discarded.
LostInv ==
    /\ sent["absolute"] = 0 => absSlot = 0 /\ ~discard
    /\ NothingLost

\* While the buffers agree no closure is skipped and a publish changes nothing.
LEMMA LogStep ==
    ASSUME TypeOK, TypeOK', BufferInv, PhaseInv, ConvergeInv, [Next]_vars
    PROVE  \/ Log' = Log /\ UNCHANGED <<sent, chan, absSlot, discard>>
           \/ \E ops \in Seq(Op) : Accepts(ops) /\ Log' = Log \o ops
<1>1. /\ heap[arc[readBuf]] \in Seq(Op) /\ heap[arc[writeBuf]] \in Seq(Op)
      /\ half \in Seq(Op) /\ pend \in Seq(Op)
  BY WriteBufType DEF TypeOK
<1>2. Log = Draft
  <2>1. CASE phase = "rest" /\ pc # "absorb"
    <3>1. heap[arc[readBuf]] = heap[arc[writeBuf]] \o half
      BY <2>1 DEF ConvergeInv, OplogInv, BuffersAgree
    <3>2. (heap[arc[writeBuf]] \o half) \o pend = heap[arc[writeBuf]] \o (half \o pend)
      BY <1>1, ConcatOps
    <3> QED BY <2>1, <3>1, <3>2 DEF Log, Draft
  <2>2. CASE phase = "first" \/ (phase = "second" /\ pc # "absorb")
    BY <2>2 DEF Log, Draft
  <2>3. CASE phase # "first" /\ pc = "absorb"
    BY <2>3 DEF Log, Draft, ConvergeInv, OplogInv
  <2>4. phase \in {"first", "second", "rest"}
    BY DEF TypeOK
  <2> QED BY <2>1, <2>2, <2>3, <2>4
<1> QED BY <1>2, DraftStep

\* Every step keeps each operation queued or accepted.
LEMMA LostStep ==
    ASSUME TypeOK, TypeOK', BufferInv, PhaseInv, ConvergeInv, LostInv, [Next]_vars
    PROVE  LostInv'
<1>0. /\ Log \in Seq(Op) /\ chan \in [Queue -> Seq(Op)] /\ sent \in [Kind -> Nat] /\ absSlot \in Nat
      /\ \A k \in Queue : /\ chan[k] \in Seq(Op)
                          /\ \A i \in 1..Len(chan[k]) : chan[k][i] \in Op /\ chan[k][i][1] = k
  BY LogType
<1> DEFINE There(x, k) == Contains(chan[k], x) \/ Contains(Log, x)
<1>1. CASE Log' = Log /\ UNCHANGED <<sent, chan, absSlot, discard>>
  BY <1>1 DEF LostInv, NothingLost
<1>2. ASSUME Log' = Log, NEW k \in Queue, Send(k) PROVE LostInv'
  <2>1. /\ sent' = [sent EXCEPT ![k] = @ + 1] /\ UNCHANGED <<absSlot, discard>>
        /\ chan' = [chan EXCEPT ![k] = Append(@, <<k, sent[k] + 1>>)]
    BY <1>2 DEF Send, Channel
  <2>2. /\ k \in Kind /\ <<k, sent[k] + 1>> \in Op /\ sent[k] \in Nat
        /\ sent'[k] = sent[k] + 1 /\ sent'["absolute"] = sent["absolute"]
        /\ \A q \in Queue \ {k} : sent'[q] = sent[q] /\ chan'[q] = chan[q]
    BY <1>0, <2>1 DEF Kind, Queue, Op
  <2>3. chan[k] \in Seq(Op) /\ chan'[k] = Append(chan[k], <<k, sent[k] + 1>>)
    BY <1>0, <2>1
  <2>5. /\ Contains(chan'[k], <<k, sent[k] + 1>>)
        /\ \A y : Contains(chan[k], y) => Contains(chan'[k], y)
    <3> DEFINE s == chan[k]
               x == <<k, sent[k] + 1>>
    <3>1. s \in Seq(Op) /\ x \in Op
      BY <2>2, <2>3
    <3> HIDE DEF s, x
    <3>2. Contains(Append(s, x), x) /\ \A y : Contains(s, y) => Contains(Append(s, x), y)
      BY <3>1, ContainsAppend
    <3> QED BY <2>3, <3>2 DEF s, x
  <2>4. ASSUME NEW n \in 1..(sent[k] + 1), sent["absolute"] = 0
        PROVE  Contains(chan'[k], <<k, n>>) \/ Contains(Log, <<k, n>>)
    <3>1. CASE n = sent[k] + 1
      BY <2>5, <3>1
    <3>2. CASE n \in 1..sent[k]
      <4>1. There(<<k, n>>, k)
        BY <2>4, <3>2 DEF LostInv, NothingLost
      <4> QED BY <2>5, <4>1
    <3> QED BY <2>2, <3>1, <3>2
  <2> QED BY <1>2, <2>1, <2>2, <2>4 DEF LostInv, NothingLost
<1>3. ASSUME WriteAbsolute PROVE LostInv'
  <2>1. sent'["absolute"] = sent["absolute"] + 1 /\ sent["absolute"] \in Nat
    BY <1>0, <1>3 DEF WriteAbsolute, Kind
  <2> QED BY <2>1 DEF LostInv, NothingLost
<1>4. ASSUME DirectAppend, Log' = Log \o << <<"append", sent["append"] + 1>> >> PROVE LostInv'
  <2>1. /\ UNCHANGED <<chan, absSlot, discard>>
        /\ \A q \in Queue \cup {"absolute"} : sent'[q] = sent[q]
        /\ << <<"append", sent["append"] + 1>> >> \in Seq(Op)
    BY <1>0, <1>4 DEF DirectAppend, driverVars, Kind, Queue, Op
  <2> QED BY <1>0, <1>4, <2>1, ContainsConcat DEF LostInv, NothingLost
<1>5. ASSUME TickStart, Log' = (IF absSlot = 0 THEN Log ELSE Log \o << <<"absolute", absSlot>> >>)
      PROVE  LostInv'
  <2>1. UNCHANGED <<sent, chan>> /\ absSlot' = 0 /\ (absSlot = 0 => ~discard')
    BY <1>5 DEF TickStart
  <2> QED BY <1>5, <2>1 DEF LostInv, NothingLost
<1>6. ASSUME NEW k \in Queue, NEW next \in {"mutate_set", "mutate", "check", "idle"}, Drain(k, next),
             Log' = (IF discard THEN Log ELSE Log \o chan[k])
      PROVE  LostInv'
  <2>1. /\ UNCHANGED <<sent, absSlot, discard>>
        /\ \A q \in Queue \ {k} : chan'[q] = chan[q]
        /\ chan[k] \in Seq(Op)
    BY <1>0, <1>6 DEF Drain, DrainQueue
  <2>2. ASSUME ~discard, NEW q \in Queue, NEW x, There(x, q)
        PROVE  Contains(chan'[q], x) \/ Contains(Log', x)
    BY <1>0, <1>6, <2>1, <2>2, ContainsConcat
  <2> QED BY <2>1, <2>2 DEF LostInv, NothingLost
<1>7. ASSUME NEW ops \in Seq(Op), Accepts(ops), Log' = Log \o ops PROVE LostInv'
  <2>1. ops = <<>> => Log' = Log
    BY <1>0, <1>7
  <2> QED BY <1>1, <1>2, <1>3, <1>4, <1>5, <1>6, <1>7, <2>1 DEF Accepts
<1> QED
  BY <1>1, <1>7, LogStep

\* An operation that was sent is queued or accepted, whatever senders, drains
\* and deferred publishes do, unless an absolute write may have discarded it.
THEOREM NoOperationIsLost == ASSUME ~SlowClone PROVE Spec => []NothingLost
<1>1. TypeOK /\ BufferInv /\ ConvergeInv /\ [Next]_vars => ConvergeInv'
  BY ConvergeNext
<1>2. TypeOK /\ TypeOK' /\ BufferInv /\ PhaseInv /\ ConvergeInv /\ LostInv /\ [Next]_vars => LostInv'
  BY LostStep
<1>3. Init => PhaseInv /\ LostInv
  BY PhaseInit DEF Init, LostInv, NothingLost, Kind, Queue
<1>4. LostInv => NothingLost
  BY DEF LostInv
<1> QED
  BY <1>1, <1>2, <1>3, <1>4, PhaseNext, ConvergeInit, BufferCorrect, PTL DEF Spec
=============================================================================
