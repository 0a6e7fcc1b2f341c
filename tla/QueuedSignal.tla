---------------------------- MODULE QueuedSignal ----------------------------
(***************************************************************************)
(* One QueuedSignal<T> of queued_signal/src/state.rs: the three mutation   *)
(* queues, the WriterDriver that drains them into a left-right pair of     *)
(* buffers and publishes, the readers that hold guards on a buffer or a    *)
(* clone of its Arc, and the tasks that forward every published value into *)
(* a dioxus signal.                                                        *)
(*                                                                         *)
(* Data are abstracted to their history.  Closures and replacement values  *)
(* are operations <<kind, n>>, numbered in the order in which their queue  *)
(* received them, and a value of type T is the sequence of the operations  *)
(* that were applied to produce it.  Arc allocations are cells, because    *)
(* which buffer, guard or signal shares an allocation decides whether a    *)
(* closure can be applied to it at all.                                    *)
(***************************************************************************)
EXTENDS Naturals, Sequences, FiniteSets

LOCAL INSTANCE SequencesExt

CONSTANTS
    Subscribers,     \* tasks of forward_to and use_queued_state_inner
    Users,           \* other holders of a TrackedReadGuard or of a cloned Arc
    Cells,           \* Arc allocations
    None,            \* no buffer, no Arc
    MaxSent,         \* how many operations of each kind are ever sent
    MayStall,        \* the readers whose heartbeat may become too old
    SlowClone,       \* a reader may be so slow between entering a buffer and
                     \* cloning its Arc that a swap and, after it, the check
                     \* of a further tick come in between
    IntervalMayHold  \* tick may be called before publish_interval has elapsed

Readers == Subscribers \cup Users

\* The flume channels of a driver, in the order in which tick drains them.
Queue == {"set_value", "mutate_set", "mutate"}

\* "absolute" is write_absolute, "append" a closure given to append.
Kind == Queue \cup {"absolute", "append"}

Op == Kind \X Nat

\* SignalOp::Set as opposed to SignalOp::Fn.
IsSet(op) == op[1] \in {"set_value", "absolute"}

Buf == {1, 2}

ASSUME ReadersAssumption ==
    /\ IsFiniteSet(Subscribers) /\ IsFiniteSet(Users)
    /\ Subscribers \cap Users = {}
    /\ MayStall \subseteq Readers

ASSUME NoneAssumption == None \notin Cells \cup Buf

\* Every reader may pin an allocation of its own, besides those of the two
\* buffers, when a new one is needed: allocation never fails.
ASSUME CellsAssumption ==
    IsFiniteSet(Cells) /\ Cardinality(Cells) >= Cardinality(Readers) + 2

ASSUME BoundsAssumption ==
    MaxSent \in [Kind -> Nat] /\ SlowClone \in BOOLEAN /\ IntervalMayHold \in BOOLEAN

VARIABLES
    chan,      \* chan[k]: the operations queued in channel k
    sent,      \* sent[k]: how many operations of kind k were ever sent
    absSlot,   \* the number of the absolute value in abs_slot, 0 when empty
    pc,        \* where the driver is inside tick, or in write_absolute's drains
    discard,   \* an absolute value was written: the drains discard
    didWork,   \* did_work
    arc,       \* arc[b]: the allocation that left-right buffer b owns
    heap,      \* heap[c]: the value in allocation c
    readBuf,   \* the buffer that new readers enter
    phase,     \* left-right: nothing published yet, published once, or oftener
    half,      \* oplog[..swap_index]: operations that only the read buffer has
    pend,      \* oplog[swap_index..]: operations appended since the last swap
    todo,      \* what publish still has to apply to the write buffer
    version,   \* publishes so far, the value of the notify channel
    health,    \* last_health: the number of stalled readers
    healthSent,\* a health status was ever sent
    guard,     \* guard[r]: the buffer that reader r has entered
    reg,       \* reg[r]: r's registry entry is absent, fresh, or stale
    hold,      \* hold[r]: the Arc that r keeps
    task,      \* task[s]: where the forwarding task of s is
    dirty,     \* dirty[s]: s has not seen the latest version
    hdirty,    \* hdirty[s]: s has not seen the latest health status
    shown      \* shown[s]: the health that s displays

driverVars == <<chan, absSlot, pc, discard, didWork>>
bufferVars == <<arc, heap, readBuf, phase, half, pend, todo>>
watchVars  == <<version, health, healthSent>>
readerVars == <<guard, reg, hold>>
taskVars   == <<task, dirty, hdirty, shown>>
vars == <<sent, driverVars, bufferVars, watchVars, readerVars, taskVars>>

Other(b) == 3 - b
writeBuf == Other(readBuf)

----------------------------------------------------------------------------
(* Arcs                                                                    *)

\* An Arc that nobody owns any more is freed.
Owned(c, arcs, holds) == (\E b \in Buf : arcs[b] = c) \/ (\E r \in Readers : holds[r] = c)

Collected(hp, arcs, holds) ==
    [c \in Cells |-> IF Owned(c, arcs, holds) THEN hp[c] ELSE <<>>]

\* Mutant: the strong count ignores the clones kept in dioxus signals.
AloneAmongBuffers(b) == arc[Other(b)] # arc[b]

\* Arc::strong_count(..) == 1, and when Arc::get_mut succeeds.
Exclusive(b) == arc[Other(b)] # arc[b] /\ \A r \in Readers : hold[r] # arc[b]

\* Mutant: Absorbable::clone shares the Arc instead of copying the value.
SharedCell(c) == c = arc[readBuf]

\* An allocation for the write buffer; its own will do if nobody shares it.
FreshCell(c) == c # arc[readBuf] /\ \A r \in Readers : hold[r] # c

----------------------------------------------------------------------------
TypeOK ==
    /\ chan \in [Queue -> Seq(Op)]
    /\ \A k \in Queue : \A i \in DOMAIN chan[k] : chan[k][i][1] = k
    /\ sent \in [Kind -> Nat]
    /\ absSlot \in Nat
    /\ pc \in {"idle", "set_value", "mutate_set", "mutate", "check", "wait",
               "absorb", "notify", "health"}
    /\ discard \in BOOLEAN /\ didWork \in BOOLEAN
    /\ arc \in [Buf -> Cells]
    /\ heap \in [Cells -> Seq(Op)]
    /\ readBuf \in Buf
    /\ phase \in {"first", "second", "rest"}
    /\ half \in Seq(Op) /\ pend \in Seq(Op) /\ todo \in Seq(Op)
    /\ version \in Nat /\ health \in Nat /\ healthSent \in BOOLEAN
    /\ guard \in [Readers -> Buf \cup {None}]
    /\ reg \in [Readers -> {"absent", "fresh", "stale"}]
    /\ hold \in [Readers -> Cells \cup {None}]
    /\ task \in [Subscribers -> {"off", "eager", "copied", "mounted", "idle",
                                 "woken", "forward", "set"}]
    /\ dirty \in [Subscribers -> BOOLEAN] /\ hdirty \in [Subscribers -> BOOLEAN]
    /\ shown \in [Subscribers -> Nat]

\* WriterDriver::new.  left_right::new_from_empty clones the initial value for
\* the second buffer, so the two own different allocations.
Init ==
    /\ chan = [k \in Queue |-> <<>>]
    /\ sent = [k \in Kind |-> 0]
    /\ absSlot = 0 /\ pc = "idle" /\ discard = FALSE /\ didWork = FALSE
    /\ readBuf = 1
    /\ arc \in [Buf -> Cells] /\ arc[1] # arc[2]
    /\ heap = [c \in Cells |-> <<>>]
    /\ phase = "first" /\ half = <<>> /\ pend = <<>> /\ todo = <<>>
    /\ version = 0 /\ health = 0 /\ healthSent = FALSE
    /\ guard = [r \in Readers |-> None]
    /\ reg = [r \in Readers |-> "absent"]
    /\ hold = [r \in Readers |-> None]
    /\ task = [s \in Subscribers |-> "off"]
    /\ dirty = [s \in Subscribers |-> FALSE]
    /\ hdirty = [s \in Subscribers |-> FALSE]
    /\ shown = [s \in Subscribers |-> 0]

----------------------------------------------------------------------------
(* Senders: QueuedSignal::set_value, mutate_set, mutate                    *)

\* Mutant: from_parts is given add_tx and set_tx, which have one type, swapped.
SwappedChannel(k) ==
    CASE k = "set_value" -> k [] k = "mutate_set" -> "mutate" [] k = "mutate" -> "mutate_set"

Channel(k) == k

Send(k) ==
    /\ sent[k] < MaxSent[k]
    /\ sent' = [sent EXCEPT ![k] = @ + 1]
    /\ chan' = [chan EXCEPT ![Channel(k)] = Append(@, <<k, sent[k] + 1>>)]
    /\ UNCHANGED <<absSlot, pc, discard, didWork, bufferVars, watchVars, readerVars, taskVars>>

----------------------------------------------------------------------------
(* The driver.  append and write_absolute borrow the driver, so they never *)
(* overlap a tick.                                                         *)

\* left-right's append: before the first publish the operation is applied to
\* the write buffer at once, afterwards it is logged.
AppendOps(ops) ==
    \/ /\ phase = "first"
       /\ heap' = [heap EXCEPT ![arc[writeBuf]] = @ \o ops]
       /\ UNCHANGED pend
    \/ /\ phase # "first"
       /\ pend' = pend \o ops
       /\ UNCHANGED heap

DirectAppend ==
    /\ pc = "idle"
    /\ sent["append"] < MaxSent["append"]
    /\ sent' = [sent EXCEPT !["append"] = @ + 1]
    /\ AppendOps(<< <<"append", sent["append"] + 1>> >>)
    /\ UNCHANGED <<driverVars, arc, readBuf, phase, half, todo, watchVars, readerVars, taskVars>>

\* write_absolute fills the slot; it then drains the queues as tick does after
\* an absolute value, while senders go on sending.
WriteAbsolute ==
    /\ pc = "idle" /\ pc' = "set_value"
    /\ sent["absolute"] < MaxSent["absolute"]
    /\ sent' = [sent EXCEPT !["absolute"] = @ + 1]
    /\ absSlot' = sent["absolute"] + 1
    /\ discard' = TRUE
    /\ UNCHANGED <<chan, didWork, bufferVars, watchVars, readerVars, taskVars>>

TickStart ==
    /\ pc = "idle" /\ pc' = "set_value"
    /\ discard' = (absSlot # 0)
    /\ didWork' = (absSlot # 0)
    /\ absSlot' = 0
    /\ IF absSlot # 0 THEN AppendOps(<< <<"absolute", absSlot>> >>) ELSE UNCHANGED <<heap, pend>>
    /\ UNCHANGED <<sent, chan, arc, readBuf, phase, half, todo, watchVars, readerVars, taskVars>>

\* Mutant: draining one queue empties all of them.
DrainAll(k) == [q \in Queue |-> <<>>]

\* Mutant: each queue is left as it was, to be drained again.
PeekQueue(k) == chan

\* flume's drain takes whatever the queue holds at that moment.
DrainQueue(k) == [chan EXCEPT ![k] = <<>>]

\* Drain one queue and append what it held, or drop it after an absolute value.
Drain(k, next) ==
    /\ pc = k /\ pc' = next
    /\ chan' = DrainQueue(k)
    /\ IF discard
         THEN UNCHANGED <<heap, pend, didWork>>
         ELSE AppendOps(chan[k]) /\ didWork' = (didWork \/ chan[k] # <<>>)
    /\ UNCHANGED <<sent, absSlot, discard, arc, readBuf, phase, half, todo,
                   watchVars, readerVars, taskVars>>

\* tick has taken the value out of the slot, write_absolute leaves it there.
AfterDrains == IF absSlot = 0 THEN "check" ELSE "idle"

\* Mutant: a tick that drained nothing does not retry a deferred publish.
DrainedWork == didWork

\* did_work || has_pending_operations()
HasWork == didWork \/ pend # <<>>

\* Between entering the write buffer (before it became that) and cloning.
AboutToClone(s) == task[s] \in {"eager", "forward"} /\ guard[s] = writeBuf

\* write_buffer_exclusive holds when it is checked.  Without SlowClone no task
\* is then about to clone, and CloneArc lets no other reader clone later.
StartPublish ==
    /\ pc = "check" /\ pc' = "wait"
    /\ HasWork /\ Exclusive(writeBuf)
    /\ SlowClone \/ \A s \in Subscribers : ~AboutToClone(s)
    /\ UNCHANGED <<sent, chan, absSlot, discard, didWork, bufferVars, watchVars, readerVars, taskVars>>

SkipPublish ==
    /\ pc = "check" /\ pc' = "health"
    /\ ~HasWork \/ IntervalMayHold \/ ~Exclusive(writeBuf)
    /\ UNCHANGED <<sent, chan, absSlot, discard, didWork, bufferVars, watchVars, readerVars, taskVars>>

\* left-right's wait: every reader has left the buffer about to be written.
Unread(b) == \A r \in Readers : guard[r] # b

\* What publish applies to the write buffer: absorb_second for what the read
\* buffer already has, absorb_first for the rest.
Oplog == half \o pend

\* publish, after its wait.  The first one has nothing to apply; the second
\* makes the write buffer a copy of the read buffer (sync_with) and applies
\* what was logged since; a later one first catches up on half.
WaitForReaders ==
    /\ pc = "wait" /\ pc' = "absorb"
    /\ Unread(writeBuf)
    /\ \/ /\ phase = "second"
          /\ \E c \in Cells :
               /\ FreshCell(c)
               /\ arc' = [arc EXCEPT ![writeBuf] = c]
               /\ heap' = Collected([heap EXCEPT ![c] = heap[arc[readBuf]]], arc', hold)
       \/ phase # "second" /\ UNCHANGED <<arc, heap>>
    /\ todo' = Oplog
    /\ UNCHANGED <<sent, chan, absSlot, discard, didWork, readBuf, phase, half, pend,
                   watchVars, readerVars, taskVars>>

\* absorb_first and absorb_second: a closure is applied in place if the Arc is
\* not shared and skipped otherwise; a replacement needs a new Arc if it is.
Absorb ==
    /\ pc = "absorb" /\ todo # <<>>
    /\ todo' = Tail(todo)
    /\ LET op == Head(todo)
           b  == writeBuf
       IN  \/ /\ Exclusive(b)
              /\ heap' = [heap EXCEPT ![arc[b]] = Append(@, op)]
              /\ UNCHANGED arc
           \/ /\ ~Exclusive(b) /\ IsSet(op)
              /\ \E c \in Cells :
                   /\ FreshCell(c)
                   /\ arc' = [arc EXCEPT ![b] = c]
                   /\ heap' = Collected([heap EXCEPT ![c] = Append(heap[arc[b]], op)], arc', hold)
           \/ /\ ~Exclusive(b) /\ ~IsSet(op)
              /\ UNCHANGED <<arc, heap>>
    /\ UNCHANGED <<sent, driverVars, readBuf, phase, half, pend, watchVars, readerVars, taskVars>>

Swap ==
    /\ pc = "absorb" /\ todo = <<>>
    /\ pc' = "notify"
    /\ readBuf' = writeBuf
    /\ phase' = IF phase = "first" THEN "second" ELSE "rest"
    /\ half' = pend /\ pend' = <<>>
    /\ UNCHANGED <<sent, chan, absSlot, discard, didWork, arc, heap, todo,
                   watchVars, readerVars, taskVars>>

\* The receiver of every running task becomes dirty.
Running(s) == task[s] \in {"idle", "woken", "forward", "set"}

\* Mutant: only a task that is waiting is told, as notify_waiters would do.
Waiting(s) == task[s] = "idle"

Listening(s) == Running(s)

Notify ==
    /\ pc = "notify" /\ pc' = "health"
    /\ version' = version + 1
    /\ dirty' = [s \in Subscribers |-> dirty[s] \/ Listening(s)]
    /\ UNCHANGED <<sent, chan, absSlot, discard, didWork, bufferVars, health, healthSent,
                   readerVars, task, hdirty, shown>>

\* HealthStatus is Healthy for none, Degraded for one, Stalled for more.
Stalled == Cardinality({r \in Readers : reg[r] = "stale"})

UpdateHealth ==
    /\ pc = "health" /\ pc' = "idle"
    /\ health' = Stalled
    /\ healthSent' = (healthSent \/ Stalled # health)
    /\ hdirty' = [s \in Subscribers |-> hdirty[s] \/ (Running(s) /\ Stalled # health)]
    /\ UNCHANGED <<sent, chan, absSlot, discard, didWork, bufferVars, version,
                   readerVars, task, dirty, shown>>

----------------------------------------------------------------------------
(* Readers                                                                 *)

\* QueuedState::read: enter the read buffer, then register with the registry.
EnterRead(r) ==
    /\ guard[r] = None
    /\ guard' = [guard EXCEPT ![r] = readBuf]
    /\ reg' = [reg EXCEPT ![r] = "fresh"]
    /\ UNCHANGED hold

\* Clone the Arc behind the guard; the Arc kept before is dropped.
CloneArc(r) ==
    /\ guard[r] # None
    /\ SlowClone \/ pc # "wait" \/ guard[r] = readBuf
    /\ hold' = [hold EXCEPT ![r] = arc[guard[r]]]
    /\ heap' = Collected(heap, arc, hold')
    /\ UNCHANGED <<guard, reg>>

\* Drop the guard, which removes the registry entry.
LeaveRead(r) ==
    /\ guard[r] # None
    /\ guard' = [guard EXCEPT ![r] = None]
    /\ reg' = [reg EXCEPT ![r] = "absent"]
    /\ UNCHANGED hold

DropArc(r) ==
    /\ hold' = [hold EXCEPT ![r] = None]
    /\ heap' = Collected(heap, arc, hold')

Enter(u) ==
    /\ EnterRead(u)
    /\ UNCHANGED <<sent, driverVars, bufferVars, watchVars, taskVars>>

Copy(u) ==
    /\ CloneArc(u)
    /\ UNCHANGED <<sent, driverVars, arc, readBuf, phase, half, pend, todo, watchVars, taskVars>>

Leave(u) ==
    /\ LeaveRead(u)
    /\ UNCHANGED <<sent, driverVars, bufferVars, watchVars, taskVars>>

Release(u) ==
    /\ hold[u] # None
    /\ DropArc(u)
    /\ UNCHANGED <<sent, driverVars, arc, readBuf, phase, half, pend, todo, watchVars,
                   guard, reg, taskVars>>

Heartbeat(u) ==
    /\ reg[u] = "stale"
    /\ reg' = [reg EXCEPT ![u] = "fresh"]
    /\ UNCHANGED <<sent, driverVars, bufferVars, watchVars, guard, hold, taskVars>>

\* watchdog_timeout passes without a heartbeat.
Stall(r) ==
    /\ r \in MayStall
    /\ reg[r] = "fresh"
    /\ reg' = [reg EXCEPT ![r] = "stale"]
    /\ UNCHANGED <<sent, driverVars, bufferVars, watchVars, guard, hold, taskVars>>

----------------------------------------------------------------------------
(* Forwarding tasks.  use_queued_signal reads the value before it starts   *)
(* forwarding (Mount, CopyForward, LeaveForward, Subscribe); use_hook      *)
(* subscribes at once.                                                     *)

Mount(s) ==
    /\ task[s] = "off"
    /\ task' = [task EXCEPT ![s] = "eager"]
    /\ EnterRead(s)
    /\ UNCHANGED <<sent, driverVars, bufferVars, watchVars, dirty, hdirty, shown>>

\* Mutant: the receiver is marked as having seen the current version.
MarkSeen == FALSE

\* A receiver cloned from QueuedState's, which never saw a version but 0.
Unseen == version # 0

UnseenHealth == healthSent

Subscribe(s) ==
    /\ task[s] \in {"off", "mounted"}
    /\ task' = [task EXCEPT ![s] = "idle"]
    /\ dirty' = [dirty EXCEPT ![s] = Unseen]
    /\ hdirty' = [hdirty EXCEPT ![s] = UnseenHealth]
    /\ shown' = [shown EXCEPT ![s] = 0]
    /\ UNCHANGED <<sent, driverVars, bufferVars, watchVars, readerVars>>

\* notify_rx.changed() resolves and marks the version as seen.
Wake(s) ==
    /\ task[s] = "idle" /\ dirty[s]
    /\ task' = [task EXCEPT ![s] = "woken"]
    /\ dirty' = [dirty EXCEPT ![s] = FALSE]
    /\ UNCHANGED <<sent, driverVars, bufferVars, watchVars, readerVars, hdirty, shown>>

EnterForward(s) ==
    /\ task[s] = "woken"
    /\ task' = [task EXCEPT ![s] = "forward"]
    /\ EnterRead(s)
    /\ UNCHANGED <<sent, driverVars, bufferVars, watchVars, dirty, hdirty, shown>>

\* value_signal.set(map(guard.0.clone())): the signal drops its previous Arc.
CopyForward(s) ==
    /\ task[s] \in {"eager", "forward"}
    /\ task' = [task EXCEPT ![s] = IF @ = "eager" THEN "copied" ELSE "set"]
    /\ CloneArc(s)
    /\ UNCHANGED <<sent, driverVars, arc, readBuf, phase, half, pend, todo, watchVars,
                   dirty, hdirty, shown>>

LeaveForward(s) ==
    /\ task[s] \in {"copied", "set"}
    /\ task' = [task EXCEPT ![s] = IF @ = "copied" THEN "mounted" ELSE "idle"]
    /\ LeaveRead(s)
    /\ UNCHANGED <<sent, driverVars, bufferVars, watchVars, dirty, hdirty, shown>>

ForwardHealth(s) ==
    /\ task[s] = "idle" /\ hdirty[s]
    /\ hdirty' = [hdirty EXCEPT ![s] = FALSE]
    /\ shown' = [shown EXCEPT ![s] = health]
    /\ UNCHANGED <<sent, driverVars, bufferVars, watchVars, readerVars, task, dirty>>

\* The component unmounts: the task is cancelled where it awaits, and its
\* signal is dropped.
Unmount(s) ==
    /\ task[s] = "idle"
    /\ task' = [task EXCEPT ![s] = "off"]
    /\ dirty' = [dirty EXCEPT ![s] = FALSE]
    /\ hdirty' = [hdirty EXCEPT ![s] = FALSE]
    /\ shown' = [shown EXCEPT ![s] = 0]
    /\ DropArc(s)
    /\ UNCHANGED <<sent, driverVars, arc, readBuf, phase, half, pend, todo, watchVars, guard, reg>>

----------------------------------------------------------------------------
Tick ==
    \/ TickStart
    \/ Drain("set_value", "mutate_set")
    \/ Drain("mutate_set", "mutate")
    \/ Drain("mutate", AfterDrains)
    \/ StartPublish \/ SkipPublish
    \/ WaitForReaders \/ Absorb \/ Swap
    \/ Notify \/ UpdateHealth

Forward(s) ==
    \/ EnterForward(s) \/ CopyForward(s) \/ LeaveForward(s) \/ ForwardHealth(s)

Use(u) == Enter(u) \/ Copy(u) \/ Leave(u) \/ Release(u) \/ Heartbeat(u)

Next ==
    \/ \E k \in Queue : Send(k)
    \/ DirectAppend \/ WriteAbsolute
    \/ Tick
    \/ \E s \in Subscribers :
         Mount(s) \/ Subscribe(s) \/ Wake(s) \/ Forward(s) \/ Unmount(s)
    \/ \E u \in Users : Use(u)
    \/ \E r \in Readers : Stall(r)

Spec == Init /\ [][Next]_vars

----------------------------------------------------------------------------
(* What a signal promises.                                                 *)

\* The two buffers never own the same allocation (the deep Clone of Absorbable,
\* sync_with and absorb_first: "each buffer owns a distinct Arc"); if they did,
\* Arc::get_mut would refuse every closure from then on.
DistinctArcs == arc[1] # arc[2]

\* A reader inside a guard never sees its buffer change: not the value, not
\* the allocation, although the driver absorbs into two buffers in turn and
\* the reader may have entered before the last swap.
FrozenUnderGuard ==
    [][\A r \in Readers :
         guard[r] # None /\ guard'[r] = guard[r]
           => arc'[guard[r]] = arc[guard[r]] /\ heap'[arc[guard[r]]] = heap[arc[guard[r]]]]_vars

\* The value behind an Arc that a component keeps never changes or is freed
\* under it, however many publishes later.
ArcImmutable ==
    [][\A r \in Readers :
         hold[r] # None /\ hold'[r] = hold[r] => heap'[hold[r]] = heap[hold[r]]]_vars

\* A forwarding task that waits without a pending notification shows the
\* published value: no publish slips between its eager read, its subscription,
\* its wake-up and its read.  (A use_hook task shows its initial value until
\* the first publish.)
NoLostWakeup ==
    \A s \in Subscribers :
        task[s] \in {"set", "idle"} /\ ~dirty[s] /\ pc # "notify"
          => hold[s] = arc[readBuf] \/ (version = 0 /\ hold[s] = None)

\* A signal whose Arc keeps the write buffer from being written has a
\* notification waiting or coming, so that it lets go of the Arc: the
\* deferral of a publish by a forwarding task is always temporary.
DeferralEnds ==
    \A s \in Subscribers :
        task[s] \in {"set", "idle"} /\ hold[s] = arc[writeBuf] => dirty[s] \/ pc = "notify"

\* Outside of a publish the read buffer is the write buffer plus exactly the
\* operations that the next publish applies again: no buffer misses an
\* operation or applies one twice.
BuffersAgree ==
    phase = "rest" /\ pc # "absorb"
      => heap[arc[readBuf]] = heap[arc[writeBuf]] \o half

\* All that the driver has accepted, in the order in which it counts.
Log == IF phase = "first" THEN heap[arc[writeBuf]] ELSE heap[arc[readBuf]] \o pend

\* Each sender's operations take effect at most once and in the order sent,
\* over both buffers, every phase of left-right and every deferral.
AppliedInOrder ==
    \A i, j \in DOMAIN Log : i < j /\ Log[i][1] = Log[j][1] => Log[i][2] < Log[j][2]

\* An operation that was sent is queued or accepted, unless an absolute write
\* may have discarded it.
NothingLost ==
    sent["absolute"] = 0 =>
        \A k \in Queue : \A n \in 1..sent[k] :
            Contains(chan[k], <<k, n>>) \/ Contains(Log, <<k, n>>)

\* The value that each reader keeps.
View == [r \in Readers |-> IF hold[r] = None THEN None ELSE heap[hold[r]]]

Snapshot == INSTANCE SnapshotLog WITH
    log <- Log, published <- heap[arc[readBuf]], view <- View

\* The two buffers, the oplog and the Arcs implement one append-only log of
\* which every reader keeps a published prefix that only grows, whatever the
\* order of guards, clones, drains and publishes.
SnapshotSpec == Snapshot!Spec

----------------------------------------------------------------------------
(* The hub and the resource systems tick their driver for ever, the publish *)
(* interval elapses time and again, and the runtime polls every woken task; *)
(* nothing makes a component mount, send, or drop a guard or an Arc that it *)
(* keeps.                                                                   *)
Fairness ==
    /\ WF_vars(Tick) /\ SF_vars(StartPublish)
    /\ \A s \in Subscribers :
         /\ WF_vars(Wake(s))
         /\ WF_vars(Forward(s))
         /\ WF_vars(task[s] = "mounted" /\ Subscribe(s))

FairSpec == Spec /\ Fairness

\* Every operation that is sent is eventually in the published value, deferred
\* publishes and left-right's one-publish delay notwithstanding.
EventuallyPublished ==
    \A k \in Queue : \A n \in 1..MaxSent[k] :
        sent[k] >= n ~> Contains(heap[arc[readBuf]], <<k, n>>)

\* ... and every component that stays mounted shows it.
EventuallyShown ==
    \A s \in Subscribers : \A k \in Queue : \A n \in 1..MaxSent[k] :
        sent[k] >= n /\ Running(s)
          ~> ~Running(s) \/ (hold[s] # None /\ Contains(heap[hold[s]], <<k, n>>))

----------------------------------------------------------------------------
(* Why it holds: the parts of the inductive invariants of                  *)
(* QueuedSignalProofs.                                                     *)

\* Nobody reads the buffer that publish is writing.
ReadersOut == pc = "absorb" => Unread(writeBuf)

\* Until the first publish nobody has ever reached the write buffer, which is
\* why append may apply operations to it directly.
PrivateUntilPublished ==
    phase = "first" => \A r \in Readers : guard[r] # writeBuf /\ hold[r] # arc[writeBuf]

BufferInv == DistinctArcs /\ ReadersOut /\ PrivateUntilPublished

\* Nothing has been published, not even to readers that were not notified yet.
Pristine == version = 0 /\ pc # "notify"

\* A task that will not be notified again reads, and then shows, the read
\* buffer: a task that was woken because its dirty flag was reset before it
\* entered, one that mounts because nothing was published yet or because its
\* subscription finds the version changed.
WakeupOf(s) ==
    /\ task[s] = "off" => hold[s] = None
    /\ task[s] = "eager" /\ Pristine => guard[s] = readBuf
    /\ task[s] \in {"copied", "mounted"} /\ Pristine => hold[s] = arc[readBuf]
    /\ task[s] = "forward" /\ ~dirty[s] /\ pc # "notify" => guard[s] = readBuf
    /\ task[s] \in {"set", "idle"} /\ ~dirty[s] /\ pc # "notify"
         => hold[s] = arc[readBuf] \/ (version = 0 /\ hold[s] = None)

WakeupInv == \A s \in Subscribers : WakeupOf(s)

\* From the check of write_buffer_exclusive on, the write buffer is not shared.
StaysExclusive == pc \in {"wait", "absorb"} => Exclusive(writeBuf)

\* What the write buffer still lacks, in each phase of left-right.
OplogInv ==
    /\ phase = "first" => half = <<>> /\ pend = <<>> /\ todo = <<>>
    /\ phase = "second" => half = <<>>
    /\ phase # "first" /\ pc = "absorb"
         => heap[arc[writeBuf]] \o todo = heap[arc[readBuf]] \o pend
    /\ BuffersAgree

\* t begins with s.
BeginsWith(t, s) == Len(s) <= Len(t) /\ \A i \in 1..Len(s) : s[i] = t[i]

\* What a reader keeps is a prefix of what is published, and not longer than
\* what it can clone from a buffer that it entered before the last swap.
ViewOf(r) ==
    hold[r] # None =>
        /\ BeginsWith(heap[arc[readBuf]], heap[hold[r]])
        /\ guard[r] = writeBuf => Len(heap[hold[r]]) <= Len(heap[arc[writeBuf]])

ViewInv ==
    /\ phase = "first" => heap[arc[readBuf]] = <<>>
    /\ phase = "second" /\ pc # "absorb" => heap[arc[writeBuf]] = <<>>
    /\ \A r \in Readers : ViewOf(r)
=============================================================================
