----------------------------- MODULE SignalHub ------------------------------
(***************************************************************************)
(* The background hub of queued_signal/src/signal.rs: the thread that      *)
(* create_queued_signal_hub spawns, the senders that register types and    *)
(* request their signal, the requests it parks until a registration        *)
(* arrives or they are too old, and the use_queued_signal hooks that wait  *)
(* for an answer.  A registered signal is an instance: the number of the   *)
(* registration that created it.  What an instance does with its writes is *)
(* the subject of QueuedSignal; here a tick drains whatever is queued.  *)
(***************************************************************************)
EXTENDS Naturals, Sequences, FiniteSets

LOCAL INSTANCE SequencesExt

CONSTANTS
    Types,           \* the types a signal can be registered for
    Hooks,           \* components that call use_queued_signal
    TypeOf,          \* TypeOf[h]: the type that hook h asks for
    MaxRegister,     \* how many registrations are ever sent
    MaxRequest       \* how many requests are ever sent

ASSUME HubAssumption ==
    /\ TypeOf \in [Hooks -> Types]
    /\ MaxRegister \in Nat /\ MaxRequest \in Nat

Instance == 1..MaxRegister
Request  == 1..MaxRequest

\* The commands, with the registration or the request that they carry.
Register(t, i) == [cmd |-> "register", type |-> t, id |-> i]
GetSignal(t, q) == [cmd |-> "get", type |-> t, id |-> q]

Command == {Register(t, i) : t \in Types, i \in Instance}
             \cup {GetSignal(t, q) : t \in Types, q \in Request}

VARIABLES
    root,       \* the application still holds its QueuedSignalSender
    queue,      \* the hub's channel
    registers,  \* registrations sent so far
    requests,   \* requests sent so far
    response,   \* response[q]: the instance q was answered with, 0 if none
    dropped,    \* the requests whose oneshot sender was dropped unanswered
    afterReg,   \* afterReg[q]: a registration of q's type was sent before q
    pc,         \* where the hub is in its loop
    batch,      \* commands it drained and has not executed yet
    signals,    \* signals[t]: the instance registered for t, 0 if none
    drivers,    \* the instances it ticks
    pending,    \* pending[t]: the requests parked for t
    old,        \* the parked requests older than PARKED_REQUEST_TIMEOUT
    value,      \* value[h]: what the hook's value signal says
    asked,      \* asked[h]: the request that h awaits, 0 if none
    writer,     \* writer[h]: the instance that h writes to, 0 if none
    queued      \* queued[i]: i's queues hold writes that no tick has drained

hubVars  == <<pc, batch, signals, drivers, pending, old>>
hookVars == <<value, asked, writer>>
sentVars == <<queue, registers, requests, afterReg>>
answerVars == <<response, dropped>>
vars == <<root, sentVars, answerVars, hubVars, hookVars, queued>>

\* The types of the variables; the hub ticks at most one driver per
\* registered type.
TypeOK ==
    /\ root \in BOOLEAN
    /\ queue \in Seq(Command) /\ batch \in Seq(Command)
    /\ registers \in 0..MaxRegister /\ requests \in 0..MaxRequest
    /\ response \in [Request -> Instance \cup {0}] /\ dropped \subseteq Request
    /\ afterReg \in [Request -> BOOLEAN]
    /\ pc \in {"drain", "execute", "tick", "check", "stopped"}
    /\ signals \in [Types -> Instance \cup {0}]
    /\ drivers \in Seq(Instance) /\ Len(drivers) <= Cardinality({t \in Types : signals[t] # 0})
    /\ pending \in [Types -> SUBSET Request] /\ old \subseteq Request
    /\ value \in [Hooks -> {"off", "NotRegistered", "Fetching", "Ok"}]
    /\ asked \in [Hooks -> Request \cup {0}]
    /\ writer \in [Hooks -> Instance \cup {0}]
    /\ queued \in [Instance -> BOOLEAN]

Init ==
    /\ root = TRUE /\ queue = <<>> /\ registers = 0 /\ requests = 0
    /\ response = [q \in Request |-> 0] /\ dropped = {}
    /\ afterReg = [q \in Request |-> FALSE]
    /\ pc = "drain" /\ batch = <<>>
    /\ signals = [t \in Types |-> 0] /\ drivers = <<>>
    /\ pending = [t \in Types |-> {}] /\ old = {}
    /\ value = [h \in Hooks |-> "off"]
    /\ asked = [h \in Hooks |-> 0] /\ writer = [h \in Hooks |-> 0]
    /\ queued = [i \in Instance |-> FALSE]

----------------------------------------------------------------------------
(* Senders                                                                 *)

\* QueuedSignalSender::register, by the application.
SendRegister(t) ==
    /\ root /\ registers < MaxRegister
    /\ registers' = registers + 1
    /\ queue' = Append(queue, Register(t, registers + 1))
    /\ UNCHANGED <<root, requests, afterReg, answerVars, hubVars, hookVars, queued>>

\* The application drops its sender; hooks keep their own.
DropRoot ==
    /\ root /\ root' = FALSE
    /\ UNCHANGED <<sentVars, answerVars, hubVars, hookVars, queued>>

Mounted(h) == value[h] # "off"

\* use_queued_signal, first render; the context still has a sender.
Mount(h) ==
    /\ root /\ ~Mounted(h)
    /\ value' = [value EXCEPT ![h] = "NotRegistered"]
    /\ UNCHANGED <<root, sentVars, answerVars, hubVars, asked, writer, queued>>

\* Registrations of t that were sent before now.
EverSent(t) ==
    \/ signals[t] # 0
    \/ \E i \in Instance : Contains(batch, Register(t, i)) \/ Contains(queue, Register(t, i))

\* The hook's future: Fetching, then QueuedSignalSender::request.
Fetch(h) ==
    /\ value[h] = "NotRegistered" /\ asked[h] = 0 /\ requests < MaxRequest
    /\ requests' = requests + 1
    /\ value' = [value EXCEPT ![h] = "Fetching"]
    /\ asked' = [asked EXCEPT ![h] = requests + 1]
    /\ queue' = Append(queue, GetSignal(TypeOf[h], requests + 1))
    /\ afterReg' = [afterReg EXCEPT ![requests + 1] = EverSent(TypeOf[h])]
    /\ UNCHANGED <<root, registers, answerVars, hubVars, writer, queued>>

\* rx.await yields the signal, or an error because the hub dropped the request;
\* in neither case does the hook ask again.
Receive(h) ==
    /\ value[h] = "Fetching"
    /\ \/ /\ response[asked[h]] # 0
          /\ value' = [value EXCEPT ![h] = "Ok"]
          /\ writer' = [writer EXCEPT ![h] = response[asked[h]]]
       \/ /\ asked[h] \in dropped
          /\ value' = [value EXCEPT ![h] = "NotRegistered"]
          /\ UNCHANGED writer
    /\ UNCHANGED <<root, sentVars, answerVars, hubVars, asked, queued>>

\* QueuedSignalHandle::mutate, mutate_set, set_value; without a writer the
\* write is dropped, which changes nothing.
Write(h) ==
    /\ Mounted(h) /\ writer[h] # 0
    /\ queued' = [queued EXCEPT ![writer[h]] = TRUE]
    /\ UNCHANGED <<root, sentVars, answerVars, hubVars, hookVars>>

\* The component unmounts: its sender and the receiver it awaits are dropped.
Unmount(h) ==
    /\ Mounted(h)
    /\ value' = [value EXCEPT ![h] = "off"]
    /\ asked' = [asked EXCEPT ![h] = 0]
    /\ writer' = [writer EXCEPT ![h] = 0]
    /\ UNCHANGED <<root, sentVars, answerVars, hubVars, queued>>

----------------------------------------------------------------------------
(* The hub thread                                                          *)

Drain ==
    /\ pc = "drain" /\ pc' = "execute"
    /\ batch' = queue /\ queue' = <<>>
    /\ UNCHANGED <<root, registers, requests, afterReg, answerVars, signals, drivers,
                   pending, old, hookVars, queued>>

\* Mutant: a second registration replaces the first one.
Fresh(t) == TRUE

Unregistered(t) == signals[t] = 0

\* Mutant: the driver of a new signal is not ticked.
SameDrivers(i) == drivers

WithDriver(i) == Append(drivers, i)

\* RegisterCommand::execute: the first registration of a type answers all the
\* requests that are parked for it.
ExecuteRegister ==
    /\ pc = "execute" /\ batch # <<>> /\ Head(batch).cmd = "register"
    /\ batch' = Tail(batch)
    /\ LET t == Head(batch).type
           i == Head(batch).id
       IN  IF Unregistered(t)
           THEN /\ signals' = [signals EXCEPT ![t] = i]
                /\ drivers' = WithDriver(i)
                /\ response' = [q \in Request |->
                                  IF q \in pending[t] THEN i ELSE response[q]]
                /\ pending' = [pending EXCEPT ![t] = {}]
                /\ old' = old \ pending[t]
           ELSE UNCHANGED <<signals, drivers, response, pending, old>>
    /\ UNCHANGED <<root, sentVars, dropped, pc, hookVars, queued>>

\* GetSignalCommand::execute.
ExecuteGet ==
    /\ pc = "execute" /\ batch # <<>> /\ Head(batch).cmd = "get"
    /\ batch' = Tail(batch)
    /\ LET t == Head(batch).type
           q == Head(batch).id
       IN  \/ /\ signals[t] # 0
              /\ response' = [response EXCEPT ![q] = signals[t]]
              /\ UNCHANGED pending
           \/ /\ signals[t] = 0
              /\ pending' = [pending EXCEPT ![t] = @ \cup {q}]
              /\ UNCHANGED response
    /\ UNCHANGED <<root, sentVars, dropped, pc, signals, drivers, old, hookVars, queued>>

Parked == UNION {pending[t] : t \in Types}

\* PARKED_REQUEST_TIMEOUT passes for a parked request.  Requests are executed,
\* hence parked, in the order in which they were sent.
Age(q) ==
    /\ q \in Parked \ old
    /\ \A p \in Parked \ old : q <= p
    /\ old' = old \cup {q}
    /\ UNCHANGED <<root, sentVars, answerVars, pc, batch, signals, drivers, pending,
                   hookVars, queued>>

\* Mutant: nothing is evicted.
NoneTooOld == {}

TooOld == old

\* The batch is done: drop the parked requests that are too old.
Evict ==
    /\ pc = "execute" /\ batch = <<>> /\ pc' = "tick"
    /\ pending' = [t \in Types |-> pending[t] \ TooOld]
    /\ dropped' = dropped \cup TooOld
    /\ old' = old \ TooOld
    /\ UNCHANGED <<root, sentVars, response, batch, signals, drivers, hookVars, queued>>

TickAll ==
    /\ pc = "tick" /\ pc' = "check"
    /\ queued' = [i \in Instance |-> queued[i] /\ ~Contains(drivers, i)]
    /\ UNCHANGED <<root, sentVars, answerVars, batch, signals, drivers, pending, old, hookVars>>

\* Mutant: the hub asks whether the application's own sender is alive.
RootAlive == root

\* weak_tx.upgrade(): a sender is alive in the application or in a hook.
SenderAlive == root \/ \E h \in Hooks : Mounted(h)

Continue ==
    /\ pc = "check" /\ SenderAlive
    /\ pc' = "drain"
    /\ UNCHANGED <<root, sentVars, answerVars, batch, signals, drivers, pending, old,
                   hookVars, queued>>

\* The thread ends; what it had parked, and what is still queued, is dropped.
Stop ==
    /\ pc = "check" /\ ~SenderAlive
    /\ pc' = "stopped"
    /\ pending' = [t \in Types |-> {}]
    /\ old' = {}
    /\ queue' = <<>>
    /\ dropped' = dropped \cup Parked
                  \cup {q \in Request : \E t \in Types : Contains(queue, GetSignal(t, q))}
    /\ UNCHANGED <<root, registers, requests, afterReg, response, batch, signals, drivers,
                   hookVars, queued>>

----------------------------------------------------------------------------
Loop ==
    \/ Drain \/ ExecuteRegister \/ ExecuteGet \/ Evict \/ TickAll \/ Continue \/ Stop

Hook(h) == Fetch(h) \/ Receive(h)

Next ==
    \/ \E t \in Types : SendRegister(t)
    \/ DropRoot
    \/ \E h \in Hooks : Mount(h) \/ Hook(h) \/ Write(h) \/ Unmount(h)
    \/ \E q \in Request : Age(q)
    \/ Loop

Spec == Init /\ [][Next]_vars

\* The thread runs, its clock advances, and the runtime polls every future.
FairSpec ==
    /\ Spec
    /\ WF_vars(Loop)
    /\ \A q \in Request : WF_vars(Age(q))
    /\ \A h \in Hooks : WF_vars(Hook(h))

----------------------------------------------------------------------------
(* What the hub promises.                                                  *)

\* A request that was sent after a registration of its type is never dropped
\* under the hook that awaits it: not by eviction, and not by the hub's end.
AnsweredIfRegisteredFirst ==
    \A h \in Hooks :
        Mounted(h) /\ asked[h] # 0 /\ afterReg[asked[h]] => asked[h] \notin dropped

\* A hook does not stay in Fetching: a registration answers it or it is evicted.
FetchingEnds ==
    \A h \in Hooks : value[h] = "Fetching" ~> value[h] # "Fetching"

\* What a hook has queued reaches a tick while a sender is alive.
WritesDrained ==
    \A i \in Instance : queued[i] ~> (~queued[i] \/ ~SenderAlive)
=============================================================================
