-------------------------- MODULE SignalHubProofs ---------------------------
(***************************************************************************)
(* Theorems about SignalHub, for any types, hooks and bounds: its types,    *)
(* among them that a type has one driver, that no request is dropped under  *)
(* its hook if a registration was sent before it, where a request may be,   *)
(* and whose signal a hook writes to.                                       *)
(***************************************************************************)
EXTENDS SignalHub, FiniteSetTheorems, TLAPS

LOCAL INSTANCE SequencesExt

USE HubAssumption

----------------------------------------------------------------------------
(* Types                                                                   *)

Registered == {t \in Types : signals[t] # 0}

\* The types, with what they rest on: a hook that fetches has sent its request,
\* and finitely many types are registered.
TypeInv ==
    /\ TypeOK
    /\ IsFiniteSet(Registered)
    /\ \A h \in Hooks : value[h] = "Fetching" => asked[h] # 0

\* The types hold of the hub that starts.
LEMMA TypeInit == Init => TypeInv
<1> SUFFICES ASSUME Init PROVE TypeInv
  OBVIOUS
<1>1. Registered = {} /\ Registered \subseteq Types
  BY DEF Init, Registered
<1>2. IsFiniteSet(Registered) /\ Cardinality(Registered) = 0
  BY <1>1, FS_EmptySet
<1>3. root \in BOOLEAN
  BY Zenon DEF Init
<1>4. /\ <<>> \in Seq(Command) /\ drivers \in Seq(Instance) /\ Len(drivers) = 0
      /\ queue \in Seq(Command) /\ batch \in Seq(Command)
  BY DEF Init
<1>5. /\ response \in [Request -> Instance \cup {0}] /\ dropped \subseteq Request
      /\ afterReg \in [Request -> BOOLEAN] /\ pc = "drain"
      /\ signals \in [Types -> Instance \cup {0}]
      /\ pending \in [Types -> SUBSET Request] /\ old \subseteq Request
      /\ registers \in 0..MaxRegister /\ requests \in 0..MaxRequest
  BY DEF Init
<1>6. /\ value \in [Hooks -> {"off", "NotRegistered", "Fetching", "Ok"}]
      /\ asked \in [Hooks -> Request \cup {0}] /\ writer \in [Hooks -> Instance \cup {0}]
      /\ queued \in [Instance -> BOOLEAN]
      /\ \A h \in Hooks : value[h] # "Fetching"
  BY DEF Init
<1> QED
  BY <1>2, <1>3, <1>4, <1>5, <1>6 DEF TypeInv, TypeOK, Registered

\* A type that was not registered and now is adds one to the registered ones.
LEMMA OneMore ==
    ASSUME TypeInv, NEW t \in Types, NEW i \in Instance, signals[t] = 0,
           signals' = [signals EXCEPT ![t] = i]
    PROVE  IsFiniteSet(Registered') /\ Cardinality(Registered') = Cardinality(Registered) + 1
<1>1. t \notin Registered /\ Registered' = Registered \cup {t}
  BY DEF Registered, TypeInv, TypeOK, Instance
<1> QED
  BY <1>1, FS_AddElement DEF TypeInv

\* Every step keeps the types.
LEMMA TypeStep == TypeInv /\ [Next]_vars => TypeInv'
<1> SUFFICES ASSUME TypeInv, [Next]_vars PROVE TypeInv'
  OBVIOUS
<1> USE DEF TypeInv, TypeOK
<1>1. ASSUME NEW t \in Types, SendRegister(t) PROVE TypeInv'
  <2>1. registers + 1 \in Instance
    BY <1>1 DEF SendRegister, Instance
  <2>2. Register(t, registers + 1) \in Command
    BY <2>1 DEF Command
  <2>3. queue' \in Seq(Command) /\ registers' \in 0..MaxRegister
    BY <1>1, <2>2 DEF SendRegister
  <2> QED BY <1>1, <2>3 DEF SendRegister, answerVars, hubVars, hookVars, Registered
<1>2. CASE DropRoot
  <2>1. root' \in BOOLEAN
    BY <1>2, Zenon DEF DropRoot
  <2> QED BY <1>2, <2>1 DEF DropRoot, sentVars, answerVars, hubVars, hookVars, Registered
<1>3. ASSUME NEW h \in Hooks, Mount(h) \/ Unmount(h) PROVE TypeInv'
  BY <1>3 DEF Mount, Unmount, sentVars, answerVars, hubVars, Registered
<1>4. ASSUME NEW h \in Hooks, Fetch(h) PROVE TypeInv'
  <2>1. requests + 1 \in Request /\ requests + 1 # 0
    BY <1>4 DEF Fetch, Request
  <2>2. GetSignal(TypeOf[h], requests + 1) \in Command
    BY <2>1 DEF Command
  <2>3. queue' \in Seq(Command) /\ requests' \in 0..MaxRequest
    BY <1>4, <2>2 DEF Fetch
  <2>4. afterReg' \in [Request -> BOOLEAN]
    <3>1. EverSent(TypeOf[h]) \in BOOLEAN
      BY Zenon DEF EverSent
    <3> QED BY <1>4, <2>1, <3>1 DEF Fetch
  <2>5. /\ value' \in [Hooks -> {"off", "NotRegistered", "Fetching", "Ok"}]
        /\ asked' \in [Hooks -> Request \cup {0}]
        /\ \A g \in Hooks : value'[g] = "Fetching" => asked'[g] # 0
    BY <1>4, <2>1 DEF Fetch
  <2> QED BY <1>4, <2>3, <2>4, <2>5 DEF Fetch, answerVars, hubVars, Registered
<1>5. ASSUME NEW h \in Hooks, Receive(h) PROVE TypeInv'
  <2>1. asked[h] \in Request
    BY <1>5 DEF Receive
  <2> QED BY <1>5, <2>1 DEF Receive, sentVars, answerVars, hubVars, Registered
<1>6. ASSUME NEW h \in Hooks, Write(h) PROVE TypeInv'
  <2>1. queued' \in [Instance -> BOOLEAN]
    BY <1>6 DEF Write
  <2> QED BY <1>6, <2>1 DEF Write, sentVars, answerVars, hubVars, hookVars, Registered
<1>7. ASSUME NEW q \in Request, Age(q) PROVE TypeInv'
  BY <1>7 DEF Age, sentVars, answerVars, hookVars, Registered
<1>8. CASE Drain
  BY <1>8 DEF Drain, answerVars, hookVars, Registered
<1>9. CASE ExecuteRegister
  <2> DEFINE t == Head(batch).type
             i == Head(batch).id
  <2>1. Head(batch) \in Command /\ batch' \in Seq(Command)
    BY <1>9 DEF ExecuteRegister
  <2>2. t \in Types /\ i \in Instance
    BY <1>9, <2>1 DEF ExecuteRegister, Command, Register, GetSignal
  <2>3. CASE Unregistered(t)
    <3>1. signals' = [signals EXCEPT ![t] = i] /\ drivers' = Append(drivers, i)
      BY <1>9, <2>3 DEF ExecuteRegister, WithDriver
    <3>2. IsFiniteSet(Registered') /\ Cardinality(Registered') = Cardinality(Registered) + 1
      BY <2>2, <2>3, <3>1, OneMore DEF Unregistered
    <3>3. Cardinality(Registered) \in Nat
      BY FS_CardinalityType
    <3>4. drivers' \in Seq(Instance) /\ Len(drivers') = Len(drivers) + 1
      BY <2>2, <3>1
    <3>5. Len(drivers') <= Cardinality(Registered')
      BY <3>2, <3>3, <3>4 DEF Registered
    <3>6. /\ signals' \in [Types -> Instance \cup {0}]
          /\ response' \in [Request -> Instance \cup {0}]
          /\ pending' \in [Types -> SUBSET Request] /\ old' \subseteq Request
      <4>1. /\ response' = [q \in Request |-> IF q \in pending[t] THEN i ELSE response[q]]
            /\ pending' = [pending EXCEPT ![t] = {}] /\ old' = old \ pending[t]
        BY <1>9, <2>3 DEF ExecuteRegister
      <4>2. pending' \in [Types -> SUBSET Request] /\ old' \subseteq Request
        BY <2>2, <4>1
      <4>3. response' \in [Request -> Instance \cup {0}]
        BY <2>2, <4>1
      <4>4. signals' \in [Types -> Instance \cup {0}]
        BY <2>2, <3>1
      <4> QED BY <4>2, <4>3, <4>4
    <3> QED
      BY <1>9, <2>1, <3>2, <3>4, <3>5, <3>6 DEF ExecuteRegister, sentVars, hookVars, Registered
  <2>4. CASE ~Unregistered(t)
    BY <1>9, <2>1, <2>4 DEF ExecuteRegister, sentVars, hookVars, Registered
  <2> QED BY <2>3, <2>4
<1>10. CASE ExecuteGet
  <2>1. Head(batch) \in Command /\ batch' \in Seq(Command)
    BY <1>10 DEF ExecuteGet
  <2>2. Head(batch).type \in Types /\ Head(batch).id \in Request
    BY <1>10, <2>1 DEF ExecuteGet, Command, Register, GetSignal
  <2>3. response' \in [Request -> Instance \cup {0}]
    <3>1. CASE response' = [response EXCEPT ![Head(batch).id] = signals[Head(batch).type]]
      BY <2>2, <3>1
    <3>2. CASE response' = response
      BY <3>2
    <3> QED BY <1>10, <3>1, <3>2 DEF ExecuteGet
  <2>4. pending' \in [Types -> SUBSET Request]
    <3>1. CASE pending' = [pending EXCEPT ![Head(batch).type] = @ \cup {Head(batch).id}]
      BY <2>2, <3>1
    <3>2. CASE pending' = pending
      BY <3>2
    <3> QED BY <1>10, <3>1, <3>2 DEF ExecuteGet
  <2> QED BY <1>10, <2>1, <2>3, <2>4 DEF ExecuteGet, sentVars, hookVars, Registered
<1>11. CASE Evict
  BY <1>11 DEF Evict, TooOld, sentVars, hookVars, Registered
<1>12. CASE TickAll
  <2>1. queued' \in [Instance -> BOOLEAN]
    BY <1>12 DEF TickAll
  <2> QED BY <1>12, <2>1 DEF TickAll, sentVars, answerVars, hookVars, Registered
<1>13. CASE Continue
  BY <1>13 DEF Continue, sentVars, answerVars, hookVars, Registered
<1>14. CASE Stop
  BY <1>14 DEF Stop, Parked, hookVars, Registered
<1>15. CASE UNCHANGED vars
  BY <1>15 DEF vars, sentVars, answerVars, hubVars, hookVars, Registered
<1> QED
  BY <1>1, <1>2, <1>3, <1>4, <1>5, <1>6, <1>7, <1>8, <1>9, <1>10, <1>11, <1>12, <1>13,
     <1>14, <1>15 DEF Next, Hook, Loop

\* The types, and that the hub never ticks two drivers of one type, however
\* often the type is registered.
THEOREM OneDriverPerType == Spec => []TypeOK
BY TypeInit, TypeStep, PTL DEF Spec, TypeInv

----------------------------------------------------------------------------
(* Requests that follow a registration                                     *)

\* The commands that the hub has not executed, in the order in which it will.
Commands == batch \o queue

Announces(c, t) == c.cmd = "register" /\ c.type = t

\* A registration of the type of the k-th command of cs was executed or comes first.
Announced(cs, k) ==
    \/ signals[cs[k].type] # 0
    \/ \E j \in 1..(k - 1) : Announces(cs[j], cs[k].type)

\* A request that was sent after a registration is executed after one, and is
\* therefore never parked, nor evicted; one that is dropped otherwise was not
\* executed when the hub ended, and the hub ends without any hook.
OrderInv ==
    /\ pc # "execute" => batch = <<>>
    /\ \A k \in 1..Len(Commands) :
         Commands[k].cmd = "get" =>
           /\ Commands[k].id <= requests
           /\ afterReg[Commands[k].id] => Announced(Commands, k)
    /\ \A t \in Types : \A q \in pending[t] : q <= requests /\ ~afterReg[q]
    /\ \A q \in old : q <= requests /\ ~afterReg[q]
    /\ pc # "stopped" => \A q \in dropped : q <= requests /\ ~afterReg[q]
    /\ pc = "stopped" => ~SenderAlive

\* What is left of a queue of commands is one.
LEMMA TailOfCommands ==
    ASSUME NEW b \in Seq(Command), NEW c \in Seq(Command), b # <<>>
    PROVE  /\ Len(Tail(b) \o c) = Len(b \o c) - 1
           /\ Len(b \o c) \in Nat \ {0}
           /\ (b \o c)[1] = Head(b)
           /\ \A k \in 1..Len(Tail(b) \o c) : (Tail(b) \o c)[k] = (b \o c)[k + 1]
OBVIOUS

\* Every command is about a type.
LEMMA CommandTypes == ASSUME NEW c \in Command PROVE c.type \in Types
<1>1. ASSUME NEW t \in Types, NEW i \in Instance, c = Register(t, i) PROVE c.type \in Types
  BY <1>1 DEF Register
<1>2. ASSUME NEW t \in Types, NEW q \in Request, c = GetSignal(t, q) PROVE c.type \in Types
  BY <1>2 DEF GetSignal
<1> QED BY <1>1, <1>2 DEF Command

\* What is left when the head of the commands was executed: what it announced is
\* registered now.
LEMMA OrderAfterHead ==
    ASSUME TypeInv, OrderInv, pc = "execute", batch # <<>>,
           batch' = Tail(batch), UNCHANGED <<queue, requests, afterReg>>,
           \A t \in Types : signals[t] # 0 => signals'[t] # 0,
           Head(batch).cmd = "register" => signals'[Head(batch).type] # 0
    PROVE  \A k \in 1..Len(Commands') :
             Commands'[k].cmd = "get" =>
               /\ Commands'[k].id <= requests'
               /\ afterReg'[Commands'[k].id] => Announced(Commands, k)'
<1> SUFFICES ASSUME NEW k \in 1..Len(Commands'), Commands'[k].cmd = "get"
             PROVE  /\ Commands'[k].id <= requests'
                    /\ afterReg'[Commands'[k].id] => Announced(Commands, k)'
  OBVIOUS
<1>1. /\ Len(Commands') = Len(Commands) - 1 /\ Len(Commands) \in Nat \ {0}
      /\ Commands[1] = Head(batch)
      /\ \A j \in 1..Len(Commands') : Commands'[j] = Commands[j + 1]
  BY TailOfCommands DEF Commands, TypeInv, TypeOK
<1>2. k + 1 \in 1..Len(Commands) /\ Commands'[k] = Commands[k + 1] /\ (k + 1) - 1 = k
  BY <1>1
<1>3. /\ Commands[k + 1].id <= requests
      /\ afterReg[Commands[k + 1].id] => Announced(Commands, k + 1)
  BY <1>2 DEF OrderInv
<1>4. Commands[k + 1].type \in Types
  <2>1. Commands[k + 1] \in Command
    BY <1>2 DEF Commands, TypeInv, TypeOK
  <2> QED BY <2>1, CommandTypes
<1>5. ASSUME Announced(Commands, k + 1) PROVE Announced(Commands, k)'
  <2>1. CASE signals[Commands[k + 1].type] # 0
    BY <1>2, <1>4, <2>1 DEF Announced
  <2>2. ASSUME NEW j \in 1..k, Announces(Commands[j], Commands[k + 1].type)
        PROVE  Announced(Commands, k)'
    <3>1. CASE j = 1
      BY <1>1, <1>2, <2>2, <3>1 DEF Announces, Announced
    <3>2. CASE j # 1
      <4>1. j - 1 \in 1..(k - 1) /\ j - 1 \in 1..Len(Commands')
        BY <1>1, <1>2, <3>2
      <4>2. Commands'[j - 1] = Commands[j]
        BY <1>1, <4>1
      <4> QED BY <1>2, <2>2, <4>1, <4>2 DEF Announces, Announced
    <3> QED BY <3>1, <3>2
  <2> QED BY <1>2, <1>5, <2>1, <2>2 DEF Announced
<1> QED BY <1>2, <1>3, <1>5

\* The order holds while nothing was sent.
LEMMA OrderInit == Init => OrderInv
<1> SUFFICES ASSUME Init PROVE OrderInv
  OBVIOUS
<1>1. Commands = <<>> \o <<>> /\ Len(Commands) = 0
  BY DEF Init, Commands
<1> QED BY <1>1 DEF Init, OrderInv

\* A command that is sent comes last.
LEMMA OrderAfterSending ==
    ASSUME TypeInv, OrderInv, NEW c \in Command, queue' = Append(queue, c),
           UNCHANGED <<batch, signals>>, requests' \in Nat, requests <= requests',
           \A q \in Request : q <= requests => afterReg'[q] = afterReg[q],
           c.cmd = "get" =>
             /\ c.id <= requests'
             /\ afterReg'[c.id] => EverSent(c.type)
    PROVE  \A k \in 1..Len(Commands') :
             Commands'[k].cmd = "get" =>
               /\ Commands'[k].id <= requests'
               /\ afterReg'[Commands'[k].id] => Announced(Commands, k)'
<1> SUFFICES ASSUME NEW k \in 1..Len(Commands'), Commands'[k].cmd = "get"
             PROVE  /\ Commands'[k].id <= requests'
                    /\ afterReg'[Commands'[k].id] => Announced(Commands, k)'
  OBVIOUS
<1>0. batch \in Seq(Command) /\ queue \in Seq(Command) /\ requests \in Nat
  BY DEF TypeInv, TypeOK
<1>1. /\ Len(Commands') = Len(Commands) + 1 /\ Len(Commands) \in Nat
      /\ Commands'[Len(Commands) + 1] = c
      /\ \A j \in 1..Len(Commands) : Commands'[j] = Commands[j] /\ Commands[j] \in Command
  BY <1>0 DEF Commands
<1>2. CASE k \in 1..Len(Commands)
  <2>1. /\ Commands[k].id <= requests
        /\ afterReg[Commands[k].id] => Announced(Commands, k)
    BY <1>1, <1>2 DEF OrderInv
  <2>2. Commands[k].id \in Request
    BY <1>1, <1>2 DEF Command, Register, GetSignal
  <2>3. Announced(Commands, k) => Announced(Commands, k)'
    BY <1>1, <1>2 DEF Announced
  <2> QED BY <1>0, <1>1, <1>2, <2>1, <2>2, <2>3 DEF Request
<1>3. CASE k = Len(Commands) + 1
  <2>1. ASSUME EverSent(c.type) PROVE Announced(Commands, k)'
    <3>1. CASE signals[c.type] # 0
      BY <1>1, <1>3, <3>1 DEF Announced
    <3>2. ASSUME NEW i \in Instance, Contains(batch, Register(c.type, i))
          PROVE  Announced(Commands, k)'
      <4>1. PICK j \in 1..Len(batch) : batch[j] = Register(c.type, i)
        BY <3>2 DEF Contains
      <4>2. j \in 1..Len(Commands) /\ Commands[j] = Register(c.type, i)
        BY <1>0, <4>1 DEF Commands
      <4> QED BY <1>1, <1>3, <4>2 DEF Announced, Announces, Register
    <3>3. ASSUME NEW i \in Instance, Contains(queue, Register(c.type, i))
          PROVE  Announced(Commands, k)'
      <4>1. PICK j \in 1..Len(queue) : queue[j] = Register(c.type, i)
        BY <3>3 DEF Contains
      <4>2. /\ Len(batch) + j \in 1..Len(Commands)
            /\ Commands[Len(batch) + j] = Register(c.type, i)
        BY <1>0, <4>1 DEF Commands
      <4> QED BY <1>1, <1>3, <4>2 DEF Announced, Announces, Register
    <3> QED BY <2>1, <3>1, <3>2, <3>3 DEF EverSent
  <2> QED BY <1>1, <1>3, <2>1
<1> QED BY <1>1, <1>2, <1>3

\* Every step keeps the order in which commands wait.
LEMMA OrderStep == TypeInv /\ OrderInv /\ [Next]_vars => OrderInv'
<1> SUFFICES ASSUME TypeInv, OrderInv, [Next]_vars PROVE OrderInv'
  OBVIOUS
<1>0. /\ requests \in Nat /\ batch \in Seq(Command) /\ queue \in Seq(Command)
      /\ pending \in [Types -> SUBSET Request] /\ old \subseteq Request /\ dropped \subseteq Request
      /\ signals \in [Types -> Instance \cup {0}]
  BY DEF TypeInv, TypeOK
<1> DEFINE CommandsOrdered ==
             \A k \in 1..Len(Commands) :
               Commands[k].cmd = "get" =>
                 /\ Commands[k].id <= requests
                 /\ afterReg[Commands[k].id] => Announced(Commands, k)
<1>1. ASSUME NEW t \in Types, SendRegister(t) PROVE OrderInv'
  <2>1. Register(t, registers + 1) \in Command
    BY <1>1 DEF SendRegister, Command, Instance, TypeInv, TypeOK
  <2>2. CommandsOrdered'
    BY <1>0, <1>1, <2>1, OrderAfterSending DEF SendRegister, Register, hubVars
  <2> QED BY <1>1, <2>2 DEF SendRegister, OrderInv, SenderAlive, Mounted, answerVars, hubVars, hookVars
<1>2. CASE DropRoot
  <2>1. CommandsOrdered'
    BY <1>2 DEF DropRoot, OrderInv, Commands, Announced, sentVars, hubVars
  <2> QED
    BY <1>2, <2>1 DEF DropRoot, OrderInv, SenderAlive, Mounted, sentVars, answerVars, hubVars, hookVars
<1>3. ASSUME NEW h \in Hooks, Mount(h) \/ Unmount(h) PROVE OrderInv'
  <2>1. CommandsOrdered'
    BY <1>3 DEF Mount, Unmount, OrderInv, Commands, Announced, sentVars, hubVars
  <2>2. SenderAlive' => SenderAlive
    BY <1>3 DEF Mount, Unmount, SenderAlive, Mounted, TypeInv, TypeOK
  <2> QED BY <1>3, <2>1, <2>2 DEF Mount, Unmount, OrderInv, sentVars, answerVars, hubVars
<1>4. ASSUME NEW h \in Hooks, Fetch(h) PROVE OrderInv'
  <2> DEFINE c == GetSignal(TypeOf[h], requests + 1)
  <2>1. requests + 1 \in Request /\ requests' = requests + 1
    BY <1>0, <1>4 DEF Fetch, Request
  <2>2. c \in Command /\ c.cmd = "get" /\ c.id = requests + 1 /\ c.type = TypeOf[h]
    BY <2>1 DEF Command, GetSignal
  <2>3. /\ afterReg'[requests + 1] = EverSent(TypeOf[h])
        /\ \A q \in Request : q <= requests => afterReg'[q] = afterReg[q]
    BY <1>0, <1>4, <2>1 DEF Fetch, TypeInv, TypeOK, Request
  <2>4. CommandsOrdered'
    BY <1>0, <1>4, <2>1, <2>2, <2>3, OrderAfterSending DEF Fetch, hubVars
  <2>5. SenderAlive' => SenderAlive
    BY <1>4 DEF Fetch, SenderAlive, Mounted, TypeInv, TypeOK
  <2>6. \A q \in Request : q <= requests => q <= requests'
    BY <1>0, <2>1 DEF Request
  <2> QED BY <1>0, <1>4, <2>3, <2>4, <2>5, <2>6 DEF Fetch, OrderInv, answerVars, hubVars
<1>5. ASSUME NEW h \in Hooks, Receive(h) \/ Write(h) PROVE OrderInv'
  <2>1. CommandsOrdered'
    BY <1>5 DEF Receive, Write, OrderInv, Commands, Announced, sentVars, hubVars
  <2>2. SenderAlive' => SenderAlive
    BY <1>5 DEF Receive, Write, SenderAlive, Mounted, TypeInv, TypeOK, hookVars
  <2> QED BY <1>5, <2>1, <2>2 DEF Receive, Write, OrderInv, sentVars, answerVars, hubVars
<1>6. ASSUME NEW q \in Request, Age(q) PROVE OrderInv'
  <2>1. CommandsOrdered'
    BY <1>6 DEF Age, OrderInv, Commands, Announced, sentVars
  <2>2. q <= requests /\ ~afterReg[q]
    BY <1>6 DEF Age, Parked, OrderInv
  <2> QED
    BY <1>6, <2>1, <2>2 DEF Age, OrderInv, SenderAlive, Mounted, sentVars, answerVars, hookVars
<1>7. CASE Drain
  <2>1. batch = <<>>
    BY <1>7 DEF Drain, OrderInv
  <2>2. Commands' = Commands
    BY <1>0, <1>7, <2>1 DEF Drain, Commands
  <2>3. CommandsOrdered'
    BY <1>7, <2>2 DEF Drain, OrderInv, Announced
  <2> QED BY <1>7, <2>3 DEF Drain, OrderInv, SenderAlive, Mounted, answerVars, hookVars
<1>8. CASE ExecuteRegister
  <2> DEFINE t == Head(batch).type
  <2>1. t \in Types /\ Head(batch).id \in Instance /\ Head(batch).id # 0
    <3>1. Head(batch) \in Command
      BY <1>0, <1>8 DEF ExecuteRegister
    <3> QED BY <1>8, <3>1 DEF ExecuteRegister, Command, Register, GetSignal, Instance
  <2>2. signals'[t] # 0 /\ \A s \in Types : signals[s] # 0 => signals'[s] # 0
    BY <1>0, <1>8, <2>1 DEF ExecuteRegister, Unregistered
  <2>3. CommandsOrdered'
    BY <1>8, <2>2, OrderAfterHead DEF ExecuteRegister, sentVars
  <2>4. old' \subseteq old /\ \A s \in Types : pending'[s] \subseteq pending[s]
    BY <1>0, <1>8, <2>1 DEF ExecuteRegister
  <2> QED
    BY <1>0, <1>8, <2>3, <2>4 DEF ExecuteRegister, OrderInv, SenderAlive, Mounted, sentVars, hookVars
<1>9. CASE ExecuteGet
  <2> DEFINE t == Head(batch).type
             q == Head(batch).id
  <2>1. t \in Types /\ q \in Request
    <3>1. Head(batch) \in Command
      BY <1>0, <1>9 DEF ExecuteGet
    <3> QED BY <1>9, <3>1 DEF ExecuteGet, Command, Register, GetSignal
  <2>2. CommandsOrdered'
    BY <1>9, OrderAfterHead DEF ExecuteGet, sentVars
  <2>3. q <= requests /\ (signals[t] = 0 => ~afterReg[q])
    <3>1. 1 \in 1..Len(Commands) /\ Commands[1] = Head(batch)
      BY <1>0, <1>9, TailOfCommands DEF ExecuteGet, Commands
    <3>2. q <= requests /\ (afterReg[q] => Announced(Commands, 1))
      BY <1>9, <3>1 DEF ExecuteGet, OrderInv
    <3> QED BY <3>1, <3>2 DEF Announced
  <2>4. \A s \in Types : \A p \in pending'[s] : p <= requests /\ ~afterReg[p]
    BY <1>0, <1>9, <2>1, <2>3 DEF ExecuteGet, OrderInv
  <2> QED
    BY <1>9, <2>2, <2>4 DEF ExecuteGet, OrderInv, SenderAlive, Mounted, sentVars, hookVars
<1>10. CASE Evict
  <2>1. CommandsOrdered'
    BY <1>10 DEF Evict, OrderInv, Commands, Announced, sentVars
  <2>2. \A q \in dropped' : q <= requests /\ ~afterReg[q]
    BY <1>10 DEF Evict, TooOld, OrderInv
  <2>3. \A t \in Types : pending'[t] \subseteq pending[t]
    BY <1>10 DEF Evict
  <2> QED
    BY <1>10, <2>1, <2>2, <2>3 DEF Evict, OrderInv, SenderAlive, Mounted, sentVars, hookVars
<1>11. CASE TickAll \/ Continue
  <2>1. CommandsOrdered'
    BY <1>11 DEF TickAll, Continue, OrderInv, Commands, Announced, sentVars
  <2> QED
    BY <1>11, <2>1
       DEF TickAll, Continue, OrderInv, SenderAlive, Mounted, sentVars, answerVars, hookVars
<1>12. CASE Stop
  <2>1. Commands' = <<>> \o <<>> /\ Len(Commands') = 0
    BY <1>12 DEF Stop, OrderInv, Commands
  <2>2. CommandsOrdered'
    BY <2>1
  <2> QED BY <1>0, <1>12, <2>2 DEF Stop, OrderInv, SenderAlive, Mounted, hookVars
<1>13. CASE UNCHANGED vars
  BY <1>13 DEF vars, OrderInv, Commands, Announced, SenderAlive, Mounted, sentVars, answerVars,
               hubVars, hookVars
<1> QED
  BY <1>1, <1>2, <1>3, <1>4, <1>5, <1>6, <1>7, <1>8, <1>9, <1>10, <1>11, <1>12, <1>13
     DEF Next, Hook, Loop

\* A request that was sent after a registration of its type is not dropped under
\* the hook that awaits it, by eviction or by the end of the hub, however
\* registrations, requests, time and unmounting interleave.
THEOREM LateRequestsAreAnswered == Spec => []AnsweredIfRegisteredFirst
<1>1. TypeInv /\ OrderInv => AnsweredIfRegisteredFirst
  <2> SUFFICES ASSUME TypeInv, OrderInv, NEW h \in Hooks, Mounted(h), asked[h] # 0,
                      afterReg[asked[h]]
               PROVE  asked[h] \notin dropped
    BY DEF AnsweredIfRegisteredFirst
  <2>1. SenderAlive
    BY DEF SenderAlive
  <2> QED BY <2>1 DEF OrderInv
<1> QED BY <1>1, TypeInit, TypeStep, OrderInit, OrderStep, PTL DEF Spec

----------------------------------------------------------------------------
(* Where every request is                                                  *)

\* The requests that the hub has not executed, and those that have an answer.
Waiting == {q \in Request : \E k \in 1..Len(Commands) :
                               Commands[k].cmd = "get" /\ Commands[k].id = q}

Answered == {q \in Request : response[q] # 0}

\* A request that was sent is in one place: on its way, parked, answered, or
\* dropped, which its future is told.
RequestsAccounted ==
    /\ 1..requests = Waiting \cup Parked \cup Answered \cup dropped
    /\ Waiting \cap Parked = {} /\ (Waiting \cup Parked) \cap (Answered \cup dropped) = {}
    /\ Answered \cap dropped = {}

\* Commands are sent once, and a request is parked for one type, which is not
\* registered; only what is parked ages.
AccountInv ==
    /\ RequestsAccounted
    /\ \A j, k \in 1..Len(Commands) :
          Commands[j].cmd = Commands[k].cmd /\ Commands[j].id = Commands[k].id => j = k
    /\ \A t, u \in Types : t # u => pending[t] \cap pending[u] = {}
    /\ \A t \in Types : signals[t] # 0 => pending[t] = {}
    /\ old \subseteq Parked

\* A registration is new when it is executed: no two types have the same signal,
\* and every signal is ticked.
SignalInv ==
    /\ \A k \in 1..Len(Commands) :
          Commands[k].cmd = "register" =>
            Commands[k].id <= registers /\ \A t \in Types : signals[t] # Commands[k].id
    /\ \A t \in Types : signals[t] <= registers
    /\ \A t, u \in Types : signals[t] = signals[u] /\ signals[t] # 0 => t = u
    /\ \A t \in Types : signals[t] # 0 => \E n \in 1..Len(drivers) : drivers[n] = signals[t]

\* What the commands consist of.
LEMMA CommandParts ==
    ASSUME NEW c \in Command
    PROVE  /\ c.cmd \in {"register", "get"} /\ c.type \in Types
           /\ c.cmd = "register" => c.id \in Instance
           /\ c.cmd = "get" => c.id \in Request
<1>1. ASSUME NEW t \in Types, NEW i \in Instance, c = Register(t, i)
      PROVE  c.cmd = "register" /\ c.type \in Types /\ c.id \in Instance
  BY <1>1 DEF Register
<1>2. ASSUME NEW t \in Types, NEW q \in Request, c = GetSignal(t, q)
      PROVE  c.cmd = "get" /\ c.type \in Types /\ c.id \in Request
  BY <1>2 DEF GetSignal
<1> QED BY <1>1, <1>2 DEF Command

\* The sequence of the commands, and when it stays.
LEMMA CommandTypesAll ==
    ASSUME TypeInv
    PROVE  /\ Commands \in Seq(Command) /\ Len(Commands) \in Nat
           /\ \A k \in 1..Len(Commands) : Commands[k] \in Command
BY DEF TypeInv, TypeOK, Commands

\* A command that is sent is the last one.
LEMMA SentCommand ==
    ASSUME TypeInv, NEW c \in Command, queue' = Append(queue, c), batch' = batch
    PROVE  /\ Len(Commands') = Len(Commands) + 1 /\ Len(Commands) \in Nat
           /\ Commands'[Len(Commands) + 1] = c
           /\ \A j \in 1..Len(Commands) : Commands'[j] = Commands[j]
<1>0. batch \in Seq(Command) /\ queue \in Seq(Command)
  BY DEF TypeInv, TypeOK
<1> QED BY <1>0 DEF Commands

\* It joins those that wait, and is unlike them if it is new.
LEMMA WaitingSent ==
    ASSUME TypeInv, NEW c \in Command, queue' = Append(queue, c), batch' = batch,
           \A j, k \in 1..Len(Commands) :
             Commands[j].cmd = Commands[k].cmd /\ Commands[j].id = Commands[k].id => j = k,
           \A k \in 1..Len(Commands) : Commands[k].cmd = c.cmd => Commands[k].id # c.id
    PROVE  /\ Waiting' = IF c.cmd = "get" THEN Waiting \cup {c.id} ELSE Waiting
           /\ \A j, k \in 1..Len(Commands') :
                Commands'[j].cmd = Commands'[k].cmd /\ Commands'[j].id = Commands'[k].id => j = k
<1>1. /\ Len(Commands') = Len(Commands) + 1 /\ Len(Commands) \in Nat
      /\ Commands'[Len(Commands) + 1] = c
      /\ \A j \in 1..Len(Commands) : Commands'[j] = Commands[j]
  BY SentCommand
<1>2. c.cmd = "get" => c.id \in Request
  BY CommandParts
<1>3. \A k \in 1..Len(Commands') : k \in 1..Len(Commands) \/ k = Len(Commands) + 1
  BY <1>1
<1>4. 1..Len(Commands) \subseteq 1..Len(Commands') /\ Len(Commands) + 1 \in 1..Len(Commands')
  BY <1>1
<1>5. Waiting' = IF c.cmd = "get" THEN Waiting \cup {c.id} ELSE Waiting
  <2>1. ASSUME NEW q \in Waiting' PROVE q \in Waiting \/ (c.cmd = "get" /\ q = c.id)
    <3>1. PICK k \in 1..Len(Commands') : Commands'[k].cmd = "get" /\ Commands'[k].id = q
      BY DEF Waiting
    <3> QED BY <1>1, <1>3, <3>1 DEF Waiting
  <2>2. ASSUME NEW q \in Waiting PROVE q \in Waiting'
    <3>1. PICK k \in 1..Len(Commands) : Commands[k].cmd = "get" /\ Commands[k].id = q
      BY DEF Waiting
    <3> QED BY <1>1, <1>4, <3>1 DEF Waiting
  <2>3. ASSUME c.cmd = "get" PROVE c.id \in Waiting'
    BY <1>1, <1>2, <1>4, <2>3 DEF Waiting
  <2> QED BY <2>1, <2>2, <2>3
<1>6. ASSUME NEW j \in 1..Len(Commands'), NEW k \in 1..Len(Commands'),
             Commands'[j].cmd = Commands'[k].cmd, Commands'[j].id = Commands'[k].id
      PROVE  j = k
  BY <1>1, <1>3, <1>6
<1> QED BY <1>5, <1>6

\* The head leaves those that wait when it is executed.
LEMMA WaitingExecuted ==
    ASSUME TypeInv, batch # <<>>, batch' = Tail(batch), queue' = queue,
           \A j, k \in 1..Len(Commands) :
             Commands[j].cmd = Commands[k].cmd /\ Commands[j].id = Commands[k].id => j = k
    PROVE  /\ Head(batch) \in Command /\ 1 \in 1..Len(Commands) /\ Commands[1] = Head(batch)
           /\ Head(batch).cmd = "get"
                => Head(batch).id \in Waiting /\ Waiting' = Waiting \ {Head(batch).id}
           /\ Head(batch).cmd = "register" => Waiting' = Waiting
           /\ \A k \in 1..Len(Commands') : /\ k + 1 \in 1..Len(Commands) /\ k + 1 # 1
                                           /\ Commands'[k] = Commands[k + 1]
           /\ \A j, k \in 1..Len(Commands') :
                Commands'[j].cmd = Commands'[k].cmd /\ Commands'[j].id = Commands'[k].id => j = k
<1>0. batch \in Seq(Command) /\ queue \in Seq(Command)
  BY DEF TypeInv, TypeOK
<1>1. /\ Len(Commands') = Len(Commands) - 1 /\ Len(Commands) \in Nat \ {0}
      /\ Commands[1] = Head(batch)
      /\ \A k \in 1..Len(Commands') : Commands'[k] = Commands[k + 1]
  BY <1>0, TailOfCommands DEF Commands
<1>2. /\ \A k \in 1..Len(Commands') : k + 1 \in 1..Len(Commands) /\ k + 1 # 1
      /\ \A k \in 1..Len(Commands) : k = 1 \/ (k - 1 \in 1..Len(Commands') /\ (k - 1) + 1 = k)
      /\ 1 \in 1..Len(Commands)
  BY <1>1
<1>3. Head(batch) \in Command
  BY <1>0
<1>4. Head(batch).cmd \in {"register", "get"} /\ (Head(batch).cmd = "get" => Head(batch).id \in Request)
  BY <1>3, CommandParts
<1>5. ASSUME NEW q \in Waiting'
      PROVE  q \in Waiting /\ (Head(batch).cmd = "get" => q # Head(batch).id)
  <2>1. PICK k \in 1..Len(Commands') : Commands'[k].cmd = "get" /\ Commands'[k].id = q
    BY DEF Waiting
  <2>2. /\ k + 1 \in 1..Len(Commands) /\ k + 1 # 1
        /\ Commands[k + 1].cmd = "get" /\ Commands[k + 1].id = q
    BY <1>1, <1>2, <2>1
  <2>3. q \in Request
    BY DEF Waiting
  <2> QED BY <1>1, <1>2, <2>2, <2>3 DEF Waiting
<1>6. ASSUME NEW q \in Waiting, Head(batch).cmd = "get" => q # Head(batch).id PROVE q \in Waiting'
  <2>1. PICK k \in 1..Len(Commands) : Commands[k].cmd = "get" /\ Commands[k].id = q
    BY DEF Waiting
  <2>2. k # 1
    BY <1>1, <1>6, <2>1
  <2>3. k - 1 \in 1..Len(Commands') /\ Commands'[k - 1] = Commands[k]
    BY <1>1, <1>2, <2>2
  <2>4. q \in Request
    BY DEF Waiting
  <2> QED BY <2>1, <2>3, <2>4 DEF Waiting
<1>7. Head(batch).cmd = "get" => Head(batch).id \in Waiting
  BY <1>1, <1>2, <1>4 DEF Waiting
<1>8. ASSUME NEW j \in 1..Len(Commands'), NEW k \in 1..Len(Commands'),
             Commands'[j].cmd = Commands'[k].cmd, Commands'[j].id = Commands'[k].id
      PROVE  j = k
  <2>0. /\ j + 1 \in 1..Len(Commands) /\ Commands'[j] = Commands[j + 1]
        /\ k + 1 \in 1..Len(Commands) /\ Commands'[k] = Commands[k + 1]
    BY <1>1, <1>2
  <2>1. j + 1 = k + 1
    BY <1>8, <2>0
  <2>2. j \in Nat /\ k \in Nat /\ \A a, b \in Nat : a + 1 = b + 1 => a = b
    OBVIOUS
  <2> QED BY <2>1, <2>2
<1>9. Head(batch).cmd = "get" => Waiting' = Waiting \ {Head(batch).id}
  BY <1>5, <1>6
<1>10. Head(batch).cmd = "register" => Waiting' = Waiting
  BY <1>5, <1>6
<1>11. \A k \in 1..Len(Commands') : /\ k + 1 \in 1..Len(Commands) /\ k + 1 # 1
                                     /\ Commands'[k] = Commands[k + 1]
  BY <1>1, <1>2
<1> QED BY <1>1, <1>2, <1>3, <1>7, <1>8, <1>9, <1>10, <1>11

\* At first there is nothing.
LEMMA AccountInit == Init => AccountInv /\ SignalInv
<1> SUFFICES ASSUME Init PROVE AccountInv /\ SignalInv
  OBVIOUS
<1>1. Commands = <<>> \o <<>> /\ Len(Commands) = 0
  BY DEF Init, Commands
<1>2. 1..Len(Commands) = {} /\ 1..requests = {}
  BY <1>1 DEF Init
<1>3. Waiting = {} /\ Parked = {} /\ Answered = {} /\ dropped = {} /\ old = {}
  BY <1>2 DEF Init, Waiting, Parked, Answered
<1>4. AccountInv
  BY <1>2, <1>3 DEF Init, AccountInv, RequestsAccounted
<1>5. SignalInv
  BY <1>2 DEF Init, SignalInv, TypeOK
<1> QED BY <1>4, <1>5

\* What the commands and the places are when those variables stay.
LEMMA PlacesStay ==
    /\ UNCHANGED <<batch, queue>> => Commands' = Commands /\ Waiting' = Waiting
    /\ UNCHANGED pending => Parked' = Parked
    /\ UNCHANGED response => Answered' = Answered
BY DEF Commands, Waiting, Parked, Answered

\* Every step keeps requests accounted for.
LEMMA AccountStep == TypeInv /\ OrderInv /\ AccountInv /\ SignalInv /\ [Next]_vars => AccountInv'
<1> SUFFICES ASSUME TypeInv, OrderInv, AccountInv, SignalInv, [Next]_vars PROVE AccountInv'
  OBVIOUS
<1> DEFINE Once == \A j, k \in 1..Len(Commands) :
             Commands[j].cmd = Commands[k].cmd /\ Commands[j].id = Commands[k].id => j = k
<1>0. /\ requests \in Nat /\ registers \in Nat /\ batch \in Seq(Command) /\ queue \in Seq(Command)
      /\ pending \in [Types -> SUBSET Request] /\ old \subseteq Request /\ dropped \subseteq Request
      /\ signals \in [Types -> Instance \cup {0}] /\ response \in [Request -> Instance \cup {0}]
      /\ Once /\ Waiting \subseteq Request /\ Parked \subseteq Request
  BY DEF TypeInv, TypeOK, AccountInv, Waiting, Parked
<1>a. ASSUME UNCHANGED <<batch, queue, requests, response, dropped, signals, pending, old>>
      PROVE  AccountInv'
  BY <1>a, PlacesStay DEF AccountInv, RequestsAccounted
<1> HIDE DEF Once
<1>1. ASSUME NEW t \in Types, SendRegister(t) PROVE AccountInv'
  <2> DEFINE c == Register(t, registers + 1)
  <2>1. c \in Command /\ c.cmd = "register" /\ c.id = registers + 1
    BY <1>0, <1>1 DEF SendRegister, Command, Instance, Register
  <2>2. \A k \in 1..Len(Commands) : Commands[k].cmd = c.cmd => Commands[k].id # c.id
    <3>1. ASSUME NEW k \in 1..Len(Commands), Commands[k].cmd = "register" PROVE Commands[k].id # registers + 1
      <4>1. Commands[k].id <= registers /\ Commands[k].id \in Nat
        BY <3>1, CommandTypesAll, CommandParts DEF SignalInv, Instance
      <4> QED BY <1>0, <4>1
    <3> QED BY <2>1, <3>1
  <2>3. queue' = Append(queue, c) /\ batch' = batch
    BY <1>1 DEF SendRegister, hubVars
  <2> HIDE DEF c
  <2>4. Waiting' = Waiting /\ Once'
    BY <1>0, <2>1, <2>2, <2>3, WaitingSent DEF Once
  <2>5. Parked' = Parked /\ Answered' = Answered
    BY <1>1, PlacesStay DEF SendRegister, hubVars, answerVars
  <2> QED
    BY <1>1, <2>4, <2>5 DEF SendRegister, AccountInv, RequestsAccounted, hubVars, answerVars, Once
<1>2. CASE DropRoot
  BY <1>2, <1>a DEF DropRoot, sentVars, hubVars, answerVars
<1>3. ASSUME NEW h \in Hooks, Mount(h) \/ Unmount(h) \/ Receive(h) \/ Write(h) PROVE AccountInv'
  BY <1>3, <1>a DEF Mount, Unmount, Receive, Write, sentVars, hubVars, answerVars
<1>4. ASSUME NEW h \in Hooks, Fetch(h) PROVE AccountInv'
  <2> DEFINE c == GetSignal(TypeOf[h], requests + 1)
  <2>1. requests + 1 \in Request /\ requests' = requests + 1
    BY <1>0, <1>4 DEF Fetch, Request
  <2>2. c \in Command /\ c.cmd = "get" /\ c.id = requests + 1
    BY <2>1 DEF Command, GetSignal
  <2>3. \A k \in 1..Len(Commands) : Commands[k].cmd = c.cmd => Commands[k].id # c.id
    <3>1. ASSUME NEW k \in 1..Len(Commands), Commands[k].cmd = "get" PROVE Commands[k].id # requests + 1
      <4>1. Commands[k].id <= requests /\ Commands[k].id \in Nat
        BY <3>1, CommandTypesAll, CommandParts DEF OrderInv, Request
      <4> QED BY <1>0, <4>1
    <3> QED BY <2>2, <3>1
  <2>4. queue' = Append(queue, c) /\ batch' = batch
    BY <1>4 DEF Fetch, hubVars
  <2> HIDE DEF c
  <2>5. Waiting' = Waiting \cup {requests + 1} /\ Once'
    BY <1>0, <2>2, <2>3, <2>4, WaitingSent DEF Once
  <2>6. Parked' = Parked /\ Answered' = Answered /\ UNCHANGED <<dropped, pending, signals, old>>
    BY <1>4, PlacesStay DEF Fetch, hubVars, answerVars
  <2>7. 1..requests' = (1..requests) \cup {requests + 1} /\ requests + 1 \notin 1..requests
    BY <1>0, <2>1
  <2>8. RequestsAccounted'
    BY <2>5, <2>6, <2>7 DEF RequestsAccounted, AccountInv
  <2> QED BY <2>5, <2>6, <2>8 DEF AccountInv, Once
<1>5. ASSUME NEW q \in Request, Age(q) PROVE AccountInv'
  <2>1. old' \subseteq Parked'
    BY <1>5, PlacesStay DEF Age, AccountInv
  <2> QED
    BY <1>5, <2>1, PlacesStay DEF Age, AccountInv, RequestsAccounted, sentVars, answerVars
<1>6. CASE Drain
  <2>1. Commands' = Commands
    BY <1>0, <1>6 DEF Drain, OrderInv, Commands
  <2>2. Waiting' = Waiting /\ Parked' = Parked /\ Answered' = Answered
    BY <1>6, <2>1, PlacesStay DEF Drain, Waiting, answerVars
  <2> QED
    BY <1>6, <2>1, <2>2 DEF Drain, AccountInv, RequestsAccounted, answerVars
<1>7. CASE ExecuteRegister
  <2> DEFINE t == Head(batch).type
             i == Head(batch).id
  <2>0. batch # <<>> /\ batch' = Tail(batch) /\ queue' = queue /\ Head(batch).cmd = "register"
    BY <1>7 DEF ExecuteRegister, sentVars
  <2>1. t \in Types /\ i \in Instance /\ i # 0
    <3>1. Head(batch) \in Command
      BY <1>0, <2>0
    <3>2. t \in Types /\ i \in Instance
      BY <2>0, <3>1, CommandParts
    <3> QED BY <3>2 DEF Instance
  <2>2. Waiting' = Waiting /\ Once'
    BY <1>0, <2>0, WaitingExecuted DEF Once
  <2>3. UNCHANGED <<requests, dropped>>
    BY <1>7 DEF ExecuteRegister, sentVars
  <2>4. CASE ~Unregistered(t)
    <3>1. UNCHANGED <<signals, response, pending, old>>
      BY <1>7, <2>4 DEF ExecuteRegister
    <3> QED BY <2>2, <2>3, <3>1, PlacesStay DEF AccountInv, RequestsAccounted, Once
  <2>5. CASE Unregistered(t)
    <3>1. /\ signals' = [signals EXCEPT ![t] = i]
          /\ response' = [q \in Request |-> IF q \in pending[t] THEN i ELSE response[q]]
          /\ pending' = [pending EXCEPT ![t] = {}] /\ old' = old \ pending[t]
      BY <1>7, <2>5 DEF ExecuteRegister
    <3>2. pending[t] \subseteq Parked /\ \A u \in Types : u # t => pending[u] \cap pending[t] = {}
      BY <2>1 DEF Parked, AccountInv
    <3>3. Parked' = Parked \ pending[t]
      <4>1. \A u \in Types : pending'[u] = IF u = t THEN {} ELSE pending[u]
        BY <1>0, <2>1, <3>1
      <4> QED BY <2>1, <3>2, <4>1 DEF Parked
    <3>4. Answered' = Answered \cup pending[t]
      BY <1>0, <2>1, <3>1, <3>2 DEF Answered
    <3>5. RequestsAccounted'
      BY <2>2, <2>3, <3>2, <3>3, <3>4 DEF RequestsAccounted, AccountInv
    <3>6. /\ \A u, s \in Types : u # s => pending'[u] \cap pending'[s] = {}
          /\ \A u \in Types : signals'[u] # 0 => pending'[u] = {}
          /\ old' \subseteq Parked'
      BY <1>0, <2>1, <3>1, <3>3 DEF AccountInv
    <3> QED BY <2>2, <3>5, <3>6 DEF AccountInv, Once
  <2> QED BY <2>4, <2>5
<1>8. CASE ExecuteGet
  <2> DEFINE t == Head(batch).type
             q == Head(batch).id
  <2>0. batch # <<>> /\ batch' = Tail(batch) /\ queue' = queue /\ Head(batch).cmd = "get"
    BY <1>8 DEF ExecuteGet, sentVars
  <2>1. t \in Types /\ q \in Request
    <3>1. Head(batch) \in Command
      BY <1>0, <2>0
    <3> QED BY <2>0, <3>1, CommandParts
  <2>2. q \in Waiting /\ Waiting' = Waiting \ {q} /\ Once'
    BY <1>0, <2>0, WaitingExecuted DEF Once
  <2>3. UNCHANGED <<requests, dropped, signals, old>>
    BY <1>8 DEF ExecuteGet, sentVars
  <2>4. CASE signals[t] # 0
    <3>1. response' = [response EXCEPT ![q] = signals[t]] /\ pending' = pending
      BY <1>8, <2>4 DEF ExecuteGet
    <3>2. Answered' = Answered \cup {q}
      BY <1>0, <2>1, <2>4, <3>1 DEF Answered
    <3>3. RequestsAccounted'
      BY <2>2, <2>3, <3>1, <3>2, PlacesStay DEF RequestsAccounted, AccountInv
    <3> QED BY <2>2, <2>3, <3>1, <3>3, PlacesStay DEF AccountInv, Once
  <2>5. CASE signals[t] = 0
    <3>1. response' = response /\ pending' = [pending EXCEPT ![t] = @ \cup {q}]
      BY <1>8, <2>5 DEF ExecuteGet
    <3>2. \A u \in Types : pending'[u] = IF u = t THEN pending[u] \cup {q} ELSE pending[u]
      BY <1>0, <2>1, <3>1
    <3>3. Parked' = Parked \cup {q}
      <4>1. q \in pending'[t] /\ \A u \in Types : pending[u] \subseteq pending'[u]
        BY <2>1, <3>2
      <4>2. \A u \in Types : pending'[u] \subseteq pending[u] \cup {q}
        BY <3>2
      <4> QED BY <2>1, <4>1, <4>2 DEF Parked
    <3>4. RequestsAccounted'
      BY <2>2, <2>3, <3>1, <3>3, PlacesStay DEF RequestsAccounted, AccountInv
    <3>5. \A u \in Types : q \notin pending[u]
      BY <2>2 DEF AccountInv, RequestsAccounted, Parked
    <3>6. ASSUME NEW u \in Types, NEW s \in Types, u # s PROVE pending'[u] \cap pending'[s] = {}
      <4>1. pending[u] \cap pending[s] = {}
        BY <3>6 DEF AccountInv
      <4> QED BY <3>2, <3>5, <3>6, <4>1
    <3>7. /\ \A u \in Types : signals'[u] # 0 => pending'[u] = {}
          /\ old' \subseteq Parked'
      BY <2>3, <2>5, <3>2, <3>3 DEF AccountInv
    <3> QED BY <2>2, <3>4, <3>6, <3>7 DEF AccountInv, Once
  <2> QED BY <2>4, <2>5
<1>9. CASE Evict
  <2>1. /\ pending' = [t \in Types |-> pending[t] \ old] /\ dropped' = dropped \cup old
        /\ old' = {} /\ UNCHANGED <<batch, queue, requests, response, signals>>
    BY <1>9 DEF Evict, TooOld, sentVars
  <2>2. Parked' = Parked \ old
    BY <2>1 DEF Parked
  <2>3. old \subseteq Parked
    BY DEF AccountInv
  <2>4. RequestsAccounted'
    BY <2>1, <2>2, <2>3, PlacesStay DEF RequestsAccounted, AccountInv
  <2>5. /\ \A u, s \in Types : u # s => pending'[u] \cap pending'[s] = {}
        /\ \A u \in Types : signals'[u] # 0 => pending'[u] = {}
    BY <2>1 DEF AccountInv
  <2> QED BY <2>1, <2>4, <2>5, PlacesStay DEF AccountInv
<1>10. CASE TickAll \/ Continue
  BY <1>10, <1>a DEF TickAll, Continue, sentVars, answerVars
<1>11. CASE Stop
  <2>1. Commands' = <<>> \o <<>> /\ Len(Commands') = 0
    BY <1>11 DEF Stop, OrderInv, Commands
  <2>2. 1..Len(Commands') = {}
    BY <2>1
  <2>3. Waiting' = {} /\ Parked' = {} /\ Answered' = Answered
    BY <1>11, <2>2 DEF Stop, Waiting, Parked, Answered
  <2>4. Waiting = {q \in Request : \E t \in Types : Contains(queue, GetSignal(t, q))}
    <3>1. batch = <<>> /\ Commands = queue
      BY <1>0, <1>11 DEF Stop, OrderInv, Commands
    <3>2. \A k \in 1..Len(Commands) : Commands[k] \in Command
      BY CommandTypesAll
    <3>3. ASSUME NEW q \in Request, NEW k \in 1..Len(queue), queue[k].cmd = "get", queue[k].id = q
          PROVE  \E t \in Types : Contains(queue, GetSignal(t, q))
      <4>1. PICK t \in Types : queue[k] = GetSignal(t, q)
        BY <3>1, <3>2, <3>3 DEF Command, Register, GetSignal
      <4> QED BY <4>1 DEF Contains
    <3>4. ASSUME NEW q \in Request, NEW t \in Types, Contains(queue, GetSignal(t, q))
          PROVE  q \in Waiting
      <4>1. PICK k \in 1..Len(queue) : queue[k] = GetSignal(t, q)
        BY <3>4 DEF Contains
      <4> QED BY <3>1, <4>1 DEF Waiting, GetSignal
    <3> QED BY <3>1, <3>3, <3>4 DEF Waiting
  <2>5. /\ dropped' = dropped \cup Parked \cup Waiting
        /\ pending' = [t \in Types |-> {}] /\ old' = {} /\ UNCHANGED <<requests, signals>>
    BY <1>11, <2>4 DEF Stop
  <2>6. RequestsAccounted'
    BY <2>3, <2>5 DEF RequestsAccounted, AccountInv
  <2> QED BY <2>2, <2>3, <2>5, <2>6 DEF AccountInv
<1>12. CASE UNCHANGED vars
  BY <1>12, <1>a DEF vars, sentVars, hubVars, answerVars
<1> QED
  BY <1>1, <1>2, <1>3, <1>4, <1>5, <1>6, <1>7, <1>8, <1>9, <1>10, <1>11, <1>12
     DEF Next, Hook, Loop

\* Every step keeps signals apart, and ticked.
LEMMA SignalStep == TypeInv /\ OrderInv /\ AccountInv /\ SignalInv /\ [Next]_vars => SignalInv'
<1> SUFFICES ASSUME TypeInv, OrderInv, AccountInv, SignalInv, [Next]_vars PROVE SignalInv'
  OBVIOUS
<1>0. /\ registers \in Nat /\ batch \in Seq(Command) /\ queue \in Seq(Command)
      /\ signals \in [Types -> Instance \cup {0}] /\ drivers \in Seq(Instance)
  BY DEF TypeInv, TypeOK
<1>1. ASSUME NEW t \in Types, SendRegister(t) PROVE SignalInv'
  <2> DEFINE c == Register(t, registers + 1)
  <2>1. c \in Command /\ c.id = registers + 1
    BY <1>0, <1>1 DEF SendRegister, Command, Instance, Register
  <2>2. queue' = Append(queue, c) /\ UNCHANGED <<batch, signals, drivers>> /\ registers' = registers + 1
    BY <1>1 DEF SendRegister, hubVars
  <2> HIDE DEF c
  <2>3. /\ Len(Commands') = Len(Commands) + 1 /\ Len(Commands) \in Nat
        /\ Commands'[Len(Commands) + 1] = c
        /\ \A j \in 1..Len(Commands) : Commands'[j] = Commands[j]
    BY <2>1, <2>2, SentCommand
  <2>4. \A u \in Types : signals[u] \in Nat /\ signals[u] <= registers
    BY <1>0 DEF SignalInv, Instance
  <2>5. ASSUME NEW k \in 1..Len(Commands'), Commands'[k].cmd = "register"
        PROVE  Commands'[k].id <= registers' /\ \A u \in Types : signals'[u] # Commands'[k].id
    <3>1. CASE k \in 1..Len(Commands)
      <4>1. Commands[k].id <= registers /\ \A u \in Types : signals[u] # Commands[k].id
        BY <2>3, <2>5, <3>1 DEF SignalInv
      <4>2. Commands[k].id \in Nat
        BY <2>3, <2>5, <3>1, CommandTypesAll, CommandParts DEF Instance
      <4> QED BY <1>0, <2>2, <2>3, <3>1, <4>1, <4>2
    <3>2. CASE k = Len(Commands) + 1
      BY <1>0, <2>1, <2>2, <2>3, <2>4, <3>2
    <3> QED BY <2>3, <3>1, <3>2
  <2>6. \A u \in Types : signals'[u] <= registers'
    BY <1>0, <2>2, <2>4
  <2> QED BY <2>2, <2>5, <2>6 DEF SignalInv
<1>2. ASSUME NEW h \in Hooks, Fetch(h) PROVE SignalInv'
  <2> DEFINE c == GetSignal(TypeOf[h], requests + 1)
  <2>1. requests + 1 \in Request
    BY <1>2 DEF Fetch, Request, TypeInv, TypeOK
  <2>2. c \in Command /\ c.cmd = "get"
    BY <2>1 DEF Command, GetSignal
  <2>3. queue' = Append(queue, c) /\ UNCHANGED <<batch, signals, drivers, registers>>
    BY <1>2 DEF Fetch, hubVars
  <2> HIDE DEF c
  <2>4. /\ Len(Commands') = Len(Commands) + 1 /\ Len(Commands) \in Nat
        /\ Commands'[Len(Commands) + 1] = c
        /\ \A j \in 1..Len(Commands) : Commands'[j] = Commands[j]
    BY <2>2, <2>3, SentCommand
  <2>5. \A k \in 1..Len(Commands') : Commands'[k].cmd = "register"
          => k \in 1..Len(Commands) /\ Commands'[k] = Commands[k]
    BY <2>2, <2>4
  <2> QED BY <2>3, <2>5 DEF SignalInv
<1>3. CASE ExecuteRegister
  <2> DEFINE t == Head(batch).type
             i == Head(batch).id
  <2>0. batch # <<>> /\ batch' = Tail(batch) /\ queue' = queue /\ Head(batch).cmd = "register"
    BY <1>3 DEF ExecuteRegister, sentVars
  <2>1. t \in Types /\ i \in Instance /\ i # 0
    <3>1. Head(batch) \in Command
      BY <1>0, <2>0
    <3>2. t \in Types /\ i \in Instance
      BY <2>0, <3>1, CommandParts
    <3> QED BY <3>2 DEF Instance
  <2>2. registers' = registers
    BY <1>3 DEF ExecuteRegister, sentVars
  <2>3. \A k \in 1..Len(Commands') : k + 1 \in 1..Len(Commands) /\ k + 1 # 1 /\ Commands'[k] = Commands[k + 1]
    BY <2>0, WaitingExecuted DEF AccountInv
  <2>4. 1 \in 1..Len(Commands) /\ Commands[1] = Head(batch)
    BY <2>0, WaitingExecuted DEF AccountInv
  <2>5. CASE ~Unregistered(t)
    <3>1. UNCHANGED <<signals, drivers>>
      BY <1>3, <2>5 DEF ExecuteRegister
    <3> QED BY <2>2, <2>3, <3>1 DEF SignalInv
  <2>6. CASE Unregistered(t)
    <3>1. signals' = [signals EXCEPT ![t] = i] /\ drivers' = Append(drivers, i)
      BY <1>3, <2>6 DEF ExecuteRegister, WithDriver
    <3>2. i <= registers /\ \A u \in Types : signals[u] # i
      BY <2>0, <2>4 DEF SignalInv
    <3>3. \A u \in Types : signals'[u] = IF u = t THEN i ELSE signals[u]
      BY <1>0, <2>1, <3>1
    <3>4. ASSUME NEW k \in 1..Len(Commands'), Commands'[k].cmd = "register"
          PROVE  Commands'[k].id <= registers' /\ \A u \in Types : signals'[u] # Commands'[k].id
      <4>1. /\ k + 1 \in 1..Len(Commands) /\ k + 1 # 1 /\ Commands'[k] = Commands[k + 1]
            /\ Commands[k + 1].cmd = "register"
        BY <2>3, <3>4
      <4>2. Commands[k + 1].id # i
        BY <2>0, <2>4, <4>1 DEF AccountInv
      <4>3. Commands[k + 1].id <= registers /\ \A u \in Types : signals[u] # Commands[k + 1].id
        BY <4>1 DEF SignalInv
      <4> QED BY <2>2, <3>3, <4>1, <4>2, <4>3
    <3>5. \A u \in Types : signals'[u] <= registers'
      BY <2>2, <3>2, <3>3 DEF SignalInv
    <3>6. \A u, s \in Types : signals'[u] = signals'[s] /\ signals'[u] # 0 => u = s
      BY <3>2, <3>3 DEF SignalInv
    <3>7. ASSUME NEW u \in Types, signals'[u] # 0
          PROVE  \E n \in 1..Len(drivers') : drivers'[n] = signals'[u]
      <4>0. /\ Len(drivers') = Len(drivers) + 1 /\ Len(drivers) \in Nat
            /\ drivers'[Len(drivers) + 1] = i
            /\ \A n \in 1..Len(drivers) : drivers'[n] = drivers[n]
        BY <1>0, <2>1, <3>1
      <4>1. CASE u = t
        BY <3>3, <4>0, <4>1
      <4>2. CASE u # t
        <5>1. PICK n \in 1..Len(drivers) : drivers[n] = signals[u]
          BY <3>3, <3>7, <4>2 DEF SignalInv
        <5> QED BY <3>3, <4>0, <4>2, <5>1
      <4> QED BY <4>1, <4>2
    <3> QED BY <3>4, <3>5, <3>6, <3>7 DEF SignalInv
  <2> QED BY <2>5, <2>6
<1>4. CASE ExecuteGet
  <2>0. batch # <<>> /\ batch' = Tail(batch) /\ queue' = queue /\ UNCHANGED <<registers, signals, drivers>>
    BY <1>4 DEF ExecuteGet, sentVars
  <2>3. \A k \in 1..Len(Commands') : k + 1 \in 1..Len(Commands) /\ Commands'[k] = Commands[k + 1]
    BY <2>0, WaitingExecuted DEF AccountInv
  <2> QED BY <2>0, <2>3 DEF SignalInv
<1>5. CASE Drain
  <2>1. Commands' = Commands
    BY <1>0, <1>5 DEF Drain, OrderInv, Commands
  <2> QED BY <1>5, <2>1 DEF Drain, SignalInv
<1>6. CASE Stop
  <2>1. Commands' = <<>> \o <<>> /\ Len(Commands') = 0
    BY <1>6 DEF Stop, OrderInv, Commands
  <2>2. 1..Len(Commands') = {}
    BY <2>1
  <2> QED BY <1>6, <2>2 DEF Stop, SignalInv
<1>7. ASSUME UNCHANGED <<batch, queue, registers, signals, drivers>> PROVE SignalInv'
  BY <1>7, PlacesStay DEF SignalInv
<1>8. CASE DropRoot
  BY <1>7, <1>8 DEF DropRoot, sentVars, hubVars
<1>9. ASSUME NEW h \in Hooks, Mount(h) \/ Unmount(h) \/ Receive(h) \/ Write(h) PROVE SignalInv'
  BY <1>7, <1>9 DEF Mount, Unmount, Receive, Write, sentVars, hubVars
<1>10. CASE \E q \in Request : Age(q)
  BY <1>7, <1>10 DEF Age, sentVars
<1>11. CASE Evict \/ TickAll \/ Continue
  BY <1>7, <1>11 DEF Evict, TickAll, Continue, sentVars
<1>12. CASE UNCHANGED vars
  BY <1>7, <1>12 DEF vars, sentVars, hubVars
<1> QED
  BY <1>1, <1>2, <1>3, <1>4, <1>5, <1>6, <1>8, <1>9, <1>10, <1>11, <1>12 DEF Next, Hook, Loop

\* What a hook awaits is about the type that it asked for, wherever it is; what it
\* writes to is the signal of that type, and what is written to is ticked.
HookInv ==
    /\ \A h \in Hooks : asked[h] <= requests
    /\ \A g, h \in Hooks : asked[g] = asked[h] /\ asked[g] # 0 => g = h
    /\ \A h \in Hooks, k \in 1..Len(Commands) :
          Commands[k].cmd = "get" /\ Commands[k].id = asked[h] => Commands[k].type = TypeOf[h]
    /\ \A h \in Hooks, t \in Types : asked[h] \in pending[t] => t = TypeOf[h]
    /\ \A h \in Hooks : asked[h] # 0 /\ response[asked[h]] # 0
                           => response[asked[h]] = signals[TypeOf[h]]
    /\ \A h \in Hooks : writer[h] # 0 => writer[h] = signals[TypeOf[h]]
    /\ \A i \in Instance : queued[i] => \E n \in 1..Len(drivers) : drivers[n] = i

\* No hook has asked or written at first.
LEMMA HookInit == Init => HookInv
<1> SUFFICES ASSUME Init PROVE HookInv
  OBVIOUS
<1>1. Commands = <<>> \o <<>> /\ Len(Commands) = 0
  BY DEF Init, Commands
<1>2. 1..Len(Commands) = {}
  BY <1>1
<1>3. /\ \A h \in Hooks : asked[h] = 0 /\ writer[h] = 0
      /\ \A t \in Types : pending[t] = {}
      /\ \A i \in Instance : ~queued[i]
      /\ requests = 0 /\ 0 <= 0
  BY DEF Init
<1>4. \A h \in Hooks : asked[h] <= requests
  BY <1>3
<1>5. \A h \in Hooks, k \in 1..Len(Commands) :
        Commands[k].cmd = "get" /\ Commands[k].id = asked[h] => Commands[k].type = TypeOf[h]
  BY <1>2
<1>6. \A h \in Hooks, t \in Types : asked[h] \in pending[t] => t = TypeOf[h]
  BY <1>3
<1> QED BY <1>3, <1>4, <1>5, <1>6 DEF HookInv

\* Signals and answers stay what they are.
LEMMA Stays ==
    ASSUME TypeInv, OrderInv, AccountInv, [Next]_vars
    PROVE  /\ \A t \in Types : signals[t] # 0 => signals'[t] = signals[t]
           /\ \A q \in Request : response[q] # 0 => response'[q] = response[q]
           /\ \A n \in 1..Len(drivers) : n \in 1..Len(drivers') /\ drivers'[n] = drivers[n]
<1>0. /\ signals \in [Types -> Instance \cup {0}] /\ drivers \in Seq(Instance)
      /\ response \in [Request -> Instance \cup {0}] /\ batch \in Seq(Command)
  BY DEF TypeInv, TypeOK
<1>1. CASE ExecuteRegister
  <2> DEFINE t == Head(batch).type
             i == Head(batch).id
  <2>1. t \in Types /\ i \in Instance
    <3>1. Head(batch) \in Command /\ Head(batch).cmd = "register"
      BY <1>0, <1>1 DEF ExecuteRegister
    <3> QED BY <3>1, CommandParts
  <2>2. CASE Unregistered(t)
    <3>1. /\ signals' = [signals EXCEPT ![t] = i] /\ drivers' = Append(drivers, i)
          /\ response' = [q \in Request |-> IF q \in pending[t] THEN i ELSE response[q]]
      BY <1>1, <2>2 DEF ExecuteRegister, WithDriver
    <3>2. \A q \in pending[t] : response[q] = 0
      BY <2>1 DEF AccountInv, RequestsAccounted, Parked, Answered, TypeInv, TypeOK
    <3>3. \A u \in Types : signals[u] # 0 => signals'[u] = signals[u]
      BY <1>0, <2>1, <2>2, <3>1 DEF Unregistered
    <3>4. \A n \in 1..Len(drivers) : n \in 1..Len(drivers') /\ drivers'[n] = drivers[n]
      BY <1>0, <2>1, <3>1
    <3> QED BY <3>1, <3>2, <3>3, <3>4
  <2>3. CASE ~Unregistered(t)
    BY <1>1, <2>3 DEF ExecuteRegister
  <2> QED BY <2>2, <2>3
<1>2. CASE ExecuteGet
  <2> DEFINE q == Head(batch).id
  <2>1. q \in Waiting
    BY <1>2, WaitingExecuted DEF ExecuteGet, AccountInv, sentVars
  <2>2. response[q] = 0
    BY <2>1 DEF AccountInv, RequestsAccounted, Answered, Waiting
  <2> QED BY <1>0, <1>2, <2>2 DEF ExecuteGet
<1>3. ASSUME UNCHANGED <<signals, response, drivers>>
      PROVE  /\ \A t \in Types : signals[t] # 0 => signals'[t] = signals[t]
             /\ \A q \in Request : response[q] # 0 => response'[q] = response[q]
             /\ \A n \in 1..Len(drivers) : n \in 1..Len(drivers') /\ drivers'[n] = drivers[n]
  BY <1>3
<1>4. CASE UNCHANGED vars
  BY <1>3, <1>4 DEF vars, hubVars, answerVars
<1>5. ASSUME NEW t \in Types, SendRegister(t) PROVE UNCHANGED <<signals, response, drivers>>
  BY <1>5 DEF SendRegister, hubVars, answerVars
<1>6. ASSUME NEW h \in Hooks, Mount(h) \/ Hook(h) \/ Write(h) \/ Unmount(h)
      PROVE  UNCHANGED <<signals, response, drivers>>
  BY <1>6 DEF Mount, Hook, Fetch, Receive, Write, Unmount, hubVars, answerVars
<1>7. ASSUME \/ DropRoot \/ \E q \in Request : Age(q)
             \/ Drain \/ Evict \/ TickAll \/ Continue \/ Stop
      PROVE  UNCHANGED <<signals, response, drivers>>
  BY <1>7 DEF DropRoot, Age, Drain, Evict, TickAll, Continue, Stop, hubVars, answerVars
<1> QED BY <1>1, <1>2, <1>3, <1>4, <1>5, <1>6, <1>7 DEF Next, Loop

\* Every step keeps hooks with the signal of their type.
LEMMA HookStep ==
    TypeInv /\ OrderInv /\ AccountInv /\ SignalInv /\ HookInv /\ [Next]_vars => HookInv'
<1> SUFFICES ASSUME TypeInv, OrderInv, AccountInv, SignalInv, HookInv, [Next]_vars PROVE HookInv'
  OBVIOUS
<1>0. /\ requests \in Nat /\ batch \in Seq(Command) /\ queue \in Seq(Command)
      /\ pending \in [Types -> SUBSET Request] /\ asked \in [Hooks -> Request \cup {0}]
      /\ writer \in [Hooks -> Instance \cup {0}] /\ queued \in [Instance -> BOOLEAN]
      /\ signals \in [Types -> Instance \cup {0}] /\ response \in [Request -> Instance \cup {0}]
      /\ TypeOf \in [Hooks -> Types]
  BY DEF TypeInv, TypeOK
<1>s. /\ \A t \in Types : signals[t] # 0 => signals'[t] = signals[t]
      /\ \A q \in Request : response[q] # 0 => response'[q] = response[q]
      /\ \A n \in 1..Len(drivers) : n \in 1..Len(drivers') /\ drivers'[n] = drivers[n]
  BY Stays
<1>w. ASSUME UNCHANGED writer
      PROVE  \A h \in Hooks : writer'[h] # 0 => writer'[h] = signals'[TypeOf[h]]
  BY <1>0, <1>s, <1>w DEF HookInv
<1>q. ASSUME UNCHANGED queued
      PROVE  \A i \in Instance : queued'[i] => \E n \in 1..Len(drivers') : drivers'[n] = i
  BY <1>q, <1>s DEF HookInv
<1>c. ASSUME UNCHANGED <<batch, queue, asked, requests, response, signals, drivers>>,
             \A t \in Types : pending'[t] \subseteq pending[t],
             \A h \in Hooks : writer'[h] # 0 => writer'[h] = signals'[TypeOf[h]],
             \A i \in Instance : queued'[i] => \E n \in 1..Len(drivers') : drivers'[n] = i
      PROVE  HookInv'
  BY <1>c, PlacesStay DEF HookInv
<1>1. ASSUME NEW t \in Types, SendRegister(t) PROVE HookInv'
  <2> DEFINE c == Register(t, registers + 1)
  <2>1. c \in Command /\ c.cmd = "register"
    BY <1>0, <1>1 DEF SendRegister, Command, Instance, Register, TypeInv, TypeOK
  <2>2. /\ queue' = Append(queue, c)
        /\ UNCHANGED <<batch, requests, asked, pending, response, signals, writer, queued>>
    BY <1>1 DEF SendRegister, hubVars, answerVars, hookVars
  <2> HIDE DEF c
  <2>3. /\ Len(Commands') = Len(Commands) + 1 /\ Len(Commands) \in Nat
        /\ Commands'[Len(Commands) + 1] = c
        /\ \A j \in 1..Len(Commands) : Commands'[j] = Commands[j]
    BY <2>1, <2>2, SentCommand
  <2>4. \A k \in 1..Len(Commands') : Commands'[k].cmd = "get"
          => k \in 1..Len(Commands) /\ Commands'[k] = Commands[k]
    BY <2>1, <2>3
  <2> QED BY <1>w, <1>q, <2>2, <2>4 DEF HookInv
<1>2. CASE DropRoot
  BY <1>2, <1>c, <1>w, <1>q DEF DropRoot, sentVars, hubVars, answerVars, hookVars
<1>3. ASSUME NEW h \in Hooks, Mount(h) PROVE HookInv'
  BY <1>3, <1>c, <1>w, <1>q DEF Mount, sentVars, hubVars, answerVars
<1>4. ASSUME NEW h \in Hooks, Fetch(h) PROVE HookInv'
  <2> DEFINE c == GetSignal(TypeOf[h], requests + 1)
  <2>1. requests + 1 \in Request /\ requests' = requests + 1 /\ requests + 1 # 0
    BY <1>0, <1>4 DEF Fetch, Request
  <2>2. c \in Command /\ c.cmd = "get" /\ c.id = requests + 1 /\ c.type = TypeOf[h]
    BY <1>0, <2>1 DEF Command, GetSignal
  <2>3. /\ queue' = Append(queue, c) /\ asked' = [asked EXCEPT ![h] = requests + 1]
        /\ UNCHANGED <<batch, pending, response, signals, writer, queued, dropped>>
    BY <1>4 DEF Fetch, hubVars, answerVars
  <2> HIDE DEF c
  <2>4. /\ Len(Commands') = Len(Commands) + 1 /\ Len(Commands) \in Nat
        /\ Commands'[Len(Commands) + 1] = c
        /\ \A j \in 1..Len(Commands) : Commands'[j] = Commands[j]
    BY <2>2, <2>3, SentCommand
  <2>5. \A g \in Hooks : /\ asked'[g] = IF g = h THEN requests + 1 ELSE asked[g]
                         /\ asked[g] <= requests /\ asked[g] \in Nat /\ asked[g] # requests + 1
    <3>1. \A g \in Hooks : asked'[g] = IF g = h THEN requests + 1 ELSE asked[g]
      BY <1>0, <2>3
    <3>2. \A g \in Hooks : asked[g] <= requests /\ asked[g] \in Nat
      BY <1>0 DEF HookInv, Request
    <3>3. \A n \in Nat : n <= requests => n # requests + 1
      BY <1>0
    <3> QED BY <3>1, <3>2, <3>3
  <2>6. \A g \in Hooks : asked'[g] <= requests'
    <3>1. requests + 1 <= requests' /\ \A n \in Nat : n <= requests => n <= requests'
      BY <1>0, <2>1
    <3> QED BY <2>5, <3>1
  <2>7. \A f, g \in Hooks : asked'[f] = asked'[g] /\ asked'[f] # 0 => f = g
    BY <2>5 DEF HookInv
  <2>8. ASSUME NEW g \in Hooks, NEW k \in 1..Len(Commands'), Commands'[k].cmd = "get",
               Commands'[k].id = asked'[g]
        PROVE  Commands'[k].type = TypeOf[g]
    <3>1. CASE k \in 1..Len(Commands)
      <4>1. Commands'[k] = Commands[k]
        BY <2>4, <3>1
      <4>2. Commands[k].id <= requests /\ Commands[k].id \in Nat
        BY <2>8, <3>1, <4>1, CommandTypesAll, CommandParts DEF OrderInv, Request
      <4>3. g # h
        <5>1. Commands[k].id # requests + 1
          BY <1>0, <4>2
        <5> QED BY <2>5, <2>8, <4>1, <5>1
      <4>4. Commands[k].cmd = "get" /\ Commands[k].id = asked[g]
        BY <2>5, <2>8, <4>1, <4>3
      <4> QED BY <3>1, <4>1, <4>4 DEF HookInv
    <3>2. CASE k = Len(Commands) + 1
      <4>1. Commands'[k] = c /\ asked'[g] = requests + 1
        BY <2>2, <2>4, <2>8, <3>2
      <4>2. g = h
        BY <2>5, <4>1
      <4> QED BY <2>2, <4>1, <4>2
    <3> QED BY <2>4, <3>1, <3>2
  <2>9. requests + 1 \notin Parked /\ requests + 1 \notin Answered
    <3>1. requests + 1 \notin 1..requests
      BY <1>0
    <3> QED BY <3>1 DEF AccountInv, RequestsAccounted
  <2>10. \A g \in Hooks, t \in Types : asked'[g] \in pending'[t] => t = TypeOf[g]
    BY <2>3, <2>5, <2>9 DEF HookInv, Parked
  <2>11. \A g \in Hooks : asked'[g] # 0 /\ response'[asked'[g]] # 0
                              => response'[asked'[g]] = signals'[TypeOf[g]]
    BY <2>1, <2>3, <2>5, <2>9 DEF HookInv, Answered
  <2> QED BY <1>w, <1>q, <2>3, <2>6, <2>7, <2>8, <2>10, <2>11 DEF HookInv
<1>5. ASSUME NEW h \in Hooks, Receive(h) PROVE HookInv'
  <2>1. UNCHANGED <<batch, queue, asked, requests, response, signals, drivers, pending, queued>>
    BY <1>5 DEF Receive, sentVars, hubVars, answerVars
  <2>2. \A g \in Hooks : writer'[g] # 0 => writer'[g] = signals'[TypeOf[g]]
    <3>1. CASE UNCHANGED writer
      BY <1>w, <3>1
    <3>2. CASE response[asked[h]] # 0 /\ writer' = [writer EXCEPT ![h] = response[asked[h]]]
      <4>1. asked[h] # 0
        BY <1>5 DEF Receive, TypeInv
      <4>2. response[asked[h]] = signals[TypeOf[h]]
        BY <3>2, <4>1 DEF HookInv
      <4> QED BY <1>0, <2>1, <3>2, <4>2 DEF HookInv
    <3> QED BY <1>5, <3>1, <3>2 DEF Receive
  <2> QED BY <1>c, <1>q, <2>1, <2>2
<1>6. ASSUME NEW h \in Hooks, Write(h) PROVE HookInv'
  <2>1. /\ UNCHANGED <<batch, queue, asked, requests, response, signals, drivers, pending, writer>>
        /\ writer[h] # 0 /\ queued' = [queued EXCEPT ![writer[h]] = TRUE]
    BY <1>6 DEF Write, sentVars, hubVars, answerVars, hookVars
  <2>2. \E n \in 1..Len(drivers) : drivers[n] = writer[h]
    BY <1>0, <2>1 DEF HookInv, SignalInv
  <2>3. \A i \in Instance : queued'[i] => \E n \in 1..Len(drivers') : drivers'[n] = i
    BY <1>0, <2>1, <2>2 DEF HookInv
  <2> QED BY <1>c, <1>w, <2>1, <2>3
<1>7. ASSUME NEW h \in Hooks, Unmount(h) PROVE HookInv'
  <2>1. /\ UNCHANGED <<batch, queue, requests, response, signals, drivers, pending, queued>>
        /\ asked' = [asked EXCEPT ![h] = 0] /\ writer' = [writer EXCEPT ![h] = 0]
    BY <1>7 DEF Unmount, sentVars, hubVars, answerVars
  <2>2. \A g \in Hooks : /\ asked'[g] = IF g = h THEN 0 ELSE asked[g]
                         /\ writer'[g] = IF g = h THEN 0 ELSE writer[g]
    <3>1. \A g \in Hooks : asked'[g] = IF g = h THEN 0 ELSE asked[g]
      BY <1>0, <2>1
    <3>2. \A g \in Hooks : writer'[g] = IF g = h THEN 0 ELSE writer[g]
      BY <1>0, <2>1
    <3> QED BY <3>1, <3>2
  <2>3. \A k \in 1..Len(Commands) : Commands[k].cmd = "get" => Commands[k].id # 0
    BY CommandTypesAll, CommandParts DEF Request
  <2>4. \A t \in Types : 0 \notin pending[t]
    BY <1>0 DEF Request
  <2>5. Commands' = Commands
    BY <2>1, PlacesStay
  <2>6. \A g \in Hooks : asked'[g] <= requests'
    BY <1>0, <2>1, <2>2 DEF HookInv
  <2> QED BY <1>q, <2>1, <2>2, <2>3, <2>4, <2>5, <2>6 DEF HookInv
<1>8. CASE \E q \in Request : Age(q)
  BY <1>8, <1>c, <1>w, <1>q DEF Age, sentVars, answerVars, hookVars
<1>9. CASE Drain
  <2>1. Commands' = Commands
    BY <1>0, <1>9 DEF Drain, OrderInv, Commands
  <2> QED BY <1>9, <1>w, <1>q, <2>1 DEF Drain, HookInv, answerVars, hookVars
<1>10. CASE ExecuteRegister
  <2> DEFINE t == Head(batch).type
             i == Head(batch).id
  <2>0. /\ batch # <<>> /\ batch' = Tail(batch) /\ queue' = queue
        /\ UNCHANGED <<requests, asked, writer, queued>>
    BY <1>10 DEF ExecuteRegister, sentVars, hookVars
  <2>1. t \in Types /\ i \in Instance
    <3>1. Head(batch) \in Command /\ Head(batch).cmd = "register"
      BY <1>0, <1>10 DEF ExecuteRegister
    <3> QED BY <3>1, CommandParts
  <2>2. \A k \in 1..Len(Commands') : k + 1 \in 1..Len(Commands) /\ Commands'[k] = Commands[k + 1]
    BY <2>0, WaitingExecuted DEF AccountInv
  <2>3. \A u \in Types : pending'[u] \subseteq pending[u]
    BY <1>0, <1>10, <2>1 DEF ExecuteRegister
  <2>4. ASSUME NEW h \in Hooks, asked[h] # 0, response'[asked[h]] # 0
        PROVE  response'[asked[h]] = signals'[TypeOf[h]]
    <3>1. CASE response[asked[h]] # 0
      <4>1. response[asked[h]] = signals[TypeOf[h]] /\ asked[h] \in Request
        BY <1>0, <2>4, <3>1 DEF HookInv
      <4> QED BY <1>0, <1>s, <3>1, <4>1
    <3>2. CASE response[asked[h]] = 0
      <4>0. Unregistered(t)
        BY <1>10, <2>4, <3>2 DEF ExecuteRegister
      <4>1. /\ signals' = [signals EXCEPT ![t] = i]
            /\ response' = [q \in Request |-> IF q \in pending[t] THEN i ELSE response[q]]
        BY <1>10, <4>0 DEF ExecuteRegister
      <4>2. asked[h] \in pending[t] /\ response'[asked[h]] = i
        BY <1>0, <2>4, <3>2, <4>1
      <4>3. t = TypeOf[h]
        BY <2>1, <4>2 DEF HookInv
      <4> QED BY <1>0, <2>1, <4>1, <4>2, <4>3
    <3> QED BY <3>1, <3>2
  <2> QED BY <1>w, <1>q, <2>0, <2>2, <2>3, <2>4 DEF HookInv
<1>11. CASE ExecuteGet
  <2> DEFINE t == Head(batch).type
             p == Head(batch).id
  <2>0. /\ batch # <<>> /\ batch' = Tail(batch) /\ queue' = queue /\ Head(batch).cmd = "get"
        /\ UNCHANGED <<requests, asked, writer, queued, signals>>
    BY <1>11 DEF ExecuteGet, sentVars, hookVars
  <2>1. t \in Types /\ p \in Request
    <3>1. Head(batch) \in Command
      BY <1>0, <2>0
    <3> QED BY <2>0, <3>1, CommandParts
  <2>2. \A k \in 1..Len(Commands') : k + 1 \in 1..Len(Commands) /\ Commands'[k] = Commands[k + 1]
    BY <2>0, WaitingExecuted DEF AccountInv
  <2>3. \A h \in Hooks : asked[h] = p => TypeOf[h] = t
    <3>1. 1 \in 1..Len(Commands) /\ Commands[1] = Head(batch)
      BY <2>0, WaitingExecuted DEF AccountInv
    <3> QED BY <2>0, <3>1 DEF HookInv
  <2>4. \A u \in Types : pending'[u] \subseteq IF u = t THEN pending[u] \cup {p} ELSE pending[u]
    BY <1>0, <1>11, <2>1 DEF ExecuteGet
  <2>5. \A q \in Request : response'[q] = response[q] \/ (q = p /\ response'[q] = signals[t])
    BY <1>0, <1>11, <2>1 DEF ExecuteGet
  <2>6. \A h \in Hooks, u \in Types : asked'[h] \in pending'[u] => u = TypeOf[h]
    BY <2>0, <2>3, <2>4 DEF HookInv
  <2>7. \A h \in Hooks : asked'[h] # 0 /\ response'[asked'[h]] # 0
                            => response'[asked'[h]] = signals'[TypeOf[h]]
    BY <1>0, <2>0, <2>3, <2>5 DEF HookInv
  <2> QED BY <1>w, <1>q, <2>0, <2>2, <2>6, <2>7 DEF HookInv
<1>12. CASE Evict
  BY <1>12, <1>c, <1>w, <1>q DEF Evict, sentVars, hookVars
<1>13. CASE TickAll
  <2>1. \A i \in Instance : queued'[i] => queued[i]
    BY <1>13 DEF TickAll
  <2>2. \A i \in Instance : queued'[i] => \E n \in 1..Len(drivers') : drivers'[n] = i
    BY <1>13, <2>1 DEF TickAll, HookInv
  <2> QED BY <1>13, <1>c, <1>w, <2>2 DEF TickAll, sentVars, answerVars, hookVars
<1>14. CASE Continue
  BY <1>14, <1>c, <1>w, <1>q DEF Continue, sentVars, answerVars, hookVars
<1>15. CASE Stop
  <2>1. Commands' = <<>> \o <<>> /\ Len(Commands') = 0
    BY <1>15 DEF Stop, OrderInv, Commands
  <2>2. 1..Len(Commands') = {}
    BY <2>1
  <2>3. \A t \in Types : pending'[t] = {}
    BY <1>15 DEF Stop
  <2> QED BY <1>15, <1>w, <1>q, <2>2, <2>3 DEF Stop, HookInv, hookVars
<1>16. CASE UNCHANGED vars
  BY <1>16, <1>c, <1>w, <1>q DEF vars, sentVars, hubVars, answerVars, hookVars
<1> QED
  BY <1>1, <1>2, <1>3, <1>4, <1>5, <1>6, <1>7, <1>8, <1>9, <1>10, <1>11, <1>12, <1>13,
     <1>14, <1>15, <1>16 DEF Next, Hook, Loop

\* The places, the signals and the hooks together.
PlaceInv == TypeInv /\ OrderInv /\ AccountInv /\ SignalInv /\ HookInv

\* All of this holds always.
LEMMA PlacesHold == Spec => []PlaceInv
BY TypeInit, TypeStep, OrderInit, OrderStep, AccountInit, AccountStep, SignalStep, HookInit,
   HookStep, PTL DEF Spec, PlaceInv

\* A request that was sent is neither lost nor answered twice: it is in the channel
\* or the batch, parked, answered, or dropped under its future, and never in two of
\* these places, however commands, time and the end of the hub interleave.
THEOREM RequestsAreAccounted == Spec => []RequestsAccounted
<1>1. PlaceInv => RequestsAccounted
  BY DEF PlaceInv, AccountInv
<1> QED BY <1>1, PlacesHold, PTL

\* Where the request is that a hook in Fetching awaits: the hub parks it only while
\* its type has no signal, and answers it with the signal of that type.
AwaitedIsKept ==
    \A h \in Hooks : value[h] = "Fetching" =>
       \/ asked[h] \in Waiting
       \/ asked[h] \in pending[TypeOf[h]] /\ signals[TypeOf[h]] = 0
       \/ response[asked[h]] # 0 /\ response[asked[h]] = signals[TypeOf[h]]
       \/ asked[h] \in dropped

\* What FetchingEnds rests on: a hook never waits for a request that no step of the
\* hub will answer or drop.
THEOREM AwaitedRequestsAreKept == Spec => []AwaitedIsKept
<1>1. PlaceInv => AwaitedIsKept
  <2> SUFFICES ASSUME PlaceInv, NEW h \in Hooks, value[h] = "Fetching"
               PROVE  \/ asked[h] \in Waiting
                      \/ asked[h] \in pending[TypeOf[h]] /\ signals[TypeOf[h]] = 0
                      \/ response[asked[h]] # 0 /\ response[asked[h]] = signals[TypeOf[h]]
                      \/ asked[h] \in dropped
    BY DEF AwaitedIsKept
  <2>1. asked[h] # 0 /\ asked[h] \in Request /\ asked[h] <= requests /\ requests \in Nat
    BY DEF PlaceInv, TypeInv, TypeOK, HookInv
  <2>2. asked[h] \in 1..requests
    BY <2>1 DEF Request
  <2>3. asked[h] \in Waiting \cup Parked \cup Answered \cup dropped
    BY <2>2 DEF PlaceInv, AccountInv, RequestsAccounted
  <2>4. CASE asked[h] \in Parked
    <3>1. PICK t \in Types : asked[h] \in pending[t]
      BY <2>4 DEF Parked
    <3>2. t = TypeOf[h] /\ signals[t] = 0
      BY <3>1 DEF PlaceInv, HookInv, AccountInv
    <3> QED BY <3>1, <3>2
  <2>5. CASE asked[h] \in Answered
    BY <2>1, <2>5 DEF PlaceInv, HookInv, Answered
  <2> QED BY <2>3, <2>4, <2>5
<1> QED BY <1>1, PlacesHold, PTL

\* A hook writes to the signal that is registered for the type it asked for, and no
\* other type has that signal, also when a type is registered more than once.
WritersAreTyped ==
    \A h \in Hooks : writer[h] # 0 =>
       /\ writer[h] = signals[TypeOf[h]]
       /\ \A t \in Types : signals[t] = writer[h] => t = TypeOf[h]

\* The hub confuses no types.
THEOREM WritersAreOfTheType == Spec => []WritersAreTyped
<1>1. PlaceInv => WritersAreTyped
  BY DEF PlaceInv, HookInv, SignalInv, WritersAreTyped, HubAssumption
<1> QED BY <1>1, PlacesHold, PTL

\* What WritesDrained rests on: every signal that a hook has written to is among
\* those that the next tick drains.
WritesAreTicked == \A i \in Instance : queued[i] => Contains(drivers, i)

\* No write is queued where no tick comes.
THEOREM WritesAreDriven == Spec => []WritesAreTicked
<1>1. PlaceInv => WritesAreTicked
  BY DEF PlaceInv, HookInv, WritesAreTicked, Contains
<1> QED BY <1>1, PlacesHold, PTL

\* An answer is final, and so is the signal of a type: a request that was answered
\* is not answered again, by a later registration or otherwise, nor dropped.
AnswersStay ==
    [][/\ \A q \in Request : response[q] # 0 => response'[q] = response[q] /\ q \notin dropped'
       /\ \A t \in Types : signals[t] # 0 => signals'[t] = signals[t]]_vars

\* No registration takes a signal away from those who have it.
THEOREM AnswersAreFinal == Spec => AnswersStay
<1>1. PlaceInv /\ PlaceInv' /\ [Next]_vars
        => [/\ \A q \in Request : response[q] # 0 => response'[q] = response[q] /\ q \notin dropped'
            /\ \A t \in Types : signals[t] # 0 => signals'[t] = signals[t]]_vars
  <2> SUFFICES ASSUME PlaceInv, PlaceInv', [Next]_vars
      PROVE  /\ \A q \in Request : response[q] # 0 => response'[q] = response[q] /\ q \notin dropped'
             /\ \A t \in Types : signals[t] # 0 => signals'[t] = signals[t]
    OBVIOUS
  <2>1. /\ \A t \in Types : signals[t] # 0 => signals'[t] = signals[t]
        /\ \A q \in Request : response[q] # 0 => response'[q] = response[q]
    BY Stays DEF PlaceInv
  <2>2. \A q \in Request : response'[q] # 0 => q \notin dropped'
    BY DEF PlaceInv, AccountInv, RequestsAccounted, Answered
  <2> QED BY <2>1, <2>2
<1> QED BY <1>1, PlacesHold, PTL DEF Spec, AnswersStay
=============================================================================
