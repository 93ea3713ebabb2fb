------------------------ MODULE CoreClients_proofs --------------------------
(***************************************************************************)
(* The two users of the core's command channel: the tasks of the           *)
(* connectors, and the LinkSets that a program holds.                      *)
(***************************************************************************)
EXTENDS LinkSetHandle, ConnectorManager, SequenceTheorems, TLAPS

-----------------------------------------------------------------------------
(***************************************************************************)
(* One task per address, and no try_addr lost or used twice, for every set *)
(* of addresses and schemes, every capacity and every RETRIES_MAX.         *)
(*                                                                         *)
(* A permit is in one of three places: the semaphore, the one task of its  *)
(* address, or an attempt that is over.  Every step moves it from one to   *)
(* the next or, when a task is aborted, back.  That needs the one task to  *)
(* be known (two tasks could hold two permits), and that a task at the top *)
(* of its loop or asleep holds none.                                       *)
(***************************************************************************)

Types ==
  /\ active \in BOOLEAN
  /\ conns \in [Schemes -> 0..MaxConns]
  /\ addrs \subseteq Address
  /\ permits \in [Address -> Nat]
  /\ repeat \in [Address -> BOOLEAN]
  /\ tasks \subseteq Task
  /\ arriving \in Nat
  /\ tried \in [Address -> Nat]
  /\ spent \in [Address -> Nat]
  /\ \A t \in tasks : t.phase \in {"start", "sleeping"} => ~t.permit

Wanted(a) == active /\ a \in addrs /\ conns[SchemeOf(a)] # 0

TaskOf(a) ==
  IF Wanted(a) THEN \E t \in Task : TasksOf(a) = {t} /\ t.conn = conns[SchemeOf(a)]
  ELSE TasksOf(a) = {}

Accounted(a) ==
  LET known == permits[a] + Held(a) + spent[a]
  IN  /\ known <= tried[a]
      /\ tried[a] <= RetriesMax => known = tried[a]
      /\ permits[a] + Held(a) <= RetriesMax + 1

ManagerInv == Types /\ \A a \in Address : TaskOf(a) /\ Accounted(a)

-----------------------------------------------------------------------------
(* Permits held by no task and by one. *)
Holding(ts) == Cardinality({t \in ts : t.permit})

(* What Cardinality computes of a set with no element and with one. *)
LEMMA CountNone == Cardinality({}) = 0
<1> DEFINE fn(CS, T) == IF T = {} THEN 0 ELSE 1 + CS[T \ {CHOOSE x : x \in T}]
           CS == CHOOSE f : f = [T \in SUBSET {} |-> fn(f, T)]
           g == [T \in SUBSET {} |-> 0]
<1>1. Cardinality({}) = CS[{}]
  BY DEF Cardinality
<1>2. g = [T \in SUBSET {} |-> fn(g, T)]
  OBVIOUS
<1> HIDE DEF g
<1>3. CS = [T \in SUBSET {} |-> fn(CS, T)]
  BY <1>2, Zenon
<1> HIDE DEF CS
<1>4. CS[{}] = 0
  BY <1>3
<1> QED BY <1>1, <1>4

LEMMA CountOne == ASSUME NEW t PROVE Cardinality({t}) = 1
<1> DEFINE fn(CS, T) == IF T = {} THEN 0 ELSE 1 + CS[T \ {CHOOSE x : x \in T}]
           CS == CHOOSE f : f = [T \in SUBSET {t} |-> fn(f, T)]
           g == [T \in SUBSET {t} |-> IF T = {} THEN 0 ELSE 1]
<1>1. Cardinality({t}) = CS[{t}]
  BY DEF Cardinality
<1>2. {t} \ {CHOOSE x : x \in {t}} = {} /\ \A T \in SUBSET {t} : T = {} \/ T = {t}
  OBVIOUS
<1>3. g = [T \in SUBSET {t} |-> fn(g, T)]
  <2>1. g[{}] = 0
    OBVIOUS
  <2>2. ASSUME NEW T \in SUBSET {t} PROVE (IF T = {} THEN 0 ELSE 1) = fn(g, T)
    <3> HIDE DEF g
    <3>1. CASE T = {}
      BY <3>1
    <3>2. CASE T = {t}
      <4>1. fn(g, T) = 1 + g[{}]
        BY <1>2, <3>2
      <4> QED BY <2>1, <3>2, <4>1
    <3> QED BY <1>2, <3>1, <3>2
  <2> HIDE DEF fn
  <2> QED BY <2>2
<1> HIDE DEF g
<1>4. CS = [T \in SUBSET {t} |-> fn(CS, T)]
  BY <1>3, Zenon
<1> HIDE DEF CS
<1>5. CS[{}] = 0
  BY <1>4
<1>6. CS[{t}] = 1 + CS[{}]
  BY <1>2, <1>4
<1> QED BY <1>1, <1>5, <1>6

LEMMA NoneHold == ASSUME NEW ts, \A t \in ts : ~t.permit PROVE Holding(ts) = 0
<1>1. {t \in ts : t.permit} = {}
  OBVIOUS
<1> QED BY <1>1, CountNone DEF Holding

LEMMA OneHolds ==
  ASSUME NEW t, t.permit \in BOOLEAN
  PROVE  Holding({t}) = IF t.permit THEN 1 ELSE 0
<1>1. CASE t.permit
  <2>1. {x \in {t} : x.permit} = {t}
    BY <1>1
  <2> QED BY <1>1, <2>1, CountOne DEF Holding
<1>2. CASE ~t.permit
  BY <1>2, NoneHold
<1> QED BY <1>1, <1>2

LEMMA HeldIs == ASSUME NEW a PROVE Held(a) = Holding(TasksOf(a))
  BY DEF Held, Holding

LEMMA HeldType ==
  ASSUME ManagerInv, NEW a \in Address
  PROVE  Held(a) \in {0, 1}
<1>1. CASE Wanted(a)
  <2>1. PICK t \in Task : TasksOf(a) = {t}
    BY <1>1 DEF ManagerInv, TaskOf
  <2>2. t.permit \in BOOLEAN
    BY DEF Task
  <2> QED BY <2>1, <2>2, OneHolds, HeldIs
<1>2. CASE ~Wanted(a)
  BY <1>2, NoneHold, HeldIs DEF ManagerInv, TaskOf
<1> QED BY <1>1, <1>2

(* What an address gets back when tasks are aborted: all that its tasks    *)
(* hold if they are among them, nothing if none is.                        *)
LEMMA ReturnedAll ==
  ASSUME ManagerInv, NEW gone \in SUBSET tasks, NEW a \in Address, TasksOf(a) \subseteq gone
  PROVE  Returned(gone)[a] = permits[a] + Held(a)
<1>1. {t \in gone : t.addr = a /\ t.permit} = {t \in TasksOf(a) : t.permit}
  BY DEF TasksOf
<1> QED BY <1>1, Zenon DEF Returned, Held

LEMMA ReturnedNone ==
  ASSUME ManagerInv, NEW gone \in SUBSET tasks, NEW a \in Address, TasksOf(a) \cap gone = {}
  PROVE  Returned(gone)[a] = permits[a]
<1>1. {t \in gone : t.addr = a /\ t.permit} = {}
  BY DEF TasksOf
<1>2. permits[a] \in Nat
  BY DEF ManagerInv, Types
<1>3. Cardinality({t \in gone : t.addr = a /\ t.permit}) = 0
  BY <1>1, CountNone, Zenon
<1>4. Returned(gone)[a] = permits[a] + 0
  BY <1>3 DEF Returned
<1> QED BY <1>2, <1>4

(* An address whose task is new, or has none. *)
LEMMA TasksForOf ==
  ASSUME NEW as \in SUBSET Address, NEW cs \in [Schemes -> 0..MaxConns], NEW a \in Address
  PROVE  /\ TasksFor(as, cs) \subseteq Task
         /\ \A t \in TasksFor(as, cs) : t.phase = "start" /\ ~t.permit
         /\ {t \in TasksFor(as, cs) : t.addr = a} =
              IF a \in as /\ cs[SchemeOf(a)] # 0 THEN {CreateTask(a, cs[SchemeOf(a)])} ELSE {}
<1>1. \A x \in Address : SchemeOf(x) \in Schemes
  BY DEF Address, SchemeOf
<1>2. \A x \in Address, c \in 1..MaxConns :
        /\ CreateTask(x, c) \in Task
        /\ CreateTask(x, c).addr = x /\ CreateTask(x, c).conn = c
        /\ CreateTask(x, c).phase = "start" /\ ~CreateTask(x, c).permit
  BY DEF CreateTask, Task, Phases
<1>3. \A x \in as : cs[SchemeOf(x)] # 0 => cs[SchemeOf(x)] \in 1..MaxConns
  <2>1. MaxConns \in Nat
    BY ManagerAssumption
  <2>2. \A x \in as : cs[SchemeOf(x)] \in 0..MaxConns
    BY <1>1, Zenon
  <2>3. \A n \in 0..MaxConns : n # 0 => n \in 1..MaxConns
    BY <2>1
  <2> QED BY <2>2, <2>3, Zenon
<1> DEFINE xs == {x \in as : cs[SchemeOf(x)] # 0}
<1> DEFINE T(x) == CreateTask(x, cs[SchemeOf(x)])
<1>4. \A t : t \in TasksFor(as, cs) <=> \E x \in xs : t = T(x)
  BY DEF TasksFor
<1>5. ASSUME NEW x \in xs
      PROVE  T(x) \in Task /\ T(x).addr = x /\ T(x).phase = "start" /\ ~T(x).permit
  <2>1. x \in Address /\ cs[SchemeOf(x)] \in 1..MaxConns
    BY <1>3, Zenon
  <2> QED BY <1>2, <2>1
<1>6. a \in xs <=> a \in as /\ cs[SchemeOf(a)] # 0
  OBVIOUS
<1>7. T(a) = CreateTask(a, cs[SchemeOf(a)])
  OBVIOUS
<1> HIDE DEF xs, T
<1>8. TasksFor(as, cs) \subseteq Task
  BY <1>4, <1>5, Zenon
<1>9. ASSUME NEW t \in TasksFor(as, cs)
      PROVE  t.phase = "start" /\ ~t.permit /\ t.addr \in xs /\ t = T(t.addr)
  <2>1. PICK x \in xs : t = T(x)
    BY <1>4, Zenon
  <2>2. T(x).addr = x /\ T(x).phase = "start" /\ ~T(x).permit
    BY <1>5
  <2> QED BY <2>1, <2>2
<1>10. CASE a \in xs
  <2>1. {t \in TasksFor(as, cs) : t.addr = a} = {T(a)}
    BY <1>4, <1>5, <1>9, <1>10, Zenon
  <2> QED BY <1>6, <1>7, <1>8, <1>9, <1>10, <2>1, Zenon
<1>11. CASE a \notin xs
  <2>1. {t \in TasksFor(as, cs) : t.addr = a} = {}
    BY <1>9, <1>11, Zenon
  <2> QED BY <1>6, <1>8, <1>9, <1>11, <2>1, Zenon
<1> QED BY <1>10, <1>11, Zenon

(* Permits of a change places, or become fewer where a task or the semaphore has them. *)
Moved(a) ==
  /\ permits'[a] \in Nat /\ Held(a)' \in Nat /\ spent'[a] \in Nat /\ tried'[a] = tried[a]
  /\ permits'[a] + Held(a)' + spent'[a] = permits[a] + Held(a) + spent[a]
  /\ permits'[a] + Held(a)' <= permits[a] + Held(a)

(* Permits that only change places stay accounted for. *)
LEMMA MovedPermit == ASSUME ManagerInv, NEW a \in Address, Moved(a) PROVE Accounted(a)'
<1>1. permits[a] \in Nat /\ spent[a] \in Nat /\ tried[a] \in Nat /\ Held(a) \in Nat /\ RetriesMax \in Nat
  BY HeldType, ManagerAssumption DEF ManagerInv, Types
<1>2. Accounted(a)
  BY DEF ManagerInv
<1> QED BY <1>1, <1>2 DEF Accounted, Moved

LEMMA FreshHoldsNone ==
  ASSUME NEW a, \A t \in TasksOf(a)' : ~t.permit
  PROVE  Held(a)' = 0
<1>1. Held(a)' = Holding(TasksOf(a)')
  BY DEF Held, Holding
<1> QED BY <1>1, NoneHold

LEMMA SameTasksHold == ASSUME NEW a, TasksOf(a)' = TasksOf(a) PROVE Held(a)' = Held(a)
  BY DEF Held

LEMMA IdleHasNone ==
  ASSUME ManagerInv, NEW a \in Address, ~Wanted(a)
  PROVE  TasksOf(a) = {} /\ Held(a) = 0
<1>1. TasksOf(a) = {}
  BY DEF ManagerInv, TaskOf
<1> QED BY <1>1, NoneHold, HeldIs

LEMMA SchemesOf == ASSUME NEW a \in Address PROVE SchemeOf(a) \in Schemes
  BY DEF Address, SchemeOf

(* An address that a step leaves with a new task, or with none. *)
LEMMA TaskMade ==
  ASSUME Types', NEW a \in Address,
         TasksOf(a)' = IF Wanted(a)' THEN {CreateTask(a, conns'[SchemeOf(a)])} ELSE {}
  PROVE  TaskOf(a)' /\ Held(a)' = 0
<1>1. CASE Wanted(a)'
  <2>1. conns'[SchemeOf(a)] # 0
    BY <1>1 DEF Wanted
  <2>2. conns'[SchemeOf(a)] \in 0..MaxConns /\ MaxConns \in Nat
    BY SchemesOf, ManagerAssumption DEF Types
  <2>3. conns'[SchemeOf(a)] \in 1..MaxConns
    BY <2>1, <2>2
  <2> DEFINE t == CreateTask(a, conns'[SchemeOf(a)])
  <2>4. t \in Task /\ t.conn = conns'[SchemeOf(a)] /\ ~t.permit
    BY <2>3 DEF CreateTask, Task, Phases
  <2>5. TasksOf(a)' = {t}
    BY <1>1
  <2> HIDE DEF t
  <2>6. TaskOf(a)'
    BY <1>1, <2>4, <2>5 DEF TaskOf
  <2> QED BY <2>4, <2>5, <2>6, FreshHoldsNone
<1>2. CASE ~Wanted(a)'
  BY <1>2, FreshHoldsNone DEF TaskOf
<1> QED BY <1>1, <1>2

-----------------------------------------------------------------------------
(* The steps of the core. *)

LEMMA StartKeeps == ASSUME ManagerInv, Start PROVE ManagerInv'
<1> USE DEF Start
<1>1. Types
  BY DEF ManagerInv
<1>2. tasks' \subseteq Task /\ \A t \in tasks' : ~t.permit
  <2>1. CASE Address = {}
    BY <1>1, <2>1 DEF Types, TasksFor
  <2>2. CASE Address # {}
    BY <1>1, <2>2, TasksForOf DEF Types
  <2> QED BY <2>1, <2>2
<1>3. Types'
  BY <1>1, <1>2 DEF Types
<1>4. ASSUME NEW a \in Address PROVE TaskOf(a)' /\ Accounted(a)'
  <2>1. TasksOf(a)' = {t \in TasksFor(addrs, conns) : t.addr = a}
    BY DEF TasksOf
  <2>2. TasksOf(a)' = IF Wanted(a)' THEN {CreateTask(a, conns'[SchemeOf(a)])} ELSE {}
    BY <1>1, <2>1, TasksForOf DEF Types, Wanted
  <2>3. TaskOf(a)' /\ Held(a)' = 0
    BY <1>3, <2>2, TaskMade
  <2>4. Held(a) = 0
    BY IdleHasNone DEF Wanted
  <2>5. Accounted(a)'
    BY <1>1, <2>3, <2>4, MovedPermit DEF Types, Moved
  <2> QED BY <2>3, <2>5
<1> QED BY <1>3, <1>4 DEF ManagerInv

LEMMA ReturnedType ==
  ASSUME ManagerInv, NEW gone \in SUBSET tasks,
         \A a \in Address : TasksOf(a) \subseteq gone \/ TasksOf(a) \cap gone = {}
  PROVE  Returned(gone) \in [Address -> Nat]
<1>1. ASSUME NEW a \in Address PROVE Returned(gone)[a] \in Nat
  <2>1. permits[a] \in Nat /\ Held(a) \in Nat
    BY HeldType DEF ManagerInv, Types
  <2> QED BY <2>1, ReturnedAll, ReturnedNone
<1>2. Returned(gone) = [a \in Address |-> Returned(gone)[a]]
  BY DEF Returned
<1> QED BY <1>1, <1>2

LEMMA CancelKeeps == ASSUME ManagerInv, CancelTasks, arriving' \in Nat PROVE ManagerInv'
<1> USE DEF CancelTasks
<1>1. Types
  BY DEF ManagerInv
<1>2. \A a \in Address : TasksOf(a) \subseteq tasks
  BY DEF TasksOf
<1>3. Types'
  BY <1>1, <1>2, ReturnedType, Zenon DEF Types
<1>4. ASSUME NEW a \in Address PROVE TaskOf(a)' /\ Accounted(a)'
  <2>1. TasksOf(a)' = {} /\ ~Wanted(a)'
    BY DEF TasksOf, Wanted
  <2>2. TaskOf(a)' /\ Held(a)' = 0
    BY <2>1, FreshHoldsNone DEF TaskOf
  <2>3. permits'[a] = permits[a] + Held(a)
    BY <1>2, ReturnedAll
  <2>4. permits[a] \in Nat /\ Held(a) \in Nat /\ spent[a] \in Nat /\ spent' = spent /\ tried' = tried
    BY <1>1, HeldType DEF Types
  <2>5. Accounted(a)'
    BY <2>2, <2>3, <2>4, MovedPermit DEF Moved
  <2> QED BY <2>2, <2>5
<1> QED BY <1>3, <1>4 DEF ManagerInv

LEMMA AddConnectorKeeps == ASSUME ManagerInv, NEW s \in Schemes, AddConnector(s) PROVE ManagerInv'
<1> DEFINE gone == {t \in tasks : SchemeOf(t.addr) = s}
<1> DEFINE mine == {a \in addrs : SchemeOf(a) = s}
<1>1. /\ conns[s] < MaxConns /\ conns' = [conns EXCEPT ![s] = @ + 1]
      /\ permits' = Returned(gone)
      /\ tasks' = IF active THEN (tasks \ gone) \cup TasksFor(mine, conns') ELSE tasks
      /\ UNCHANGED <<active, addrs, repeat, arriving, tried, spent>>
  BY DEF AddConnector
<1>2. Types
  BY DEF ManagerInv
<1>3. gone \in SUBSET tasks /\ mine \in SUBSET Address
  BY <1>2 DEF Types
<1>4. conns' \in [Schemes -> 0..MaxConns] /\ conns'[s] # 0
  <2>1. conns[s] \in 0..MaxConns /\ MaxConns \in Nat
    BY <1>2, ManagerAssumption DEF Types
  <2>2. conns[s] + 1 \in 0..MaxConns /\ conns[s] + 1 # 0
    BY <1>1, <2>1
  <2> QED BY <1>1, <1>2, <2>2 DEF Types
<1>5. \A a \in Address : /\ SchemeOf(a) = s => TasksOf(a) \subseteq gone
                         /\ SchemeOf(a) # s => TasksOf(a) \cap gone = {}
  BY DEF TasksOf
<1>6. ASSUME NEW a \in Address
      PROVE  /\ TasksFor(mine, conns') \subseteq Task
             /\ \A t \in TasksFor(mine, conns') : ~t.permit
             /\ {t \in TasksFor(mine, conns') : t.addr = a} =
                  IF a \in addrs /\ SchemeOf(a) = s THEN {CreateTask(a, conns'[SchemeOf(a)])} ELSE {}
  <2>1. a \in mine <=> a \in addrs /\ SchemeOf(a) = s
    OBVIOUS
  <2> HIDE DEF mine, gone
  <2> QED BY <1>3, <1>4, <2>1, TasksForOf
<1>7. Types'
  <2>1. tasks' \subseteq Task /\ \A t \in tasks' : t.phase \in {"start", "sleeping"} => ~t.permit
    <3>1. CASE Address = {}
      BY <1>1, <1>2, <3>1 DEF Types, TasksFor
    <3>2. CASE Address # {}
      BY <1>1, <1>2, <1>6, <3>2, Zenon DEF Types
    <3> QED BY <3>1, <3>2
  <2>2. permits' \in [Address -> Nat]
    BY <1>1, <1>3, <1>5, ReturnedType
  <2> QED BY <1>1, <1>2, <1>4, <2>1, <2>2, Zenon DEF Types
<1> HIDE DEF gone, mine
<1>8. ASSUME NEW a \in Address PROVE TaskOf(a)' /\ Accounted(a)'
  <2>1. permits[a] \in Nat /\ Held(a) \in Nat /\ spent[a] \in Nat /\ spent' = spent /\ tried' = tried
    BY <1>1, <1>2, HeldType DEF Types
  <2>2. CASE ~active
    <3>1. TasksOf(a) = {} /\ Held(a) = 0
      BY <2>2, IdleHasNone DEF Wanted
    <3>2. TasksOf(a)' = {} /\ ~Wanted(a)'
      BY <1>1, <2>2, <3>1 DEF TasksOf, Wanted
    <3>3. TaskOf(a)' /\ Held(a)' = 0
      BY <3>2, FreshHoldsNone DEF TaskOf
    <3>4. permits'[a] = permits[a]
      BY <1>1, <1>3, <3>1, ReturnedNone
    <3>5. Moved(a)
      BY <2>1, <3>1, <3>3, <3>4 DEF Moved
    <3> QED BY <3>3, <3>5, MovedPermit, Zenon
  <2>3. CASE active /\ SchemeOf(a) = s
    <3>1. TasksOf(a)' = {t \in TasksFor(mine, conns') : t.addr = a}
      BY <1>1, <1>5, <2>3 DEF TasksOf
    <3>2. TasksOf(a)' = IF Wanted(a)' THEN {CreateTask(a, conns'[SchemeOf(a)])} ELSE {}
      BY <1>1, <1>4, <1>6, <2>3, <3>1, Zenon DEF Wanted
    <3>3. TaskOf(a)' /\ Held(a)' = 0
      BY <1>7, <3>2, TaskMade
    <3>4. permits'[a] = permits[a] + Held(a)
      BY <1>1, <1>3, <1>5, <2>3, ReturnedAll
    <3>5. Moved(a)
      BY <2>1, <3>3, <3>4 DEF Moved
    <3> QED BY <3>3, <3>5, MovedPermit, Zenon
  <2>4. CASE active /\ SchemeOf(a) # s
    <3>1. TasksOf(a)' = TasksOf(a)
      BY <1>1, <1>5, <1>6, <2>4, Zenon DEF TasksOf
    <3>2. conns'[SchemeOf(a)] = conns[SchemeOf(a)] /\ (Wanted(a)' <=> Wanted(a))
      BY <1>1, <1>2, <2>4, SchemesOf DEF Types, Wanted
    <3>3. TaskOf(a)' /\ Held(a)' = Held(a)
      BY <3>1, <3>2, SameTasksHold DEF ManagerInv, TaskOf
    <3>4. permits'[a] = permits[a]
      BY <1>1, <1>3, <1>5, <2>4, ReturnedNone
    <3>5. Moved(a)
      BY <2>1, <3>3, <3>4 DEF Moved
    <3> QED BY <3>3, <3>5, MovedPermit, Zenon
  <2> QED BY <2>2, <2>3, <2>4
<1> QED BY <1>7, <1>8 DEF ManagerInv

(* add_count brings the permit, unless RETRIES_MAX are available. *)
LEMMA AddCountIs ==
  ASSUME NEW available \in Nat, NEW count \in {0, 1}
  PROVE  /\ AddCount(available, count) \in Nat
         /\ AddCount(available, count) =
              IF available < RetriesMax THEN available + count ELSE available
<1>1. RetriesMax \in Nat
  BY ManagerAssumption
<1> QED BY <1>1 DEF AddCount

LEMMA AddAddressKeeps ==
  ASSUME ManagerInv, NEW a \in Address, NEW count \in {0, 1}, AddAddress(a, count)
  PROVE  ManagerInv'
<1>1. /\ addrs' = addrs \cup {a}
      /\ permits' = [permits EXCEPT ![a] = AddCount(@, count)]
      /\ repeat' = [repeat EXCEPT ![a] = @ \/ count = 0]
      /\ tasks' = IF active /\ a \notin addrs THEN tasks \cup TasksFor({a}, conns) ELSE tasks
      /\ tried' = [tried EXCEPT ![a] = @ + count]
      /\ UNCHANGED <<active, conns, arriving, spent>>
  BY DEF AddAddress, Merge
<1>2. Types
  BY DEF ManagerInv
<1>3. /\ TasksFor({a}, conns) \subseteq Task /\ \A t \in TasksFor({a}, conns) : ~t.permit
      /\ \A b \in Address : {t \in TasksFor({a}, conns) : t.addr = b} =
           IF b = a /\ conns[SchemeOf(a)] # 0 THEN {CreateTask(a, conns[SchemeOf(a)])} ELSE {}
  <2>1. {a} \in SUBSET Address /\ conns \in [Schemes -> 0..MaxConns]
    BY <1>2 DEF Types
  <2>2. ASSUME NEW b \in Address
        PROVE  {t \in TasksFor({a}, conns) : t.addr = b} =
                 IF b = a /\ conns[SchemeOf(a)] # 0 THEN {CreateTask(a, conns[SchemeOf(a)])} ELSE {}
    <3>1. b \in {a} <=> b = a
      OBVIOUS
    <3>2. {t \in TasksFor({a}, conns) : t.addr = b} =
            IF b \in {a} /\ conns[SchemeOf(b)] # 0 THEN {CreateTask(b, conns[SchemeOf(b)])} ELSE {}
      BY <2>1, TasksForOf
    <3> QED BY <3>1, <3>2
  <2> QED BY <2>1, <2>2, TasksForOf, Zenon
<1>4. Types'
  <2>1. permits' \in [Address -> Nat] /\ tried' \in [Address -> Nat]
    BY <1>1, <1>2, AddCountIs DEF Types
  <2>2. repeat' \in [Address -> BOOLEAN]
    BY <1>1, <1>2 DEF Types
  <2> QED BY <1>1, <1>2, <1>3, <2>1, <2>2, Zenon DEF Types
<1>5. ASSUME NEW b \in Address PROVE TaskOf(b)' /\ Held(b)' = Held(b)
  <2>1. CASE active /\ a \notin addrs /\ b = a
    <3>1. TasksOf(b) = {} /\ Held(b) = 0
      BY <2>1, IdleHasNone DEF Wanted
    <3>2. TasksOf(b)' = IF Wanted(b)' THEN {CreateTask(b, conns'[SchemeOf(b)])} ELSE {}
      BY <1>1, <1>3, <2>1, <3>1, Zenon DEF TasksOf, Wanted
    <3> QED BY <1>4, <3>1, <3>2, TaskMade
  <2>2. CASE ~(active /\ a \notin addrs /\ b = a)
    <3>1. TasksOf(b)' = TasksOf(b)
      BY <1>1, <1>3, <2>2, Zenon DEF TasksOf
    <3>2. conns' = conns /\ (Wanted(b)' <=> Wanted(b))
      BY <1>1, <2>2 DEF Wanted
    <3> QED BY <3>1, <3>2, SameTasksHold DEF ManagerInv, TaskOf
  <2> QED BY <2>1, <2>2
<1>6. ASSUME NEW b \in Address PROVE Accounted(b)'
  <2>1. /\ permits[b] \in Nat /\ Held(b) \in {0, 1} /\ spent[b] \in Nat /\ tried[b] \in Nat
        /\ spent' = spent /\ RetriesMax \in Nat
    BY <1>1, <1>2, HeldType, ManagerAssumption DEF Types
  <2>2. CASE b # a
    <3>1. permits'[b] = permits[b] /\ tried'[b] = tried[b]
      BY <1>1, <1>2, <2>2 DEF Types
    <3>2. Moved(b)
      BY <1>5, <2>1, <3>1, SMTT(30) DEF Moved
    <3> QED BY <3>2, MovedPermit, Zenon
  <2>3. CASE b = a
    <3>1. /\ permits'[b] = IF permits[b] < RetriesMax THEN permits[b] + count ELSE permits[b]
          /\ tried'[b] = tried[b] + count
      BY <1>1, <1>2, <2>1, <2>3, AddCountIs DEF Types
    <3>2. Accounted(b)
      BY DEF ManagerInv
    <3> QED BY <1>5, <2>1, <3>1, <3>2, SMTT(30) DEF Accounted
  <2> QED BY <2>2, <2>3
<1> QED BY <1>4, <1>5, <1>6 DEF ManagerInv

-----------------------------------------------------------------------------
(* The steps of a task. *)

(* A task that moves stays the one task of its address. *)
LEMMA MoveIs ==
  ASSUME ManagerInv, NEW t \in tasks, NEW phase \in Phases, NEW permit \in BOOLEAN,
         Move(t, phase, permit), phase \in {"start", "sleeping"} => ~permit,
         UNCHANGED <<active, conns, addrs>>
  PROVE  /\ t \in Task /\ t.addr \in Address /\ TasksOf(t.addr) = {t}
         /\ tasks' \subseteq Task
         /\ \A x \in tasks' : x.phase \in {"start", "sleeping"} => ~x.permit
         /\ \A a \in Address : TaskOf(a)'
         /\ \A a \in Address : a # t.addr => Held(a)' = Held(a)
         /\ Held(t.addr) = IF t.permit THEN 1 ELSE 0
         /\ Held(t.addr)' = IF permit THEN 1 ELSE 0
<1> DEFINE m == [t EXCEPT !.phase = phase, !.permit = permit]
<1>1. t \in Task /\ Types
  BY DEF ManagerInv, Types
<1>2. t.addr \in Address /\ t.permit \in BOOLEAN
  BY <1>1 DEF Task
<1>3. m \in Task /\ m.addr = t.addr /\ m.conn = t.conn /\ m.phase = phase /\ m.permit = permit
  BY <1>1, Zenon DEF Task
<1>4. tasks' = (tasks \ {t}) \cup {m}
  BY DEF Move
<1> HIDE DEF m
<1>5. TasksOf(t.addr) = {t} /\ t.conn = conns[SchemeOf(t.addr)] /\ Wanted(t.addr)
  <2>1. t \in TasksOf(t.addr)
    BY DEF TasksOf
  <2> QED BY <1>2, <2>1 DEF ManagerInv, TaskOf
<1>6. TasksOf(t.addr)' = {m}
  BY <1>3, <1>4, <1>5 DEF TasksOf
<1>7. \A a \in Address : a # t.addr => TasksOf(a)' = TasksOf(a)
  BY <1>3, <1>4 DEF TasksOf
<1>8. \A a \in Address : Wanted(a)' <=> Wanted(a)
  BY DEF Wanted
<1>9. ASSUME NEW a \in Address PROVE TaskOf(a)'
  <2>1. CASE a = t.addr
    BY <1>3, <1>5, <1>6, <1>8, <1>9, <2>1 DEF TaskOf
  <2>2. CASE a # t.addr
    BY <1>7, <1>8, <1>9, <2>2 DEF TaskOf, ManagerInv
  <2> QED BY <2>1, <2>2
<1>10. Held(t.addr) = IF t.permit THEN 1 ELSE 0
  BY <1>2, <1>5, OneHolds, HeldIs, SMTT(30)
<1>11. Held(t.addr)' = IF permit THEN 1 ELSE 0
  <2>1. Held(t.addr)' = Holding({m})
    BY <1>6 DEF Held, Holding
  <2> QED BY <1>3, <2>1, OneHolds
<1>12. \A a \in Address : a # t.addr => Held(a)' = Held(a)
  BY <1>7, SameTasksHold
<1>13. tasks' \subseteq Task /\ \A x \in tasks' : x.phase \in {"start", "sleeping"} => ~x.permit
  BY <1>1, <1>3, <1>4 DEF Types
<1> QED BY <1>1, <1>2, <1>5, <1>9, <1>10, <1>11, <1>12, <1>13

(* Move, with what it does to the permits of the task's address. *)
LEMMA MoveKeeps ==
  ASSUME ManagerInv, NEW t \in tasks, NEW phase \in Phases, NEW permit \in BOOLEAN,
         Move(t, phase, permit), phase \in {"start", "sleeping"} => ~permit,
         UNCHANGED <<active, conns, addrs, repeat, tried>>, arriving' \in Nat,
         permits' \in [Address -> Nat], spent' \in [Address -> Nat],
         \A a \in Address : a # t.addr => permits'[a] = permits[a] /\ spent'[a] = spent[a],
         LET before == IF t.permit THEN 1 ELSE 0
             after  == IF permit THEN 1 ELSE 0
             a == t.addr
         IN  /\ permits'[a] + after + spent'[a] = permits[a] + before + spent[a]
             /\ permits'[a] + after <= permits[a] + before
  PROVE  ManagerInv'
<1>1. /\ t \in Task /\ t.addr \in Address
      /\ tasks' \subseteq Task
      /\ \A x \in tasks' : x.phase \in {"start", "sleeping"} => ~x.permit
      /\ \A a \in Address : TaskOf(a)'
      /\ \A a \in Address : a # t.addr => Held(a)' = Held(a)
      /\ Held(t.addr) = IF t.permit THEN 1 ELSE 0
      /\ Held(t.addr)' = IF permit THEN 1 ELSE 0
  BY MoveIs
<1>2. Types
  BY DEF ManagerInv
<1>3. Types'
  BY <1>1, <1>2 DEF Types
<1>4. ASSUME NEW a \in Address PROVE Accounted(a)'
  <2>1. /\ permits[a] \in Nat /\ spent[a] \in Nat /\ tried'[a] = tried[a] /\ Held(a) \in {0, 1}
        /\ permits'[a] \in Nat /\ spent'[a] \in Nat
    BY <1>2, HeldType DEF Types
  <2>2. CASE a # t.addr
    <3>1. Held(a)' = Held(a) /\ permits'[a] = permits[a] /\ spent'[a] = spent[a]
      BY <1>1, <2>2
    <3>2. Moved(a)
      BY ONLY SMTT(30), <2>1, <3>1 DEF Moved
    <3> QED BY <3>2, MovedPermit, Zenon
  <2>3. CASE a = t.addr
    <3>1. Held(a) = (IF t.permit THEN 1 ELSE 0) /\ Held(a)' = (IF permit THEN 1 ELSE 0)
      BY <1>1, <2>3, Zenon
    <3>2. Held(a)' \in {0, 1}
      BY <3>1, Zenon
    <3>3. /\ permits'[a] + Held(a)' + spent'[a] = permits[a] + Held(a) + spent[a]
          /\ permits'[a] + Held(a)' <= permits[a] + Held(a)
      BY <2>3, <3>1, Zenon
    <3>4. Moved(a)
      BY ONLY <2>1, <3>2, <3>3 DEF Moved
    <3> QED BY <3>4, MovedPermit, Zenon
  <2> QED BY <2>2, <2>3
<1> QED BY <1>1, <1>3, <1>4 DEF ManagerInv

LEMMA TaskStepKeeps == ASSUME ManagerInv, NEW t \in tasks, TaskStep(t) PROVE ManagerInv'
<1> DEFINE a == t.addr
<1>1. t \in Task /\ Types
  BY DEF ManagerInv, Types
<1>2. /\ a \in Address /\ t.permit \in BOOLEAN /\ permits[a] \in Nat /\ spent[a] \in Nat
      /\ arriving \in Nat /\ Phases = {"start", "waiting", "connecting", "sending", "sleeping"}
  BY <1>1 DEF Task, Types, Phases
<1>3. UNCHANGED <<active, conns, addrs, repeat, tried>>
  BY DEF TaskStep
<1>4. permits \in [Address -> Nat] /\ spent \in [Address -> Nat]
  BY <1>1 DEF Types
<1>5. t.phase \in {"start", "sleeping"} => ~t.permit
  BY <1>1 DEF Types
<1> HIDE DEF a
(* Nothing happens to the permits. *)
<1>6. ASSUME NEW phase \in Phases, Move(t, phase, t.permit), UNCHANGED <<permits, arriving, spent>>,
             phase \in {"start", "sleeping"} => ~t.permit
      PROVE  ManagerInv'
  BY <1>2, <1>3, <1>4, <1>6, MoveKeeps DEF a
(* The attempt is over. *)
<1>7. ASSUME Forget(t), arriving' \in Nat PROVE ManagerInv'
  <2>1. /\ spent' \in [Address -> Nat]
        /\ spent'[a] = spent[a] + (IF t.permit THEN 1 ELSE 0)
        /\ \A b \in Address : b # a => spent'[b] = spent[b]
    BY <1>2, <1>4, <1>7 DEF Forget, a
  <2>2. Move(t, "sleeping", FALSE) /\ UNCHANGED permits
    BY <1>7, Zenon DEF Forget
  <2>3. permits'[a] + 0 + spent'[a] = permits[a] + (IF t.permit THEN 1 ELSE 0) + spent[a]
         /\ permits'[a] + 0 <= permits[a] + (IF t.permit THEN 1 ELSE 0)
    BY <1>2, <2>1, <2>2
  <2> QED BY <1>2, <1>3, <1>4, <1>7, <2>1, <2>2, <2>3, MoveKeeps, Zenon DEF a
<1>8. CASE TaskStarts(t)
  <2>1. Move(t, "connecting", FALSE) \/ Move(t, "waiting", FALSE)
    BY <1>8, Zenon DEF TaskStarts
  <2>2. t.permit = FALSE /\ UNCHANGED <<permits, arriving, spent>>
    BY <1>2, <1>5, <1>8 DEF TaskStarts
  <2> QED BY <1>2, <1>6, <2>1, <2>2, Zenon
<1>9. CASE TaskAcquires(t)
  <2>1. /\ permits[a] > 0 /\ permits' = [permits EXCEPT ![a] = @ - 1]
        /\ Move(t, "waiting", TRUE) /\ ~t.permit /\ UNCHANGED <<arriving, spent>>
    BY <1>9, Zenon DEF TaskAcquires, a
  <2>2. permits[a] - 1 \in Nat
    BY <1>2, <2>1
  <2>3. /\ permits' \in [Address -> Nat] /\ permits'[a] = permits[a] - 1
        /\ \A b \in Address : b # a => permits'[b] = permits[b]
    BY <1>2, <1>4, <2>1, <2>2
  <2>4. permits'[a] + 1 + spent'[a] = permits[a] + 0 + spent[a] /\ permits'[a] + 1 <= permits[a] + 0
    BY <1>2, <2>1, <2>3
  <2> QED BY <1>2, <1>3, <1>4, <2>1, <2>3, <2>4, MoveKeeps, Zenon DEF a
<1>10. CASE TaskTakesPermit(t)
  <2>1. t.permit = TRUE
    BY <1>2, <1>10 DEF TaskTakesPermit
  <2> QED BY <1>2, <1>6, <1>10, <2>1 DEF TaskTakesPermit
<1>11. CASE TaskSeesRepeat(t)
  <2>1. permits' = Returned({t}) /\ Move(t, "start", FALSE) /\ UNCHANGED <<arriving, spent>>
    BY <1>11, Zenon DEF TaskSeesRepeat
  <2>2. /\ TasksOf(a) = {t}
        /\ Held(a) = IF t.permit THEN 1 ELSE 0
    BY <1>2, <1>3, <2>1, MoveIs, Zenon DEF a
  <2>3. {t} \in SUBSET tasks /\ \A b \in Address : b # a => TasksOf(b) \cap {t} = {}
    BY DEF TasksOf, a
  <2>4. permits' \in [Address -> Nat]
    BY <1>2, <2>1, <2>2, <2>3, ReturnedType
  <2>5. permits'[a] = permits[a] + (IF t.permit THEN 1 ELSE 0)
    BY <1>2, <2>1, <2>2, <2>3, ReturnedAll
  <2>6. \A b \in Address : b # a => permits'[b] = permits[b]
    BY <2>1, <2>3, ReturnedNone
  <2>7. permits'[a] + 0 + spent'[a] = permits[a] + (IF t.permit THEN 1 ELSE 0) + spent[a]
         /\ permits'[a] + 0 <= permits[a] + (IF t.permit THEN 1 ELSE 0)
    BY <1>2, <2>1, <2>5
  <2> QED BY <1>2, <1>3, <1>4, <2>1, <2>4, <2>6, <2>7, MoveKeeps, Zenon DEF a
<1>12. CASE TaskConnects(t)
  BY <1>2, <1>6, <1>12 DEF TaskConnects
<1>13. CASE TaskFails(t)
  BY <1>2, <1>7, <1>13 DEF TaskFails
<1>14. CASE TaskSends(t)
  BY <1>2, <1>7, <1>14 DEF TaskSends
<1>15. CASE TaskWakes(t)
  <2>1. t.permit = FALSE /\ Move(t, "start", FALSE) /\ UNCHANGED <<permits, arriving, spent>>
    BY <1>2, <1>5, <1>15, Zenon DEF TaskWakes
  <2> QED BY <1>2, <1>6, <2>1, Zenon
<1> QED BY <1>8, <1>9, <1>10, <1>11, <1>12, <1>13, <1>14, <1>15 DEF TaskStep

-----------------------------------------------------------------------------
(* The invariant, and what follows from it. *)

THEOREM ManagerInvariant == SpecManager => []ManagerInv
<1>1. ASSUME InitManager PROVE ManagerInv
  <2>1. Types
    <3>1. 0 \in 0..MaxConns
      BY ManagerAssumption
    <3>2. conns \in [Schemes -> 0..MaxConns]
      BY <1>1, <3>1 DEF InitManager
    <3>3. repeat \in [Address -> BOOLEAN]
      BY <1>1 DEF InitManager
    <3> QED BY <1>1, <3>2, <3>3, Zenon DEF InitManager, Types
  <2>2. ASSUME NEW a \in Address PROVE TaskOf(a) /\ Accounted(a)
    <3>1. TasksOf(a) = {} /\ ~Wanted(a)
      BY <1>1 DEF InitManager, TasksOf, Wanted
    <3>2. Held(a) = 0
      BY <3>1, NoneHold, HeldIs
    <3>3. permits[a] = 0 /\ spent[a] = 0 /\ tried[a] = 0 /\ RetriesMax \in Nat
      BY <1>1, ManagerAssumption DEF InitManager
    <3> QED BY <3>1, <3>2, <3>3 DEF TaskOf, Accounted
  <2> QED BY <2>1, <2>2 DEF ManagerInv
<1>2. ASSUME ManagerInv, [NextManager]_mvars PROVE ManagerInv'
  <2> USE <1>2
  <2>1. arriving \in Nat
    BY DEF ManagerInv, Types
  <2>2. ASSUME UNCHANGED <<active, conns, addrs, permits, repeat, tasks, tried, spent>>, arriving' \in Nat
        PROVE  ManagerInv'
    BY <2>2 DEF ManagerInv, Types, TaskOf, Accounted, Wanted, TasksOf, Held
  <2>3. CASE Cancel
    BY <2>1, <2>3, CancelKeeps DEF Cancel
  <2>4. CASE HandleAddLink
    <3>1. arriving' \in Nat
      BY <2>1, <2>4 DEF HandleAddLink
    <3> QED BY <2>2, <2>4, <3>1, CancelKeeps DEF HandleAddLink
  <2>5. CASE UNCHANGED mvars
    BY <2>1, <2>2, <2>5 DEF mvars
  <2> QED BY <2>3, <2>4, <2>5, AddAddressKeeps, AddConnectorKeeps, StartKeeps, TaskStepKeeps DEF NextManager
<1> QED BY <1>1, <1>2, PTL DEF SpecManager

(* ConnectorManager runs one task for each address that has a connector,   *)
(* with the connector given last, and none once it is cancelled.           *)
THEOREM OneTask == SpecManager => []OneTaskPerAddress
<1>1. ASSUME ManagerInv, NEW a \in Address
      PROVE  IF active /\ a \in addrs /\ conns[SchemeOf(a)] # 0
             THEN Cardinality(TasksOf(a)) = 1 /\ \A t \in TasksOf(a) : t.conn = conns[SchemeOf(a)]
             ELSE TasksOf(a) = {}
  <2>1. CASE Wanted(a)
    <3>1. PICK t \in Task : TasksOf(a) = {t} /\ t.conn = conns[SchemeOf(a)]
      BY <1>1, <2>1 DEF ManagerInv, TaskOf
    <3>2. Cardinality({t}) = 1
      BY CountOne
    <3> QED BY <2>1, <3>1, <3>2 DEF Wanted
  <2>2. CASE ~Wanted(a)
    BY <1>1, <2>2 DEF ManagerInv, TaskOf, Wanted
  <2> QED BY <2>1, <2>2
<1>2. ManagerInv => OneTaskPerAddress
  BY <1>1 DEF OneTaskPerAddress
<1> QED BY <1>2, ManagerInvariant, PTL

(* A try_addr is used for at most one finished attempt, and none is lost   *)
(* before add_count's cap is reached.                                      *)
THEOREM NoTryLost == SpecManager => []TriesAccounted
<1>1. ManagerInv => TriesAccounted
  BY DEF ManagerInv, Accounted, TriesAccounted
<1> QED BY <1>1, ManagerInvariant, PTL

(* add_count lets an address collect at most RETRIES_MAX + 1 permits. *)
THEOREM PermitsAreBounded == SpecManager => []PermitsBounded
<1>1. ManagerInv => PermitsBounded
  BY DEF ManagerInv, Accounted, PermitsBounded
<1> QED BY <1>1, ManagerInvariant, PTL

-----------------------------------------------------------------------------
(***************************************************************************)
(* current_epoch follows the core, and messages are handed out in their    *)
(* epoch, for every number of LinkSets, every capacity of the channels and *)
(* every number of messages that one frame completes.                      *)
(*                                                                         *)
(* The mutex lags behind the core, so neither holds of the states at hand  *)
(* alone.  The invariant is about the whole way between the two: the       *)
(* notification that recv has taken, the channel, and what the core's      *)
(* handler still has to send.  Read from the mutex on, it ends at the      *)
(* epoch the core has announced, and stands at the epoch of each message   *)
(* on the way when that message is reached.                                *)
(***************************************************************************)

(* LinkSetMessageInner *)
Notification ==
  {Connected(e) : e \in OptEpoch} \cup {Disconnected, AttemptingConnection}
    \cup {Message(e) : e \in OptEpoch}

-----------------------------------------------------------------------------
(* Sequences of notifications. *)

LEMMA Associative ==
  ASSUME NEW r \in Seq(Notification), NEW s \in Seq(Notification), NEW t \in Seq(Notification)
  PROVE  r \o (s \o t) = (r \o s) \o t
<1> DEFINE u == r \o (s \o t)
<1> DEFINE v == (r \o s) \o t
<1>1. u \in Seq(Notification) /\ v \in Seq(Notification) /\ Len(u) = Len(v)
  OBVIOUS
<1>2. \A i \in 1..Len(u) : u[i] = v[i]
  OBVIOUS
<1> HIDE DEF u, v
<1> QED BY <1>1, <1>2, SeqEqual

LEMMA OneByOne ==
  ASSUME NEW m \in Notification, NEW n \in Notification
  PROVE  /\ <<m>> \in Seq(Notification) /\ <<n>> \in Seq(Notification)
         /\ <<m, n>> \in Seq(Notification)
         /\ <<m, n>> = <<m>> \o <<n>>
<1> DEFINE u == <<m, n>>
<1> DEFINE v == <<m>> \o <<n>>
<1>1. <<m>> \in Seq(Notification) /\ <<n>> \in Seq(Notification) /\ u \in Seq(Notification)
  OBVIOUS
<1>2. v \in Seq(Notification) /\ Len(v) = 2 /\ Len(u) = 2
  OBVIOUS
<1>3. u[1] = v[1] /\ u[2] = v[2]
  OBVIOUS
<1>4. \A i \in 1..Len(u) : u[i] = v[i]
  BY <1>2, <1>3
<1>5. u = v
  <2> HIDE DEF u, v
  <2> QED BY <1>1, <1>2, <1>4, SeqEqual
<1> QED BY <1>1, <1>5

(* What comes later does not matter earlier. *)
LEMMA StandsInPrefix ==
  ASSUME NEW s \in Seq(Notification), NEW u \in Seq(Notification), NEW e0, NEW e,
         Len(s) <= Len(u), \A i \in 1..Len(s) : u[i] = s[i],
         NEW k \in 0..Len(s)
  PROVE  StandsAt(s, e0, k, e) <=> StandsAt(u, e0, k, e)
<1>1. \A i \in 1..Len(s) : i \in Changes(u) <=> i \in Changes(s)
  BY DEF Changes
<1>2. Changes(s) \subseteq 1..Len(s) /\ Changes(u) \subseteq 1..Len(u)
  BY DEF Changes
<1> QED BY <1>1, <1>2 DEF StandsAt

(* Notifications that change nothing leave the epoch where it is. *)
LEMMA StandsThrough ==
  ASSUME NEW s \in Seq(Notification), NEW t \in Seq(Notification), NEW e0, NEW e,
         Changes(t) = {}, StandsAt(s, e0, Len(s), e), NEW k \in Len(s)..(Len(s) + Len(t))
  PROVE  StandsAt(s \o t, e0, k, e)
<1> DEFINE u == s \o t
<1>1. u \in Seq(Notification) /\ Len(u) = Len(s) + Len(t) /\ DOMAIN u = 1..Len(u)
  OBVIOUS
<1>2. \A i \in 1..Len(s) : u[i] = s[i]
  OBVIOUS
<1>3. \A i \in 1..Len(u) : i > Len(s) => u[i] = t[i - Len(s)] /\ i - Len(s) \in DOMAIN t
  OBVIOUS
<1>4. Changes(u) = Changes(s)
  BY <1>1, <1>2, <1>3 DEF Changes
<1>5. Changes(s) \subseteq 1..Len(s)
  BY DEF Changes
<1> QED BY <1>1, <1>2, <1>4, <1>5 DEF StandsAt

(* A last notification that changes the epoch sets it. *)
LEMMA StandsAtLast ==
  ASSUME NEW s \in Seq(Notification), NEW n \in Notification, NEW e0,
         n.kind \in {"Connected", "Disconnected"}
  PROVE  StandsAt(Append(s, n), e0, Len(s) + 1, n.epoch)
<1> DEFINE u == Append(s, n)
<1>1. u \in Seq(Notification) /\ Len(u) = Len(s) + 1 /\ DOMAIN u = 1..Len(u) /\ u[Len(s) + 1] = n
  OBVIOUS
<1>2. Len(s) + 1 \in Changes(u) /\ Changes(u) \subseteq 1..Len(u)
  BY <1>1 DEF Changes
<1> QED BY <1>1, <1>2 DEF StandsAt

(* Noting the first one leaves the same way to go. *)
LEMMA StandsAfterNote ==
  ASSUME NEW s \in Seq(Notification), NEW n \in Notification, NEW e0, NEW e,
         NEW k \in 1..(Len(s) + 1), StandsAt(<<n>> \o s, e0, k, e)
  PROVE  StandsAt(s, Noted(e0, n), k - 1, e)
<1> DEFINE u == <<n>> \o s
<1>1. u \in Seq(Notification) /\ Len(u) = Len(s) + 1 /\ u[1] = n
  OBVIOUS
<1>2. \A i \in 1..Len(s) : u[i + 1] = s[i]
  OBVIOUS
<1>3. Changes(s) \subseteq 1..Len(s) /\ Changes(u) \subseteq 1..Len(u)
  BY <1>1 DEF Changes
<1>4. \A i \in 1..Len(s) : i + 1 \in Changes(u) <=> i \in Changes(s)
  BY <1>1, <1>2 DEF Changes
<1>5. CASE n.kind \in {"Connected", "Disconnected"}
  <2>1. Noted(e0, n) = n.epoch
    <3>1. n.kind = "Disconnected" => n.epoch = None
      <4>1. CASE n \in {Connected(x) : x \in OptEpoch} \cup {Message(x) : x \in OptEpoch}
        BY <4>1 DEF Connected, Message
      <4>2. CASE n \in {Disconnected, AttemptingConnection}
        BY <4>2 DEF Disconnected, AttemptingConnection
      <4> QED BY <4>1, <4>2 DEF Notification
    <3> QED BY <1>5, <3>1 DEF Noted
  <2>2. 1 \in Changes(u)
    BY <1>1, <1>5 DEF Changes
  <2>3. PICK i \in Changes(u) : i <= k /\ u[i].epoch = e /\ \A j \in Changes(u) : j <= i \/ j > k
    <3>1. StandsAt(u, e0, k, e)
      OBVIOUS
    <3>2. ~(1 > k)
      OBVIOUS
    <3> HIDE DEF u
    <3> QED BY <2>2, <3>1, <3>2 DEF StandsAt
  <2>4. CASE i = 1
    BY <1>1, <1>2, <1>3, <1>4, <2>1, <2>3, <2>4 DEF StandsAt
  <2>5. CASE i # 1
    <3>1. i - 1 \in Changes(s) /\ s[i - 1] = u[i]
      BY <1>1, <1>2, <1>3, <1>4, <2>5
    <3>2. \A j \in Changes(s) : j <= i - 1 \/ j > k - 1
      BY <1>1, <1>3, <1>4, <2>3, SMTT(30)
    <3> QED BY <1>1, <1>3, <2>3, <3>1, <3>2 DEF StandsAt
  <2> QED BY <2>4, <2>5
<1>6. CASE n.kind \notin {"Connected", "Disconnected"}
  <2>1. Noted(e0, n) = e0
    BY <1>6 DEF Noted
  <2>2. 1 \notin Changes(u)
    BY <1>1, <1>6 DEF Changes
  <2>3. CASE e = e0 /\ \A i \in Changes(u) : i > k
    BY <1>1, <1>3, <1>4, <2>1, <2>3 DEF StandsAt
  <2>4. CASE \E i \in Changes(u) : i <= k /\ u[i].epoch = e /\ \A j \in Changes(u) : j <= i \/ j > k
    <3>1. PICK i \in Changes(u) : i <= k /\ u[i].epoch = e /\ \A j \in Changes(u) : j <= i \/ j > k
      BY <2>4, Zenon
    <3>2. i - 1 \in Changes(s) /\ s[i - 1] = u[i]
      BY <1>1, <1>2, <1>3, <1>4, <2>2
    <3>3. \A j \in Changes(s) : j <= i - 1 \/ j > k - 1
      BY <1>1, <1>3, <1>4, <3>1, SMTT(30)
    <3> QED BY <1>1, <1>3, <3>1, <3>2, <3>3 DEF StandsAt
  <2> QED BY <2>3, <2>4, Zenon DEF StandsAt
<1> QED BY <1>5, <1>6

-----------------------------------------------------------------------------
(* The way from the mutex to the core. *)

(* Every message on it is reached in its epoch ... *)
MessagesMeet(s, e0) ==
  \A k \in DOMAIN s : s[k].kind = "Message" => StandsAt(s, e0, k, s[k].epoch)

(* ... and it ends at e. *)
Leads(s, e0, e) == StandsAt(s, e0, Len(s), e) /\ MessagesMeet(s, e0)

LEMMA QuietLeads ==
  ASSUME NEW s \in Seq(Notification), NEW t \in Seq(Notification), NEW e0, NEW e,
         Leads(s, e0, e),
         \A i \in DOMAIN t : t[i] \in {AttemptingConnection, Message(e)}
  PROVE  Leads(s \o t, e0, e)
<1> DEFINE u == s \o t
<1>1. Changes(t) = {}
  BY DEF Changes, AttemptingConnection, Message
<1>2. u \in Seq(Notification) /\ Len(u) = Len(s) + Len(t) /\ DOMAIN u = 1..Len(u)
  OBVIOUS
<1>3. \A i \in 1..Len(s) : u[i] = s[i]
  OBVIOUS
<1>4. \A i \in 1..Len(u) : i > Len(s) => u[i] = t[i - Len(s)] /\ i - Len(s) \in DOMAIN t
  OBVIOUS
<1>5. StandsAt(u, e0, Len(u), e)
  BY <1>1, <1>2, StandsThrough DEF Leads
<1>6. ASSUME NEW k \in DOMAIN u, u[k].kind = "Message"
      PROVE  StandsAt(u, e0, k, u[k].epoch)
  <2>1. CASE k <= Len(s)
    <3>1. k \in 0..Len(s) /\ k \in DOMAIN s
      BY <1>2, <2>1
    <3>2. StandsAt(s, e0, k, u[k].epoch)
      BY <1>3, <1>6, <3>1 DEF Leads, MessagesMeet
    <3>3. Len(s) <= Len(u)
      BY <1>2
    <3> HIDE DEF u
    <3> QED BY <1>2, <1>3, <3>1, <3>2, <3>3, StandsInPrefix, Zenon
  <2>2. CASE k > Len(s)
    <3>1. u[k] = Message(e)
      BY <1>2, <1>4, <1>6, <2>2 DEF AttemptingConnection
    <3>2. u[k].epoch = e
      BY <3>1 DEF Message
    <3>3. k \in Len(s)..(Len(s) + Len(t))
      BY <1>2, <2>2
    <3> QED BY <1>1, <3>2, <3>3, StandsThrough, Zenon DEF Leads
  <2> QED BY <1>2, <2>1, <2>2
<1> QED BY <1>5, <1>6 DEF Leads, MessagesMeet

LEMMA ChangeLeads ==
  ASSUME NEW s \in Seq(Notification), NEW n \in Notification, NEW e0,
         MessagesMeet(s, e0), n.kind \in {"Connected", "Disconnected"}
  PROVE  Leads(s \o <<n>>, e0, n.epoch)
<1> DEFINE u == Append(s, n)
<1>1. s \o <<n>> = u
  OBVIOUS
<1>2. u \in Seq(Notification) /\ Len(u) = Len(s) + 1 /\ DOMAIN u = 1..Len(u) /\ u[Len(s) + 1] = n
  OBVIOUS
<1>3. \A i \in 1..Len(s) : u[i] = s[i]
  OBVIOUS
<1>4. StandsAt(u, e0, Len(u), n.epoch)
  BY <1>2, StandsAtLast
<1>5. ASSUME NEW k \in DOMAIN u, u[k].kind = "Message"
      PROVE  StandsAt(u, e0, k, u[k].epoch)
  <2>1. k \in 0..Len(s) /\ k \in DOMAIN s
    BY <1>2, <1>5
  <2>2. StandsAt(s, e0, k, u[k].epoch)
    BY <1>3, <1>5, <2>1 DEF MessagesMeet
  <2>3. Len(s) <= Len(u)
    BY <1>2
  <2> HIDE DEF u
  <2> QED BY <1>2, <1>3, <2>1, <2>2, <2>3, StandsInPrefix
<1> HIDE DEF u
<1> QED BY <1>1, <1>4, <1>5, Zenon DEF Leads, MessagesMeet

-----------------------------------------------------------------------------
(* The invariant. *)

Way == read \o events

WayTypes ==
  /\ receiver \in Handles \cup {Reader, Dropped}
  /\ running \in BOOLEAN
  /\ read \in Seq(Notification) /\ Len(read) <= 1
  /\ events \in Seq(Notification)
  /\ session \in OptEpoch /\ told \in OptEpoch
  /\ session # None => told = session

WayInv ==
  /\ WayTypes
  /\ receiver = Dropped => read = <<>> /\ events = <<>>
  /\ receiver # Dropped => MessagesMeet(Way, epoch)
  /\ running /\ receiver # Dropped => Leads(Way, epoch, told)

LEMMA EmptyLeads == ASSUME NEW e PROVE Leads(<<>>, e, e)
  BY DEF Leads, MessagesMeet, StandsAt, Changes

LEMMA NotificationsAre ==
  ASSUME NEW e \in OptEpoch
  PROVE  /\ Connected(e) \in Notification /\ Connected(e).kind = "Connected" /\ Connected(e).epoch = e
         /\ Message(e) \in Notification
         /\ Disconnected \in Notification /\ Disconnected.kind = "Disconnected" /\ Disconnected.epoch = None
         /\ AttemptingConnection \in Notification
  BY DEF Notification, Connected, Message, Disconnected

(* The core sends t and announces the epoch that told' is. *)
LEMMA EmitKeeps ==
  ASSUME WayInv, NEW t \in Seq(Notification), Emit(t), running, UNCHANGED <<user, running>>,
         session' \in OptEpoch, told' \in OptEpoch, session' # None => told' = session',
         Leads(Way, epoch, told) => Leads(Way \o t, epoch, told')
  PROVE  WayInv'
<1> USE DEF user
<1>1. CASE receiver = Dropped
  BY <1>1 DEF WayInv, WayTypes, Emit
<1>2. CASE receiver # Dropped
  <2>1. events' = events \o t /\ events' \in Seq(Notification) /\ read' = read
    BY <1>2 DEF Emit, WayInv, WayTypes
  <2>2. Way' = Way \o t
    <3>1. read \in Seq(Notification) /\ events \in Seq(Notification)
      BY DEF WayInv, WayTypes
    <3>2. Way = read \o events /\ Way' = read \o (events \o t)
      BY <2>1 DEF Way
    <3> QED BY <3>1, <3>2, Associative
  <2>3. Leads(Way', epoch', told')
    BY <1>2, <2>2 DEF WayInv
  <2> QED BY <1>2, <2>1, <2>3 DEF WayInv, WayTypes, Leads
<1> QED BY <1>1, <1>2

(* Disconnected, with or without AttemptingConnection beside it. *)
LEMMA LeavesKeeps ==
  ASSUME WayInv, Leaves, running, UNCHANGED <<user, running>>
  PROVE  WayInv'
<1>1. session' = None /\ told' = None /\ None \in OptEpoch
  BY EpochAssumption DEF Leaves, Finish, None, OptEpoch
<1>2. PICK t \in {<<Disconnected>>, <<AttemptingConnection, Disconnected>>,
                  <<Disconnected, AttemptingConnection>>} : Emit(t)
  BY DEF Leaves
<1>3. Disconnected \in Notification /\ AttemptingConnection \in Notification
       /\ Disconnected.kind = "Disconnected" /\ Disconnected.epoch = None
  BY <1>1, NotificationsAre
<1>4. Way \in Seq(Notification)
  BY DEF Way, WayInv, WayTypes
<1> DEFINE d == <<Disconnected>>
<1> DEFINE a == <<AttemptingConnection>>
<1>5. t \in Seq(Notification) /\ d \in Seq(Notification) /\ a \in Seq(Notification)
  BY <1>2, <1>3, OneByOne, Zenon
<1>6. ASSUME Leads(Way, epoch, told) PROVE Leads(Way \o t, epoch, None)
  <2>1. \A i \in DOMAIN a : a[i] = AttemptingConnection
    OBVIOUS
  <2>2. CASE t = d
    BY <1>3, <1>4, <1>6, <2>2, ChangeLeads DEF Leads
  <2>3. CASE t = <<AttemptingConnection, Disconnected>>
    <3>1. Leads(Way \o a, epoch, told) /\ Way \o a \in Seq(Notification)
      <4> HIDE DEF a
      <4>1. Way \o a \in Seq(Notification)
        BY <1>4, <1>5
      <4> QED BY <1>4, <1>5, <1>6, <2>1, <4>1, QuietLeads, Zenon
    <3>2. Leads((Way \o a) \o d, epoch, None)
      BY <1>3, <3>1, ChangeLeads, Zenon DEF Leads
    <3>3. Way \o t = (Way \o a) \o d
      <4>1. t = a \o d
        BY <2>3, <1>3, OneByOne
      <4> HIDE DEF a, d
      <4> QED BY <1>4, <1>5, <4>1, Associative
    <3> QED BY <3>2, <3>3
  <2>4. CASE t = <<Disconnected, AttemptingConnection>>
    <3>1. Leads(Way \o d, epoch, None) /\ Way \o d \in Seq(Notification)
      BY <1>3, <1>4, <1>5, <1>6, ChangeLeads DEF Leads
    <3>2. Leads((Way \o d) \o a, epoch, None)
      BY <1>5, <3>1, <2>1, QuietLeads, Zenon
    <3>3. Way \o t = (Way \o d) \o a
      <4>1. t = d \o a
        BY <2>4, <1>3, OneByOne
      <4> HIDE DEF a, d
      <4> QED BY <1>4, <1>5, <4>1, Associative, Zenon
    <3> QED BY <3>2, <3>3
  <2> QED BY <1>2, <2>2, <2>3, <2>4
<1> QED BY <1>1, <1>2, <1>5, <1>6, EmitKeeps

(* Notifications that change nothing. *)
LEMMA QuietKeeps ==
  ASSUME WayInv, running, UNCHANGED <<user, running>>, UNCHANGED core,
         NEW t \in Seq(Notification), Emit(t),
         \A i \in DOMAIN t : t[i] \in {AttemptingConnection, Message(told)}
  PROVE  WayInv'
<1>1. Way \in Seq(Notification)
  BY DEF Way, WayInv, WayTypes
<1>2. Leads(Way, epoch, told) => Leads(Way \o t, epoch, told)
  BY <1>1, QuietLeads
<1> QED BY <1>2, EmitKeeps DEF core, WayInv, WayTypes

LEMMA StaysKeeps ==
  ASSUME WayInv, running, UNCHANGED <<user, running>>, Stays
  PROVE  WayInv'
<1>1. PICK t \in {<<>>, <<AttemptingConnection>>} : Emit(t)
  BY DEF Stays
<1>2. t \in Seq(Notification) /\ \A i \in DOMAIN t : t[i] = AttemptingConnection
  <2>1. AttemptingConnection \in Notification
    BY DEF Notification
  <2>2. <<AttemptingConnection>> \in Seq(Notification)
    BY <2>1, OneByOne
  <2>3. CASE t = <<>>
    BY <2>3
  <2>4. CASE t = <<AttemptingConnection>>
    BY <2>2, <2>4
  <2> QED BY <1>1, <2>3, <2>4
<1> QED BY <1>1, <1>2, QuietKeeps DEF Stays

LEMMA LinkOrTimerKeeps == ASSUME WayInv, HandleLinkOrTimer PROVE WayInv'
<1> USE DEF HandleLinkOrTimer
<1>1. running /\ UNCHANGED <<user, running>>
  OBVIOUS
<1>2. Way \in Seq(Notification)
  BY DEF Way, WayInv, WayTypes
<1>3. ASSUME NEW e \in Epoch, Establishes(e) PROVE WayInv'
  <2>1. e \in OptEpoch /\ session' = e /\ told' = e
    BY <1>3 DEF Establishes, Establish, Epoch, OptEpoch
  <2>2. <<Connected(e)>> \in Seq(Notification)
    BY <2>1, NotificationsAre
  <2>3. Leads(Way, epoch, told) => Leads(Way \o <<Connected(e)>>, epoch, e)
    BY <1>2, <2>1, NotificationsAre, ChangeLeads DEF Leads
  <2> QED BY <1>1, <1>3, <2>1, <2>2, <2>3, EmitKeeps, Zenon DEF Establishes
<1>4. CASE Leaves
  BY <1>1, <1>4, LeavesKeeps
<1>5. CASE Finish(FALSE) /\ Emit(<<>>)
  <2>1. session' = None /\ told' = told /\ None \in OptEpoch
    BY <1>5, EpochAssumption DEF Finish, None, OptEpoch
  <2>2. Way \o <<>> = Way /\ <<>> \in Seq(Notification)
    BY <1>2
  <2> QED BY <1>1, <1>5, <2>1, <2>2, EmitKeeps, Zenon DEF WayInv, WayTypes
<1>6. ASSUME NEW n \in 1..Burst, Delivers(n) PROVE WayInv'
  <2> DEFINE t == [i \in 1..n |-> Message(session)]
  <2>1. told = session /\ session \in OptEpoch /\ UNCHANGED core
    BY <1>6 DEF Delivers, WayInv, WayTypes
  <2>2. t \in Seq(Notification)
    BY <2>1, NotificationsAre, HandleAssumption, IsASeq
  <2>3. \A i \in DOMAIN t : t[i] = Message(told)
    BY <2>1
  <2>4. Emit(t)
    BY <1>6 DEF Delivers
  <2> HIDE DEF t
  <2> QED BY <1>1, <2>1, <2>2, <2>3, <2>4, QuietKeeps
<1>7. CASE UNCHANGED core /\ Emit(<<AttemptingConnection>>)
  BY <1>1, <1>7, StaysKeeps DEF Stays
<1> QED BY <1>3, <1>4, <1>5, <1>6, <1>7, Zenon

(* recv takes a notification from one place of the way to the other. *)
LEMMA RecvKeeps == ASSUME WayInv, Recv PROVE WayInv'
<1> USE DEF Recv
<1>1. events # <<>> /\ events \in Seq(Notification) /\ read = <<>>
  BY DEF WayInv, WayTypes
<1>2. /\ read' = <<Head(events)>> /\ events' = Tail(events)
       /\ Head(events) \in Notification /\ Tail(events) \in Seq(Notification)
       /\ read' \in Seq(Notification)
  BY <1>1
<1>3. Way = events
  BY <1>1 DEF Way
<1>4. Way' = events
  <2> DEFINE v == <<Head(events)>> \o Tail(events)
  <2>1. v \in Seq(Notification) /\ Len(v) = Len(events)
    BY <1>1, <1>2
  <2>2. \A i \in 1..Len(v) : v[i] = events[i]
    BY <1>1, <1>2
  <2>3. Way' = v
    BY <1>2 DEF Way
  <2> HIDE DEF v
  <2> QED BY <1>1, <2>1, <2>2, <2>3, SeqEqual
<1>5. UNCHANGED <<receiver, epoch, running, session, told>>
  BY DEF core
<1>6. receiver # Dropped
  BY <1>1 DEF WayInv
<1>7. Len(read') <= 1
  BY <1>2
<1> QED BY <1>2, <1>3, <1>4, <1>5, <1>6, <1>7 DEF WayInv, WayTypes

LEMMA OneTaken ==
  ASSUME WayInv, read # <<>>
  PROVE  read \in Seq(Notification) /\ events \in Seq(Notification) /\ Len(read) = 1
<1>1. read \in Seq(Notification) /\ events \in Seq(Notification) /\ Len(read) <= 1
  BY DEF WayInv, WayTypes
<1>2. Len(read) \in Nat /\ Len(read) # 0
  BY <1>1, EmptySeq, LenProperties
<1>3. \A n \in Nat : n <= 1 /\ n # 0 => n = 1
  OBVIOUS
<1>4. Len(read) = 1
  BY <1>1, <1>2, <1>3, Zenon
<1> QED BY <1>1, <1>4

(* A taken message stands first on the way. *)
LEMMA MessageMet ==
  ASSUME WayInv, read # <<>>, Head(read).kind = "Message"
  PROVE  epoch = Head(read).epoch
<1>1. read \in Seq(Notification) /\ events \in Seq(Notification) /\ Len(read) = 1
  BY OneTaken
<1>2. Way \in Seq(Notification) /\ Len(Way) >= 1 /\ Way[1] = Head(read) /\ 1 \in DOMAIN Way
  BY <1>1 DEF Way
<1>3. StandsAt(Way, epoch, 1, Way[1].epoch)
  BY <1>2 DEF WayInv, MessagesMeet
<1>4. 1 \notin Changes(Way) /\ Changes(Way) \subseteq 1..Len(Way)
  BY <1>2 DEF Changes
<1> QED BY <1>2, <1>3, <1>4 DEF StandsAt

LEMMA NoteKeeps == ASSUME WayInv, Note PROVE WayInv'
<1> USE DEF Note
<1>1. /\ read \in Seq(Notification) /\ events \in Seq(Notification) /\ read = <<Head(read)>>
       /\ Head(read) \in Notification
  <2>1. read \in Seq(Notification) /\ events \in Seq(Notification) /\ Len(read) = 1
    BY OneTaken
  <2>2. Head(read) \in Notification /\ read[1] = Head(read)
    BY <2>1
  <2> DEFINE v == <<Head(read)>>
  <2>3. v \in Seq(Notification) /\ Len(v) = 1 /\ v[1] = read[1]
    BY <2>2
  <2>4. v = read
    <3> HIDE DEF v
    <3> QED BY <2>1, <2>3, SeqEqual
  <2> QED BY <2>1, <2>2, <2>4
<1> DEFINE n == Head(read)
<1>2. Way = <<n>> \o events /\ Len(Way) = Len(events) + 1
  <2>1. Way = <<n>> \o events
    BY <1>1, Zenon DEF Way
  <2> QED BY <1>1, <2>1
<1>3. events' = events /\ read' = <<>> /\ epoch' = Noted(epoch, n)
  BY DEF channels
<1>4. Way' = events
  BY <1>1, <1>3 DEF Way
<1>5. \A i \in DOMAIN events : Way[i + 1] = events[i] /\ i + 1 \in DOMAIN Way /\ i + 1 \in 1..(Len(events) + 1)
  BY <1>1, <1>2
<1> HIDE DEF n
<1>6. ASSUME NEW k \in 1..(Len(events) + 1), NEW e, StandsAt(Way, epoch, k, e)
      PROVE  StandsAt(events, epoch', k - 1, e)
  BY <1>1, <1>2, <1>3, <1>6, StandsAfterNote DEF n
<1>7. ASSUME MessagesMeet(Way, epoch) PROVE MessagesMeet(events, epoch')
  <2>1. SUFFICES ASSUME NEW k \in DOMAIN events, events[k].kind = "Message"
                 PROVE  StandsAt(events, epoch', k, events[k].epoch)
    BY DEF MessagesMeet
  <2>2. StandsAt(Way, epoch, k + 1, events[k].epoch)
    BY <1>5, <1>7, <2>1 DEF MessagesMeet
  <2>3. k + 1 \in 1..(Len(events) + 1) /\ (k + 1) - 1 = k
    BY <1>1
  <2> QED BY <1>6, <2>2, <2>3
<1>8. ASSUME StandsAt(Way, epoch, Len(Way), told) PROVE StandsAt(events, epoch', Len(events), told)
  <2>1. Len(Way) \in 1..(Len(events) + 1) /\ Len(Way) - 1 = Len(events)
    BY <1>1, <1>2
  <2> QED BY <1>6, <1>8, <2>1
<1>9. UNCHANGED <<receiver, running, session, told>>
  BY DEF core
<1>10. receiver # Dropped
  BY DEF WayInv
<1>11. read' \in Seq(Notification) /\ Len(read') <= 1
  BY <1>3
<1> QED BY <1>1, <1>3, <1>4, <1>7, <1>8, <1>9, <1>10, <1>11 DEF WayInv, WayTypes, Leads

(* A core that stops leaves what is in the channel. *)
LEMMA StopKeeps == ASSUME WayInv, Stop PROVE WayInv'
<1> USE DEF Stop
<1>1. read \in Seq(Notification) /\ events \in Seq(Notification)
  BY DEF WayInv, WayTypes
<1>2. UNCHANGED <<receiver, epoch, read, session, told>> /\ running' = FALSE
  BY DEF user, core
<1>3. CASE ~Blocked
  BY <1>2, <1>3, Zenon DEF WayInv, WayTypes, Way
<1>4. CASE Blocked
  <2>1. Len(events) > Capacity /\ Capacity \in Nat
    BY <1>4, HandleAssumption DEF Blocked
  <2>2. events' = SubSeq(events, 1, Capacity)
    BY <1>4, Zenon
  <2>3. /\ events' \in Seq(Notification) /\ Len(events') = Capacity
         /\ \A i \in 1..Capacity : events'[i] = events[i]
    BY <1>1, <2>1, <2>2
  <2>4. receiver # Dropped
    BY <2>1 DEF WayInv
  <2>5. Way \in Seq(Notification) /\ Way' \in Seq(Notification) /\ Len(Way') <= Len(Way)
    BY <1>1, <1>2, <2>1, <2>3 DEF Way
  <2>6. \A i \in 1..Len(Way') : Way[i] = Way'[i]
    BY <1>1, <1>2, <2>1, <2>3 DEF Way
  <2>7. ASSUME NEW k \in DOMAIN Way', Way'[k].kind = "Message"
        PROVE  StandsAt(Way', epoch, k, Way'[k].epoch)
    <3>1. k \in 0..Len(Way') /\ k \in DOMAIN Way /\ Way[k] = Way'[k]
      BY <2>5, <2>6
    <3>2. StandsAt(Way, epoch, k, Way'[k].epoch)
      BY <2>4, <2>7, <3>1 DEF WayInv, MessagesMeet
    <3> QED BY <2>5, <2>6, <3>1, <3>2, StandsInPrefix
  <2>8. MessagesMeet(Way', epoch')
    BY <1>2, <2>7 DEF MessagesMeet
  <2> QED BY <1>2, <2>3, <2>4, <2>8, Zenon DEF WayInv, WayTypes
<1> QED BY <1>3, <1>4

THEOREM WayInvariant == SpecHandle => []WayInv
<1>1. ASSUME InitHandle PROVE WayInv
  <2>1. read = <<>> /\ events = <<>> /\ epoch = None /\ told = None /\ session = None /\ running = TRUE
    BY <1>1 DEF InitHandle, Init
  <2>2. Way = <<>>
    BY <2>1 DEF Way
  <2>3. Leads(Way, epoch, told)
    BY <2>1, <2>2, EmptyLeads
  <2>4. WayTypes
    BY <1>1, <2>1, EpochAssumption DEF WayTypes, InitHandle, None, OptEpoch
  <2> QED BY <2>1, <2>3, <2>4 DEF WayInv, Leads
<1>2. ASSUME WayInv, [NextHandle]_vars PROVE WayInv'
  <2> USE <1>2
  <2>1. ASSUME UNCHANGED <<receiver, epoch, read, events, running, session, told>> PROVE WayInv'
    BY <2>1 DEF WayInv, WayTypes, Way
  <2>2. ASSUME NEW h \in Handles, NEW new \in Handles, CloneSender(h, new) PROVE WayInv'
    BY <2>1, <2>2 DEF CloneSender, channels, core
  <2>3. ASSUME NEW h \in Handles, TakeRecv(h) PROVE WayInv'
    BY <2>3, HandleAssumption DEF TakeRecv, WayInv, WayTypes, Way, channels, core, Reader, Dropped
  <2>4. ASSUME NEW h \in Handles, DropHandle(h) PROVE WayInv'
    <3>1. CASE receiver = h
      BY <2>4, <3>1 DEF DropHandle, WayInv, WayTypes, core
    <3>2. CASE receiver # h
      BY <2>1, <2>4, <3>2 DEF DropHandle, core
    <3> QED BY <3>1, <3>2
  <2>5. ASSUME NEW c \in Calls, CancelCall(c) PROVE WayInv'
    BY <2>1, <2>5 DEF CancelCall, user, core
  <2>6. ASSUME NEW h \in Handles, NEW c \in Calls, NEW cmd \in Commands, Call(h, c, cmd)
        PROVE  WayInv'
    BY <2>1, <2>6 DEF Call, user, core
  <2>7. CASE DropReader
    BY <2>7 DEF DropReader, WayInv, WayTypes, core
  <2>8. CASE Ask
    BY <2>1, <2>8 DEF Ask, user, core
  <2>9. CASE RecvTerminated
    <3>1. read' = <<>> /\ events' = <<>> /\ UNCHANGED <<receiver, running, session, told>> /\ ~running
           /\ receiver # Dropped
      BY <2>9 DEF RecvTerminated, channels, core, Reader, Dropped
    <3>2. Way' = <<>>
      BY <3>1 DEF Way
    <3>3. MessagesMeet(Way', epoch')
      BY <3>2, EmptyLeads DEF Leads
    <3> QED BY <3>1, <3>3 DEF WayInv, WayTypes
  <2>10. CASE HandleCommand
    <3>1. running /\ UNCHANGED <<user, running>> /\ (Leaves \/ Stays)
      BY <2>10 DEF HandleCommand
    <3> QED BY <3>1, LeavesKeeps, StaysKeeps
  <2>11. CASE HandleDebug
    BY <2>1, <2>11 DEF HandleDebug, user, core
  <2>12. CASE UNCHANGED vars
    BY <2>1, <2>12 DEF vars, user, channels, core
  <2> QED BY <2>2, <2>3, <2>4, <2>5, <2>6, <2>7, <2>8, <2>9, <2>10, <2>11, <2>12,
             RecvKeeps, NoteKeeps, StopKeeps, LinkOrTimerKeeps DEF NextHandle
<1> QED BY <1>1, <1>2, PTL DEF SpecHandle

-----------------------------------------------------------------------------
(* Once the notifications under way are read, LinkSet::current_epoch is    *)
(* the epoch the core has announced, whoever has owned the receiver.       *)
THEOREM EpochFollows == SpecHandle => []EpochCatchesUp
<1>1. WayInv => EpochCatchesUp
  BY DEF WayInv, EpochCatchesUp, Leads, Way
<1> QED BY <1>1, WayInvariant, PTL

(* recv returns a message while current_epoch is the epoch it was sent in. *)
THEOREM MessagesMeetTheirEpoch == SpecHandle => MessagesInTheirEpoch
<1>1. ASSUME WayInv, [NextHandle]_vars
      PROVE  [read # <<>> /\ read' = <<>> /\ Head(read).kind = "Message" =>
                epoch' = Head(read).epoch]_vars
  <2>1. SUFFICES ASSUME NextHandle, read # <<>>, read' = <<>>, Head(read).kind = "Message"
                 PROVE  epoch' = Head(read).epoch
    BY <1>1
  <2>2. Note
    BY <2>1, Zenon DEF NextHandle, CloneSender, TakeRecv, DropHandle, CancelCall, Call, DropReader, Ask, Recv,
         RecvTerminated, HandleLinkOrTimer, HandleCommand, HandleDebug, Stop, user
  <2>3. epoch' = epoch
    BY <2>1, <2>2 DEF Note, Noted
  <2> QED BY <1>1, <2>1, <2>3, MessageMet
<1> QED BY <1>1, WayInvariant, PTL DEF SpecHandle, MessagesInTheirEpoch

=============================================================================
