-------------------------- MODULE ConnectorManager --------------------------
(***************************************************************************)
(* src/connector_manager.rs, with the states of the core that hold its     *)
(* parts.  Connecting and Reconnecting run a ConnectorManager: one task    *)
(* for each address whose scheme has a connector.  The other states only   *)
(* keep the addresses and connectors for the next one.                     *)
(*                                                                         *)
(* An address given with add_addr repeats for ever; each try_addr gives it *)
(* one permit, which an attempt holds and forgets when it is over.  A task *)
(* is aborted at the await it is at: the permit it holds goes back, the    *)
(* link it has not sent yet is dropped.  The core waits for the end of the *)
(* tasks it aborts before it goes on, so that is one step.                 *)
(***************************************************************************)
EXTENDS Naturals, FiniteSets

CONSTANTS
  Schemes,      \* URI schemes
  Names,        \* what tells the addresses of a scheme apart
  RetriesMax,   \* RETRIES_MAX, 10 in the code
  ChannelSize,     \* of the command channel, 10 in the code
  MaxTries,     \* bound on the try_addr calls for an address
  MaxConns      \* bound on the connectors given for a scheme

ASSUME ManagerAssumption ==
  {RetriesMax, ChannelSize, MaxTries, MaxConns} \subseteq Nat \ {0}

VARIABLES
  active,     \* the core is Connecting or Reconnecting
  conns,      \* ConnectorSet: the number of the scheme's connector, 0 for none
  addrs,      \* the addresses of the AddressSet
  permits,    \* available permits of an address's semaphore
  repeat,     \* the repeat flag of an address
  tasks,      \* the running tasks
  arriving,   \* AddLink commands in the channel to the core
  tried,      \* history: try_addr commands handled for an address
  spent       \* history: attempts that ended with a permit of the address

mvars == <<active, conns, addrs, permits, repeat, tasks, arriving, tried, spent>>

Address == Schemes \X Names
SchemeOf(a) == a[1]

(* The await a task is at; "start" is the top of its loop. *)
Phases == {"start", "waiting", "connecting", "sending", "sleeping"}
Task == [addr : Address, conn : 1..MaxConns, phase : Phases, permit : BOOLEAN]

-----------------------------------------------------------------------------

(* create_task *)
CreateTask(a, conn) == [addr |-> a, conn |-> conn, phase |-> "start", permit |-> FALSE]

TasksFor(as, cs) == {CreateTask(a, cs[SchemeOf(a)]) : a \in {x \in as : cs[SchemeOf(x)] # 0}}

(* The semaphores once the tasks of `gone` are aborted. *)
Returned(gone) ==
  [a \in Address |-> permits[a] + Cardinality({t \in gone : t.addr = a /\ t.permit})]

(* Mutant: without the cap. *)
AddCountUncapped(available, count) == available + count

(* add_count: what is available is kept within RETRIES_MAX. *)
AddCount(available, count) ==
  LET room == IF available > RetriesMax THEN 0 ELSE RetriesMax - available
  IN  available + (IF count < room THEN count ELSE room)

(* merge, and likewise what add_addr or try_addr does to a new address:    *)
(* add_addr sets the flag, try_addr brings one permit.                     *)
Merge(a, count) ==
  /\ permits' = [permits EXCEPT ![a] = AddCount(@, count)]
  /\ repeat' = [repeat EXCEPT ![a] = @ \/ count = 0]

(* ctrl_msg(AddAddress) of every state: merge with the address that is     *)
(* known, or keep a new one and, in an active manager, start its task.     *)
AddAddress(a, count) ==
  /\ count = 1 => tried[a] < MaxTries
  /\ addrs' = addrs \cup {a}
  /\ Merge(a, count)
  /\ tasks' = IF active /\ a \notin addrs THEN tasks \cup TasksFor({a}, conns) ELSE tasks
  /\ tried' = [tried EXCEPT ![a] = @ + count]
  /\ UNCHANGED <<active, conns, arriving, spent>>

(* Mutant: the tasks of the old connector are not aborted. *)
AddConnectorKeepsTasks(s) ==
  /\ conns[s] < MaxConns
  /\ conns' = [conns EXCEPT ![s] = @ + 1]
  /\ tasks' = IF active
              THEN tasks \cup TasksFor({a \in addrs : SchemeOf(a) = s}, conns')
              ELSE tasks
  /\ UNCHANGED <<active, addrs, permits, repeat, arriving, tried, spent>>

(* ctrl_msg(AddConnector): an active manager ends the tasks of the scheme, *)
(* if it has a connector, and starts them with the new one.                *)
AddConnector(s) ==
  LET gone == {t \in tasks : SchemeOf(t.addr) = s}
      mine == {a \in addrs : SchemeOf(a) = s}
  IN  /\ conns[s] < MaxConns
      /\ conns' = [conns EXCEPT ![s] = @ + 1]
      /\ permits' = Returned(gone)
      /\ tasks' = IF active THEN (tasks \ gone) \cup TasksFor(mine, conns') ELSE tasks
      /\ UNCHANGED <<active, addrs, repeat, arriving, tried, spent>>

(* start, by the transitions into Connecting and Reconnecting. *)
Start ==
  /\ ~active
  /\ active' = TRUE
  /\ tasks' = TasksFor(addrs, conns)
  /\ UNCHANGED <<conns, addrs, permits, repeat, arriving, tried, spent>>

(* cancel, by the transitions out of them: on Disconnect, on the timer and *)
(* on a link.  The drop() that follows finds no handle.                    *)
CancelTasks ==
  /\ active' = FALSE
  /\ permits' = Returned(tasks)
  /\ tasks' = {}
  /\ UNCHANGED <<conns, addrs, repeat, tried, spent>>

Cancel ==
  /\ active
  /\ CancelTasks
  /\ UNCHANGED arriving

(* ctrl_msg(AddLink) for a link that a task has made; wrap_link refuses    *)
(* one whose frames are too small, and the state stays.                    *)
HandleAddLink ==
  /\ arriving > 0
  /\ arriving' = arriving - 1
  /\ \/ active /\ CancelTasks
     \/ UNCHANGED <<active, conns, addrs, permits, repeat, tasks, tried, spent>>

-----------------------------------------------------------------------------
(* The loop of a task, from await to await. *)

Move(t, phase, permit) ==
  tasks' = (tasks \ {t}) \cup {[t EXCEPT !.phase = phase, !.permit = permit]}

TaskStarts(t) ==
  /\ t.phase = "start"
  /\ Move(t, IF repeat[t.addr] THEN "connecting" ELSE "waiting", FALSE)
  /\ UNCHANGED <<permits, arriving, spent>>

(* The semaphore gives a permit to a waiting task before it is polled. *)
TaskAcquires(t) ==
  /\ t.phase = "waiting"
  /\ ~t.permit
  /\ permits[t.addr] > 0
  /\ permits' = [permits EXCEPT ![t.addr] = @ - 1]
  /\ Move(t, "waiting", TRUE)
  /\ UNCHANGED <<arriving, spent>>

TaskTakesPermit(t) ==
  /\ t.phase = "waiting"
  /\ t.permit
  /\ Move(t, "connecting", TRUE)
  /\ UNCHANGED <<permits, arriving, spent>>

(* Mutant: the select! is entered again without a look at the flag. *)
TaskIgnoresRepeat(t) ==
  /\ t.phase = "waiting"
  /\ repeat[t.addr]
  /\ UNCHANGED <<permits, tasks, arriving, spent>>

(* repeat.changed(): the flag was not set when the task looked at it.  The *)
(* other branch of the select! is dropped, with the permit it was given.   *)
TaskSeesRepeat(t) ==
  /\ t.phase = "waiting"
  /\ repeat[t.addr]
  /\ permits' = Returned({t})
  /\ Move(t, "start", FALSE)
  /\ UNCHANGED <<arriving, spent>>

TaskConnects(t) ==
  /\ t.phase = "connecting"
  /\ Move(t, "sending", t.permit)
  /\ UNCHANGED <<permits, arriving, spent>>

(* Mutant: the permit is dropped instead of forgotten. *)
ForgetDropped(t) ==
  /\ spent' = IF t.permit THEN [spent EXCEPT ![t.addr] = @ + 1] ELSE spent
  /\ permits' = Returned({t})
  /\ Move(t, "sleeping", FALSE)

(* permit.forget(), and the pause. *)
Forget(t) ==
  /\ spent' = IF t.permit THEN [spent EXCEPT ![t.addr] = @ + 1] ELSE spent
  /\ Move(t, "sleeping", FALSE)
  /\ UNCHANGED permits

TaskFails(t) ==
  /\ t.phase = "connecting"
  /\ Forget(t)
  /\ UNCHANGED arriving

TaskSends(t) ==
  /\ t.phase = "sending"
  /\ arriving < ChannelSize
  /\ arriving' = arriving + 1
  /\ Forget(t)

TaskWakes(t) ==
  /\ t.phase = "sleeping"
  /\ Move(t, "start", FALSE)
  /\ UNCHANGED <<permits, arriving, spent>>

TaskStep(t) ==
  /\ \/ TaskStarts(t) \/ TaskAcquires(t) \/ TaskTakesPermit(t) \/ TaskSeesRepeat(t)
     \/ TaskConnects(t) \/ TaskFails(t) \/ TaskSends(t) \/ TaskWakes(t)
  /\ UNCHANGED <<active, conns, addrs, repeat, tried>>

-----------------------------------------------------------------------------

InitManager ==
  /\ active = FALSE
  /\ conns = [s \in Schemes |-> 0]
  /\ addrs = {}
  /\ permits = [a \in Address |-> 0]
  /\ repeat = [a \in Address |-> FALSE]
  /\ tasks = {}
  /\ arriving = 0
  /\ tried = [a \in Address |-> 0]
  /\ spent = [a \in Address |-> 0]

NextManager ==
  \/ \E a \in Address, count \in {0, 1} : AddAddress(a, count)
  \/ \E s \in Schemes : AddConnector(s)
  \/ Start
  \/ Cancel
  \/ HandleAddLink
  \/ \E t \in tasks : TaskStep(t)

SpecManager == InitManager /\ [][NextManager]_mvars

(* tokio polls every task that can go on, and the core takes every command *)
(* from its channel in the end.  An attempt to connect may take for ever.  *)
TaskRuns(a) == \E t \in tasks : t.addr = a /\ t.phase # "connecting" /\ TaskStep(t)

FairSpec ==
  /\ SpecManager
  /\ WF_mvars(HandleAddLink)
  /\ \A a \in Address : WF_mvars(TaskRuns(a))

-----------------------------------------------------------------------------
(* Properties *)

TasksOf(a) == {t \in tasks : t.addr = a}
Held(a) == Cardinality({t \in TasksOf(a) : t.permit})

(* An active manager runs exactly one task for every address that has a    *)
(* connector, and with the connector given last ("Now there are no tasks   *)
(* for this scheme, it is safe to remake them"); once it is cancelled no   *)
(* task is left that could hand a link to the core.                        *)
OneTaskPerAddress ==
  \A a \in Address :
    IF active /\ a \in addrs /\ conns[SchemeOf(a)] # 0
    THEN /\ Cardinality(TasksOf(a)) = 1
         /\ \A t \in TasksOf(a) : t.conn = conns[SchemeOf(a)]
    ELSE TasksOf(a) = {}

(* However often attempts are cancelled and connectors replaced, a         *)
(* try_addr is used for at most one finished attempt, and none is lost     *)
(* before the cap of add_count is reached.                                 *)
TriesAccounted ==
  \A a \in Address :
    LET known == permits[a] + Held(a) + spent[a]
    IN  known <= tried[a] /\ (tried[a] <= RetriesMax => known = tried[a])

(* add_count looks at the permits that are available and not at the one in *)
(* use, so an address can collect one more than RETRIES_MAX, and no more.  *)
PermitsBounded == \A a \in Address : permits[a] + Held(a) <= RetriesMax + 1

(* Liveness.  While the manager stays active, an address with a connector  *)
(* and a permit or the repeat flag is attempted, also when the flag is set *)
(* while its task waits for a permit.                                      *)
AttemptMade ==
  \A a \in Address :
    (active /\ a \in addrs /\ conns[SchemeOf(a)] # 0 /\ (permits[a] > 0 \/ repeat[a]))
      ~> (~active \/ \E t \in TasksOf(a) : t.phase \in {"connecting", "sending"})

=============================================================================
