--------------------------- MODULE DeviceManager ---------------------------
(***************************************************************************)
(* DeviceManager and DevicesContainer (core/devices_manager.hpp and .cpp)  *)
(* with the generated KDevice::execute (scripts/templates/ks_device.cpp):  *)
(* session threads execute commands on devices that are started on demand, *)
(* in the thread of the first command, under a recursive mutex.  A device  *)
(* is started by its constructor, which gets the devices it depends on     *)
(* from the context and so may start them in turn.                         *)
(*                                                                         *)
(* execute and get test is_started without the mutex.  Nothing orders the  *)
(* stores of alloc_device for such a reader: they are seen in any order.   *)
(*                                                                         *)
(* KDevice::execute holds the device's mutex from before the arguments are *)
(* read to after the reply is written, and alloc_device prints under the   *)
(* manager's: a client that does not send or does not read keeps a mutex.  *)
(***************************************************************************)
EXTENDS Naturals, Sequences, FiniteSets, Functions

CONSTANTS Device,       \* the devices of the instrument (ids 2 and up)
          Thread,       \* session threads
          Nobody,       \* no thread, no device
          DepGraphs,    \* the constructor dependencies considered
          OpGets,       \* device -> devices its operations get from the context
          MaxCommands   \* bound: commands executed by one thread

ASSUME DeviceAssumption == IsFiniteSet(Device)
\* One dependency graph: device -> the devices its constructor gets, in order.
ASSUME DepGraphsAssumption == DepGraphs \subseteq [Device -> Seq(Device)]
ASSUME OpGetsAssumption == OpGets \in [Device -> SUBSET Device]
ASSUME NobodyAssumption == Nobody \notin Thread /\ Nobody \notin Device
ASSUME MaxCommandsAssumption == MaxCommands \in Nat

VARIABLES
  deps,           \* the dependency graph, fixed
  is_started,     \* DeviceManager::is_started: the devices marked started
  device_list,    \* devices whose KDevice pointer is set
  devtup,         \* devices whose object is set in the container
  is_starting,    \* DevicesContainer::is_starting
  exit_all,       \* KServer::exit_all
  null_refs,      \* devices constructed with a reference to a null device
  built,          \* device -> number of times its constructor has run
  mutex,          \* owner of the recursive mutex
  stack,          \* thread -> frames of alloc_device, innermost last
  dev_mutex,      \* device -> owner of its KDevice mutex
  pc,             \* thread -> where it is in DeviceManager::execute
  cmd_device,     \* thread -> the device of its command
  wanted,         \* thread -> the device its operation is getting
  blocked,        \* threads whose next socket call blocks
  commands,       \* thread -> commands begun
  proc            \* "up", or why the process crashed

stores == <<is_started, device_list, devtup>>
allocVars == <<stores, is_starting, exit_all, null_refs, built, mutex, stack>>
cmdVars == <<dev_mutex, pc, cmd_device, wanted, commands>>
dmVars == <<deps, allocVars, cmdVars, blocked, proc>>

DMInit ==
  /\ deps \in DepGraphs
  /\ is_started = {} /\ device_list = {} /\ devtup = {} /\ is_starting = {}
  /\ exit_all = FALSE
  /\ null_refs = {}
  /\ built = [d \in Device |-> 0]
  /\ mutex = Nobody
  /\ stack = [t \in Thread |-> << >>]
  /\ dev_mutex = [d \in Device |-> Nobody]
  /\ pc = [t \in Thread |-> "idle"]
  /\ cmd_device = [t \in Thread |-> Nobody]
  /\ wanted = [t \in Thread |-> Nobody]
  /\ blocked = {}
  /\ commands = [t \in Thread |-> 0]
  /\ proc = "up"
-----------------------------------------------------------------------------
(***************************************************************************)
(* alloc_device, as the frames of a thread's call stack: the device, the   *)
(* dependencies its constructor has not got yet and, once the constructor  *)
(* has returned, the stores other threads do not see yet.                  *)
(***************************************************************************)
AllStores == {"devtup", "device_list", "is_started"}
Frame(d) == [dev |-> d, todo |-> deps[d], unseen |-> AllStores]

Top(t) == stack[t][Len(stack[t])]

\* Mutant of MayLock: no lock_guard in alloc_device.
MayLockAlways(t) == TRUE

\* Mutant of MayLock: the mutex is not recursive.
MayLockOnce(t) == mutex = Nobody

\* The recursive mutex is free or already owned by t.
MayLock(t) == mutex \in {Nobody, t}

\* DevicesContainer::alloc finds d under construction, further up the stack.
Circular(d) == d \in is_starting

\* alloc_device(d), called by t, whose frames are rest once the call has
\* returned: it returns at once when d is started; it stops the server when d
\* is being started, and the caller, a constructor, keeps a reference to
\* nothing; else it runs the constructor of d.
AllocWith(t, d, rest, stops) ==
  /\ MayLock(t)
  /\ \/ /\ d \in is_started
        /\ stack' = [stack EXCEPT ![t] = rest]
        /\ UNCHANGED <<is_starting, exit_all, null_refs>>
     \/ /\ d \notin is_started /\ Circular(d)
        /\ stack' = [stack EXCEPT ![t] = rest]
        /\ exit_all' = (exit_all \/ stops)
        /\ null_refs' = (IF rest = << >> THEN {} ELSE {Top(t).dev}) \cup null_refs
        /\ UNCHANGED is_starting
     \/ /\ d \notin is_started /\ ~Circular(d)
        /\ stack' = [stack EXCEPT ![t] = Append(rest, Frame(d))]
        /\ is_starting' = is_starting \cup {d}
        /\ UNCHANGED <<exit_all, null_refs>>
  /\ mutex' = IF stack'[t] = << >> THEN Nobody ELSE t
  /\ UNCHANGED <<stores, built>>

\* Mutant of alloc_device: the circular dependency is only logged.
alloc_device_goes_on(t, d, rest) == AllocWith(t, d, rest, FALSE)

alloc_device(t, d, rest) == AllocWith(t, d, rest, TRUE)

\* The constructor on top gets its next dependency (DeviceManager::get), once
\* the print that announces the device has returned.
CtorGets(t) ==
  /\ proc = "up" /\ t \notin blocked /\ stack[t] # << >> /\ Top(t).todo # << >>
  /\ alloc_device(t, Head(Top(t).todo),
                  [stack[t] EXCEPT ![Len(stack[t])].todo = Tail(@)])
  /\ UNCHANGED <<deps, cmdVars, blocked, proc>>

\* The constructor on top has all its dependencies and returns.
CtorReturns(t) ==
  /\ proc = "up" /\ t \notin blocked /\ stack[t] # << >>
  /\ Top(t).todo = << >> /\ Top(t).dev \in is_starting
  /\ is_starting' = is_starting \ {Top(t).dev}
  /\ built' = [built EXCEPT ![Top(t).dev] = @ + 1]
  /\ UNCHANGED <<deps, stores, exit_all, null_refs, mutex, stack, cmdVars, blocked, proc>>

\* One of the stores at the end of alloc_device reaches the other threads.
StoreSeen(t, s) ==
  /\ proc = "up" /\ stack[t] # << >>
  /\ Top(t).todo = << >> /\ Top(t).dev \notin is_starting /\ s \in Top(t).unseen
  /\ stack' = [stack EXCEPT ![t][Len(stack[t])].unseen = @ \ {s}]
  /\ devtup' = IF s = "devtup" THEN devtup \cup {Top(t).dev} ELSE devtup
  /\ device_list' = IF s = "device_list" THEN device_list \cup {Top(t).dev} ELSE device_list
  /\ is_started' = IF s = "is_started" THEN is_started \cup {Top(t).dev} ELSE is_started
  /\ UNCHANGED <<deps, is_starting, exit_all, null_refs, built, mutex, cmdVars, blocked, proc>>

\* alloc_device returns with the stores of left forgotten; unlocking the mutex
\* makes the others visible.
ReturnLeaving(t, left) ==
  /\ proc = "up" /\ stack[t] # << >> /\ Top(t).unseen = left
  /\ stack' = [stack EXCEPT ![t] = SubSeq(@, 1, Len(@) - 1)]
  /\ mutex' = IF Len(stack[t]) = 1 THEN Nobody ELSE t
  /\ UNCHANGED <<deps, stores, is_starting, exit_all, null_refs, built, cmdVars, blocked, proc>>

\* Mutant of AllocReturns: device_list is not filled in.
AllocReturnsEarly(t) == ReturnLeaving(t, {"device_list"})

AllocReturns(t) == ReturnLeaving(t, {})

\* A constructor that uses the reference to nothing it was given.
CtorUsesNull(t) ==
  /\ proc = "up" /\ stack[t] # << >> /\ Top(t).dev \in null_refs
  /\ proc' = "null_ref"
  /\ UNCHANGED <<deps, allocVars, cmdVars, blocked>>
-----------------------------------------------------------------------------
(***************************************************************************)
(* DeviceManager::execute of one command.                                  *)
(***************************************************************************)
At(t, from, to) ==
  /\ proc = "up" /\ pc[t] = from /\ stack[t] = << >>
  /\ pc' = [pc EXCEPT ![t] = to]

\* The test of is_started without the mutex.
execute(t, d) ==
  /\ At(t, "idle", IF d \in is_started THEN "execute_dev" ELSE "start")
  /\ commands[t] < MaxCommands
  /\ commands' = [commands EXCEPT ![t] = @ + 1]
  /\ cmd_device' = [cmd_device EXCEPT ![t] = d]
  /\ UNCHANGED <<deps, allocVars, dev_mutex, wanted, blocked, proc>>

\* start: the lock and the second test, then the constructor.
start(t) ==
  /\ At(t, "start", "execute_dev")
  /\ alloc_device(t, cmd_device[t], << >>)
  /\ UNCHANGED <<deps, dev_mutex, cmd_device, wanted, commands, blocked, proc>>

\* A socket call of t blocks, or can go on: its client sends nothing or does
\* not read, or a subscriber of the log that t prints to does not read.
SocketOf(t) ==
  /\ proc = "up"
  /\ blocked' = IF t \in blocked THEN blocked \ {t} ELSE blocked \cup {t}
  /\ UNCHANGED <<deps, allocVars, cmdVars, proc>>

\* execute_dev with a pointer that is set: KDevice::execute takes its mutex.
execute_dev(t) ==
  /\ At(t, "execute_dev", "args")
  /\ cmd_device[t] \in device_list /\ dev_mutex[cmd_device[t]] = Nobody
  /\ dev_mutex' = [dev_mutex EXCEPT ![cmd_device[t]] = t]
  /\ UNCHANGED <<deps, allocVars, cmd_device, wanted, commands, blocked, proc>>

\* dev_abs->kind of a pointer that is not visible yet.
execute_dev_null(t) ==
  /\ At(t, "execute_dev", "execute_dev")
  /\ cmd_device[t] \notin device_list
  /\ proc' = "null_device"
  /\ UNCHANGED <<deps, allocVars, dev_mutex, cmd_device, wanted, commands, blocked>>

\* execute_op reads the arguments, with the mutex held.
ReadArgs(t) ==
  /\ At(t, "args", "operation") /\ t \notin blocked
  /\ UNCHANGED <<deps, allocVars, dev_mutex, cmd_device, wanted, commands, blocked, proc>>

\* The operation gets a device from the context: is_started is tested
\* without the mutex here too.
OpGet(t, e) ==
  /\ At(t, "operation", IF e \in is_started THEN "use" ELSE "op_start")
  /\ e \in OpGets[cmd_device[t]] /\ wanted[t] # e
  /\ wanted' = [wanted EXCEPT ![t] = e]
  /\ UNCHANGED <<deps, allocVars, dev_mutex, cmd_device, commands, blocked, proc>>

OpStart(t) ==
  /\ At(t, "op_start", "use")
  /\ alloc_device(t, wanted[t], << >>)
  /\ UNCHANGED <<deps, dev_mutex, cmd_device, wanted, commands, blocked, proc>>

\* dev_cont.get dereferences the container's pointer.
OpUses(t) ==
  /\ At(t, "use", "operation")
  /\ proc' = IF wanted[t] \in devtup THEN proc ELSE "null_device"
  /\ UNCHANGED <<deps, allocVars, dev_mutex, cmd_device, wanted, commands, blocked>>

\* The operation uses the reference to nothing its device was built with.
OpUsesNull(t) ==
  /\ At(t, "operation", "operation")
  /\ cmd_device[t] \in null_refs
  /\ proc' = "null_ref"
  /\ UNCHANGED <<deps, allocVars, dev_mutex, cmd_device, wanted, commands, blocked>>

\* execute returns from place at, and the lock_guard lets the mutex go.
ReturnFrom(t, at) ==
  /\ At(t, at, "idle") /\ t \notin blocked
  /\ dev_mutex' = [dev_mutex EXCEPT ![cmd_device[t]] = Nobody]
  /\ cmd_device' = [cmd_device EXCEPT ![t] = Nobody]
  /\ wanted' = [wanted EXCEPT ![t] = Nobody]
  /\ UNCHANGED <<deps, allocVars, commands, blocked, proc>>

\* The arguments cannot be read: the client left.
ArgsFail(t) == ReturnFrom(t, "args")

\* The operation is done and its reply, if any, written.
OpReturns(t) == ReturnFrom(t, "operation")

\* The steps a thread takes by itself once it has read a command.
ThreadStep(t) ==
  \/ CtorGets(t) \/ CtorReturns(t) \/ \E s \in AllStores : StoreSeen(t, s)
  \/ AllocReturns(t)
  \/ start(t) \/ execute_dev(t) \/ execute_dev_null(t) \/ ReadArgs(t) \/ ArgsFail(t)
  \/ OpStart(t) \/ OpUses(t) \/ OpReturns(t)

Ended ==
  /\ proc # "up" \/ \A t \in Thread : pc[t] = "idle" /\ commands[t] = MaxCommands
  /\ UNCHANGED dmVars

DMNext ==
  \/ \E t \in Thread :
       \/ ThreadStep(t) \/ CtorUsesNull(t) \/ OpUsesNull(t) \/ SocketOf(t)
       \/ \E d \in Device : execute(t, d) \/ OpGet(t, d)
  \/ Ended

\* Every thread that is blocked neither on a mutex nor on a socket is
\* scheduled.  Nothing obliges a client to send or to read.
DMSpec == DMInit /\ [][DMNext]_dmVars /\ \A t \in Thread : WF_dmVars(ThreadStep(t))
-----------------------------------------------------------------------------
\* The devices the constructor of d reaches, d excluded unless on a cycle.
Reaches(d) ==
  LET Next(S) == S \cup UNION {Range(deps[e]) : e \in S}
      steps[n \in 0..Cardinality(Device)] ==
        IF n = 0 THEN Range(deps[d]) ELSE Next(steps[n - 1])
  IN  steps[Cardinality(Device)]

OnCycle(d) == d \in Reaches(d)

\* The server is stopped for a circular dependency when, and only when, a
\* constructor on a dependency cycle has been run: two threads starting the
\* same device at once are not taken for one, a real one is never missed.
CircularExact ==
  /\ exit_all => \E d \in Device : OnCycle(d) /\ d \in is_starting \cup is_started \cup null_refs
  /\ \A d \in Device : OnCycle(d) /\ built[d] > 0 => exit_all

\* No two threads start a device and none starts it again: a driver's
\* constructor initialises hardware and must run once.  It is only given
\* references to devices fully constructed, unless the server is being
\* stopped for a circular dependency.
ConstructedOnceInOrder ==
  \A d \in Device :
    /\ built[d] <= 1
    /\ ~exit_all /\ built[d] > 0 => \A e \in Range(deps[d]) : built[e] > 0

\* The device a thread is about to use.
Target(t) == IF pc[t] = "execute_dev" THEN cmd_device[t] ELSE wanted[t]

\* A thread that has taken the mutex to start its device finds it: a null
\* device is only met by a thread whose unlocked test ran during the last
\* stores of another thread's alloc_device of that device.
NullOnlyDuringStores ==
  [][proc' = "null_device" /\ proc = "up"
       => \E t, u \in Thread :
            /\ pc[u] \in {"execute_dev", "use"} /\ stack[t] # << >>
            /\ Top(t).dev = Target(u) /\ Top(t).todo = << >> /\ Top(t).unseen # {}]_dmVars

\* Every command returns in the end, whatever devices the others start: no
\* thread waits for the mutex of the manager or of a device forever, provided
\* every client sends the arguments of its command, or leaves, and reads what
\* it is sent.  One that does neither keeps a device, or all of them, to
\* itself.
CommandsReturn ==
  <>[](blocked = {}) => \A t \in Thread : pc[t] # "idle" ~> pc[t] = "idle" \/ proc # "up"
=============================================================================
