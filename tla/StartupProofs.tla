---------------------------- MODULE StartupProofs ----------------------------
(***************************************************************************)
(* Proofs about Startup, for every set of fields and any number of         *)
(* options, descriptors and clients.                                       *)
(*                                                                         *)
(* The output: a daemon opens the log and its listeners one after another  *)
(* on the lowest descriptors, closes none of them while it runs, and       *)
(* accepts clients later; so a client has a higher descriptor than any of  *)
(* them.                                                                   *)
(*                                                                         *)
(* The configuration: a field sets the one setting it is about, so the     *)
(* last field about a setting gives it its value, whatever came between.   *)
(*                                                                         *)
(* The listeners: init opens one for each channel that has workers, bound  *)
(* where the configuration says, and run lets one listen only if no other  *)
(* listens on its port.                                                    *)
(***************************************************************************)
EXTENDS Startup, SequenceTheorems, FiniteSetTheorems, WellFoundedInduction, TLAPS

\* A nonempty set of naturals has a least element.
LEMMA LeastNat ==
  ASSUME NEW S \in SUBSET Nat, S # {}
  PROVE  \E m \in S : \A n \in S : m <= n
<1> DEFINE R == {ss \in Nat \X Nat : ss[1] < ss[2]}
<1>1. IsWellFoundedOn(R, Nat)
  BY NatLessThanWellFounded, Zenon DEF OpToRel
<1>2. PICK m \in S : \A n \in S : ~(<<n, m>> \in R)
  <2> HIDE DEF R
  <2> QED BY <1>1, WFMin, Zenon
<1>3. \A n \in S : ~(n < m)
  BY <1>2
<1> QED BY <1>3

\* The stages, in order: the child has been forked at the first of Running.
Reading == {"options", "file", "daemon"}
Running == {"syslog", "signals", "devices", "init", "start", "serving"}

\* Who started the server has no status, or that of a daemon's parent.
LauncherWaits ==
  /\ stage[1] \in Reading => launcher = "none"
  /\ stage[1] = "child" => config.daemon
  /\ stage[1] \in Running => launcher = "none" \/ config.daemon

Table == 0 .. MaxFd

\* What a descriptor is open on as long as the server runs.
Kept == {"syslog", "TCP", "WEBSOCK", "UNIX"}
KeptFds == {fd \in Table : fds[fd] \in Kept}

\* The descriptors the process was started with are those of its messages
\* until a daemon closes them.
TerminalFds ==
  /\ stage[1] \in Reading \cup {"child"} =>
       \A fd \in Table : fds[fd] = IF fd <= 2 THEN "terminal" ELSE "free"
  /\ stage[1] \in Running /\ ~config.daemon => \A fd \in 0 .. 2 : fds[fd] = "terminal"

\* What a daemon keeps open is on the lowest descriptors, and has all of them
\* before it serves.
DaemonFds ==
  config.daemon /\ stage[1] \in Running =>
    /\ \A fd \in KeptFds : \A g \in 0 .. fd : g \in KeptFds
    /\ \A fd \in Table : fds[fd] \in Kept \cup {"free", "client", "notify"}
    /\ stage[1] # "serving" => \A fd \in Table : fds[fd] \in Kept \cup {"free"}

FdTypes ==
  /\ fds \in [Table -> Kept \cup {"terminal", "free", "client", "notify"}]
  /\ stage[1] = "exited" => \A fd \in Table : fds[fd] = "free"
  /\ stage[1] # "serving" => \A fd \in Table : fds[fd] # "client"
  /\ stage[1] \in Reading \cup Running \cup {"child", "exited"}
  /\ stage[1] = "init" => stage[2] \in 1 .. 3

STInv == LauncherWaits /\ FdTypes /\ TerminalFds /\ DaemonFds
-----------------------------------------------------------------------------
(* The status and the descriptors are kept. *)

\* The state main starts in.
LEMMA InitSTInv == STInit => STInv
BY StartupAssumption DEF STInit, STInv, LauncherWaits, FdTypes, TerminalFds, DaemonFds,
   Reading, Running, Table, KeptFds, Kept

\* open, socket and accept return the lowest descriptor that is free.
LEMMA LowestFree ==
  ASSUME FdTypes, HasFree
  PROVE  /\ Lowest(fds) \in Table /\ fds[Lowest(fds)] = "free"
         /\ \A g \in 0 .. Lowest(fds) - 1 : g \in Table /\ fds[g] # "free"
<1> DEFINE S == {fd \in Table : fds[fd] = "free"}
<1>1. S \in SUBSET Nat /\ S # {}
  BY StartupAssumption DEF HasFree, Table
<1>2. PICK m \in S : \A n \in S : m <= n
  <2> HIDE DEF S
  <2> QED BY <1>1, LeastNat
<1>3. m \in 0 .. MaxFd /\ fds[m] = "free" /\ \A g \in 0 .. m - 1 : fds[g] # "free"
  BY <1>2, StartupAssumption DEF Table
<1>4. \E fd \in 0 .. MaxFd : fds[fd] = "free" /\ \A g \in 0 .. fd - 1 : fds[g] # "free"
  BY <1>3
<1>5. /\ Lowest(fds) \in 0 .. MaxFd /\ fds[Lowest(fds)] = "free"
      /\ \A g \in 0 .. Lowest(fds) - 1 : fds[g] # "free"
  BY <1>4 DEF Lowest
<1> QED BY <1>5, StartupAssumption DEF Table

\* A descriptor opened in the constructor, or for a client or a notification.
LEMMA OpensKeeps ==
  ASSUME STInv, NEW what \in Kept \cup {"client", "notify"}, Opens(what),
         stage[1] \in Running, stage'[1] \in Running,
         what \notin Kept => stage[1] = "serving",
         stage[1] = "serving" => what \notin Kept /\ stage'[1] = "serving",
         stage'[1] = "init" => stage'[2] \in 1 .. 3,
         config' = config, launcher' = launcher
  PROVE  STInv'
<1> DEFINE n == Lowest(fds)
<1>0. LauncherWaits /\ FdTypes /\ TerminalFds /\ DaemonFds
  BY DEF STInv
<1>1. /\ n \in Table /\ fds[n] = "free" /\ fds' = [fds EXCEPT ![n] = what]
      /\ \A g \in 0 .. n - 1 : g \in Table /\ fds[g] # "free"
  BY <1>0, LowestFree DEF Opens
<1> HIDE DEF n
<1>2. \A fd \in Table : fds'[fd] = IF fd = n THEN what ELSE fds[fd]
  BY <1>0, <1>1 DEF FdTypes
<1>3. LauncherWaits'
  BY <1>0 DEF LauncherWaits, Reading, Running
<1>4. FdTypes'
  BY <1>0, <1>1, <1>2 DEF FdTypes, Reading, Running, Kept
<1>5. TerminalFds'
  <2>1. \A fd \in 0 .. 2 : fd \in Table
    BY StartupAssumption DEF Table
  <2> QED BY <1>0, <1>1, <1>2, <2>1 DEF TerminalFds, Reading, Running
<1>6. DaemonFds'
  <2> SUFFICES ASSUME config.daemon
               PROVE  /\ \A fd \in KeptFds' : \A g \in 0 .. fd : g \in KeptFds'
                      /\ \A fd \in Table : fds'[fd] \in Kept \cup {"free", "client", "notify"}
                      /\ stage'[1] # "serving" =>
                           \A fd \in Table : fds'[fd] \in Kept \cup {"free"}
    BY DEF DaemonFds, Table
  <2>1. /\ \A fd \in KeptFds : \A g \in 0 .. fd : g \in KeptFds
        /\ \A fd \in Table : fds[fd] \in Kept \cup {"free", "client", "notify"}
        /\ stage[1] # "serving" => \A fd \in Table : fds[fd] \in Kept \cup {"free"}
    BY <1>0 DEF DaemonFds
  <2>2. CASE what \in Kept
    <3>1. KeptFds' = KeptFds \cup {n}
      BY <1>1, <1>2, <2>2 DEF KeptFds, Table
    <3>2. \A g \in 0 .. n - 1 : g \in KeptFds
      BY <1>1, <2>1, <2>2 DEF KeptFds
    <3>3. \A g \in 0 .. n : g = n \/ g \in 0 .. n - 1
      BY <1>1, StartupAssumption DEF Table
    <3> QED BY <1>2, <2>1, <2>2, <3>1, <3>2, <3>3
  <2>3. CASE what \notin Kept
    <3>1. KeptFds' = KeptFds
      BY <1>1, <1>2, <2>3 DEF KeptFds, Table, Kept
    <3> QED BY <1>2, <2>1, <2>3, <3>1
  <2> QED BY <2>2, <2>3
<1> QED BY <1>3, <1>4, <1>5, <1>6 DEF STInv

\* exit closes every descriptor.
LEMMA ExitKeeps ==
  ASSUME STInv, NEW status, ExitsWith(status)
  PROVE  STInv'
<1>1. stage' = <<"exited", 0>> /\ fds' = [fd \in Table |-> "free"]
  BY DEF ExitsWith, Go, Table
<1> QED BY <1>1 DEF STInv, LauncherWaits, FdTypes, TerminalFds, DaemonFds, Reading, Running, Kept

\* main goes on with the same descriptors.
LEMMA GoKeeps ==
  ASSUME STInv, UNCHANGED <<fds, launcher>>,
         \/ /\ stage[1] \in Reading /\ stage'[1] \in Reading
         \/ /\ stage[1] \in Reading /\ stage'[1] = "syslog" /\ ~config.daemon
            /\ config' = config
         \/ /\ stage[1] \in Running /\ stage'[1] \in Running /\ config' = config
            /\ stage[1] = "serving" => stage'[1] = "serving",
         stage'[1] = "init" => stage'[2] \in 1 .. 3
  PROVE  STInv'
<1>0. LauncherWaits /\ FdTypes /\ TerminalFds /\ DaemonFds
  BY DEF STInv
<1>1. LauncherWaits'
  BY <1>0 DEF LauncherWaits, Reading, Running
<1>2. FdTypes'
  BY <1>0 DEF FdTypes, Reading, Running
<1>3. \A fd \in 0 .. 2 : fd \in Table
  BY StartupAssumption DEF Table
<1>4. TerminalFds'
  BY <1>0, <1>3 DEF TerminalFds, Reading, Running
<1>5. DaemonFds'
  BY <1>0 DEF DaemonFds, Reading, Running, KeptFds
<1> QED BY <1>1, <1>2, <1>4, <1>5 DEF STInv

\* From one channel to the next, or on to the next stage.
LEMMA NextChannel ==
  ASSUME STInv, NEW name, NEW next, stage[1] = name, NEW n \in 1 .. 3, Next_channel(name, n, next)
  PROVE  stage'[1] \in {name, next} /\ stage'[2] \in 1 .. 3
BY DEF Next_channel, Go

\* A client or the notification is closed.
LEMMA CloseKeeps ==
  ASSUME STInv, NEW S, stage[1] = "serving", stage'[1] = "serving",
         UNCHANGED <<config, launcher>>,
         \A fd \in S : fds[fd] \in {"client", "notify"},
         fds' = [fd \in Table |-> IF fd \in S THEN "free" ELSE fds[fd]]
  PROVE  STInv'
<1>0. LauncherWaits /\ FdTypes /\ TerminalFds /\ DaemonFds
  BY DEF STInv
<1>1. LauncherWaits' /\ FdTypes'
  BY <1>0 DEF LauncherWaits, FdTypes, Reading, Running, Kept
<1>2. \A fd \in 0 .. 2 : fd \in Table
  BY StartupAssumption DEF Table
<1>3. TerminalFds'
  BY <1>0, <1>2 DEF TerminalFds, Reading, Running
<1>4. KeptFds' = KeptFds
  BY DEF KeptFds, Kept
<1>5. DaemonFds'
  BY <1>0, <1>4 DEF DaemonFds, Reading, Running, Kept
<1> QED BY <1>1, <1>3, <1>5 DEF STInv

\* Every step keeps the status and the descriptors right.
LEMMA NextKeepsInv ==
  ASSUME STInv, [STNext]_vars
  PROVE  STInv'
<1>0. LauncherWaits /\ FdTypes /\ TerminalFds /\ DaemonFds
  BY DEF STInv
<1>1. CASE UNCHANGED vars
  BY <1>0, <1>1 DEF vars, STInv, LauncherWaits, FdTypes, TerminalFds, DaemonFds, KeptFds
<1>2. CASE option_help \/ option_unknown \/ load_file_fails \/ fork_fails
           \/ daemonize_fails \/ constructor_fails \/ init_fails
           \/ create_unix_listening_overflows \/ start_worker_fails
  <2>1. PICK status : ExitsWith(status)
    BY <1>2 DEF option_help, option_unknown, load_file_fails, fork_fails, daemonize_fails,
       constructor_fails, init_fails, create_unix_listening_overflows, start_worker_fails
  <2> QED BY <2>1, ExitKeeps
<1>3. CASE option_verbose \/ option_config \/ load_file_ends \/ options_end
  <2>1. /\ stage[1] \in Reading /\ stage'[1] \in Reading /\ UNCHANGED <<fds, launcher>>
    BY <1>3 DEF option_verbose, option_config, load_file_ends, options_end, At, Go, Reading
  <2>2. stage'[1] # "init"
    BY <2>1 DEF Reading
  <2> QED BY <2>1, <2>2, GoKeeps
<1>4. ASSUME NEW f \in Fields, load_file_field(f)
      PROVE  STInv'
  <2>1. CASE ExitsWith("FAILURE")
    BY <2>1, ExitKeeps
  <2>2. CASE ~ExitsWith("FAILURE")
    <3>1. /\ stage[1] \in Reading /\ stage'[1] \in Reading /\ UNCHANGED <<fds, launcher>>
          /\ stage'[1] # "init"
      BY <1>4, <2>2 DEF load_file_field, At, Go, Reading
    <3> QED BY <3>1, GoKeeps
  <2> QED BY <2>1, <2>2
<1>5. CASE stay_in_foreground
  <2>1. /\ stage[1] \in Reading /\ stage'[1] = "syslog" /\ ~config.daemon
        /\ UNCHANGED <<config, fds, launcher>>
    BY <1>5 DEF stay_in_foreground, RunsAsDaemon, At, Go, Reading
  <2> QED BY <2>1, GoKeeps
<1>6. CASE fork
  <2>1. /\ stage[1] = "daemon" /\ stage'[1] = "child" /\ config.daemon
        /\ config' = config /\ fds' = fds
    BY <1>6 DEF fork, RunsAsDaemon, At, Go
  <2> QED BY <1>0, <2>1 DEF STInv, LauncherWaits, FdTypes, TerminalFds, DaemonFds, Reading, Running
<1>7. CASE daemonize
  <2>1. /\ stage[1] = "child" /\ stage'[1] = "syslog" /\ config.daemon /\ config' = config
        /\ fds' = [fd \in Table |-> IF fd <= 2 THEN "free" ELSE fds[fd]]
    BY <1>0, <1>7 DEF daemonize, LauncherWaits, At, Go, Table
  <2>2. \A fd \in Table : fds'[fd] = "free"
    BY <1>0, <2>1 DEF TerminalFds
  <2> QED BY <2>1, <2>2
          DEF STInv, LauncherWaits, FdTypes, TerminalFds, DaemonFds, KeptFds, Kept, Reading, Running
<1>8. CASE open_syslog
  <2>1. /\ stage[1] = "syslog" /\ stage'[1] = "signals" /\ UNCHANGED <<config, launcher>>
        /\ Opens("syslog") \/ UNCHANGED fds
    BY <1>8 DEF open_syslog, At, Go
  <2>2. stage[1] \in Running /\ stage'[1] \in Running /\ "syslog" \in Kept
    BY <2>1 DEF Running, Kept
  <2> QED BY <2>1, <2>2, OpensKeeps, GoKeeps
<1>9. CASE init_signals \/ init_devices
  <2>1. /\ stage[1] \in Running \ {"serving"} /\ stage'[1] \in Running
        /\ UNCHANGED <<config, fds, launcher>>
        /\ stage'[1] = "init" => stage'[2] \in 1 .. 3
    BY <1>9 DEF init_signals, init_devices, At, Go, Running
  <2> QED BY <2>1, GoKeeps
<1>10. CASE init_disabled
  <2>1. /\ stage[1] = "init" /\ stage[2] \in 1 .. 3 /\ UNCHANGED <<config, fds, launcher>>
        /\ Next_channel("init", stage[2], "start")
    BY <1>0, <1>10 DEF init_disabled, At, FdTypes
  <2>2. stage'[1] \in {"init", "start"} /\ stage'[2] \in 1 .. 3
    BY <2>1, NextChannel
  <2>3. stage[1] \in Running /\ stage'[1] \in Running /\ stage[1] # "serving"
    BY <2>1, <2>2 DEF Running
  <2> QED BY <2>1, <2>2, <2>3, GoKeeps
<1>11. CASE init_binds
  <2>1. /\ stage[1] = "init" /\ stage[2] \in 1 .. 3 /\ UNCHANGED <<config, launcher>>
        /\ Opens(Order[stage[2]]) /\ Next_channel("init", stage[2], "start")
    BY <1>0, <1>11 DEF init_binds, At, FdTypes
  <2>2. stage'[1] \in {"init", "start"} /\ stage'[2] \in 1 .. 3
    BY <2>1, NextChannel
  <2>3. PICK what \in Kept : what = Order[stage[2]]
    BY <2>1 DEF Order, Kept
  <2>4. stage[1] \in Running /\ stage'[1] \in Running /\ stage[1] # "serving"
    BY <2>1, <2>2 DEF Running
  <2> QED BY <2>1, <2>2, <2>3, <2>4, OpensKeeps
<1>12. CASE start_worker
  <2>1. /\ stage[1] = "start" /\ UNCHANGED <<config, fds, launcher>>
        /\ Next_channel("start", stage[2], "serving")
    BY <1>12 DEF start_worker, At
  <2>2. stage'[1] \in {"start", "serving"}
    BY <2>1 DEF Next_channel, Go
  <2>3. stage[1] \in Running /\ stage'[1] \in Running /\ stage[1] # "serving" /\ stage'[1] # "init"
    BY <2>1, <2>2 DEF Running
  <2> QED BY <2>1, <2>3, GoKeeps
<1>13. CASE notify_open
  <2>1. /\ stage[1] = "serving" /\ stage'[1] = "serving" /\ UNCHANGED <<config, launcher>>
        /\ Opens("notify")
    BY <1>13 DEF notify_open, Go
  <2> QED BY <2>1, OpensKeeps DEF Running, Kept
<1>14. CASE open_communication
  <2>1. /\ stage[1] = "serving" /\ stage'[1] = "serving" /\ UNCHANGED <<config, launcher>>
        /\ Opens("client")
    BY <1>14 DEF open_communication, At
  <2> QED BY <2>1, OpensKeeps DEF Running, Kept
<1>15. CASE notify_close
  <2>1. /\ stage[1] = "serving" /\ stage'[1] = "serving" /\ UNCHANGED <<config, launcher>>
        /\ fds' = [fd \in Table |-> IF fds[fd] = "notify" THEN "free" ELSE fds[fd]]
    BY <1>15 DEF notify_close, Go, Table
  <2> DEFINE S == {fd \in Table : fds[fd] = "notify"}
  <2>2. fds' = [fd \in Table |-> IF fd \in S THEN "free" ELSE fds[fd]]
    BY <2>1
  <2> QED BY <2>1, <2>2, CloseKeeps
<1>16. ASSUME NEW fd \in Table, client_closes(fd)
       PROVE  STInv'
  <2>1. /\ stage[1] = "serving" /\ stage'[1] = "serving" /\ UNCHANGED <<config, launcher>>
        /\ fds[fd] = "client" /\ fds' = [fds EXCEPT ![fd] = "free"]
    BY <1>16 DEF client_closes, At
  <2>2. fds' = [g \in Table |-> IF g \in {fd} THEN "free" ELSE fds[g]]
    BY <1>0, <2>1 DEF FdTypes
  <2> QED BY <2>1, <2>2, CloseKeeps
<1> QED BY <1>1, <1>2, <1>3, <1>4, <1>5, <1>6, <1>7, <1>8, <1>9, <1>10, <1>11, <1>12, <1>13,
           <1>14, <1>15, <1>16 DEF STNext, Table
-----------------------------------------------------------------------------
(* What follows from them. *)

\* Startup keeps the invariant on the launcher's status and the descriptors.
THEOREM STInvariance == STSpec => []STInv
<1>1. STInv /\ [STNext]_vars => STInv'
  BY NextKeepsInv
<1> QED BY <1>1, InitSTInv, PTL DEF STSpec

\* Whoever starts the server hears of a start that failed, but for the
\* exceptions of main: a daemon's parent has exited before (main.cpp:94), a
\* listen that fails is not looked at (:131).
THEOREM STFailureReported == STSpec => FailureReported
<1>1. STInv /\ [STNext]_vars =>
        [stage[1] # "exited" /\ stage'[1] = "exited" =>
           \/ launcher' \in {"FAILURE", "ABORT"}
           \/ config.daemon
           \/ stage[1] \in {"start", "options"}]_vars
  <2> SUFFICES ASSUME STInv, STNext, stage[1] # "exited", stage'[1] = "exited"
               PROVE  \/ launcher' \in {"FAILURE", "ABORT"}
                      \/ config.daemon
                      \/ stage[1] \in {"start", "options"}
    BY DEF vars
  <2>1. launcher = "none" \/ config.daemon
    BY DEF STInv, LauncherWaits, FdTypes
  <2>2. ASSUME NEW status \in {"FAILURE", "ABORT"}, ExitsWith(status)
        PROVE  launcher' \in {"FAILURE", "ABORT"} \/ config.daemon
    BY <2>1, <2>2 DEF ExitsWith
  <2>3. CASE option_help \/ start_worker_fails
    BY <2>3 DEF option_help, start_worker_fails, At
  <2>4. CASE option_unknown \/ load_file_fails \/ fork_fails \/ daemonize_fails
             \/ constructor_fails \/ init_fails
    BY <2>2, <2>4 DEF option_unknown, load_file_fails, fork_fails, daemonize_fails,
       constructor_fails, init_fails
  <2>5. CASE create_unix_listening_overflows
    BY <2>2, <2>5 DEF create_unix_listening_overflows
  <2>6. ASSUME NEW f \in Fields, load_file_field(f)
        PROVE  ExitsWith("FAILURE")
    BY <2>6 DEF load_file_field, Go
  <2>7. CASE option_verbose \/ option_config \/ load_file_ends \/ options_end
             \/ stay_in_foreground \/ fork \/ daemonize \/ open_syslog
             \/ init_signals \/ init_devices \/ notify_open \/ notify_close
             \/ open_communication \/ \E fd \in 0 .. MaxFd : client_closes(fd)
    BY <2>7 DEF option_verbose, option_config, load_file_ends, options_end,
       stay_in_foreground, fork, daemonize, open_syslog, init_signals, init_devices,
       notify_open, notify_close, open_communication, client_closes, Go
  <2>8. CASE init_disabled \/ init_binds \/ start_worker
    BY <2>8 DEF init_disabled, init_binds, start_worker, Next_channel, Go
  <2> QED BY <2>2, <2>3, <2>4, <2>5, <2>6, <2>7, <2>8 DEF STNext
<1> QED BY <1>1, STInvariance, PTL DEF STSpec, FailureReported

\* The listeners are open, each on a descriptor of its own.
LEMMA ListenersOpen ==
  ASSUME STInv, stage[1] = "serving"
  PROVE  LET L == {fd \in KeptFds : fds[fd] # "syslog"}
         IN  /\ IsFiniteSet(L) /\ IsFiniteSet(Listening)
             /\ Cardinality(Listening) <= Cardinality(L)
<1> DEFINE L == {fd \in KeptFds : fds[fd] # "syslog"}
<1>1. IsFiniteSet(L)
  <2>1. IsFiniteSet(Table)
    <3>1. 0 \in Int /\ MaxFd \in Int
      BY StartupAssumption
    <3> QED BY <3>1, FS_Interval DEF Table
  <2>2. L \in SUBSET Table
    BY DEF KeptFds
  <2> HIDE DEF L
  <2> QED BY <2>1, <2>2, FS_Subset
<1>2. \A c \in Listening : c \in {"TCP", "WEBSOCK", "UNIX"} /\ \E fd \in Table : fds[fd] = c
  BY DEF Listening, Started, At, Order, Opened, Table
<1> DEFINE f == [c \in Listening |-> CHOOSE fd \in Table : fds[fd] = c]
<1>3. \A c \in Listening : f[c] \in Table /\ fds[f[c]] = c
  BY <1>2
<1>4. \A c \in Listening : f[c] \in L
  BY <1>2, <1>3 DEF KeptFds, Kept
<1>5. f \in [Listening -> L]
  BY <1>4
<1> HIDE DEF f, L
<1>6. f \in Injection(Listening, L)
  BY <1>3, <1>5 DEF Injection, IsInjective
<1>7. IsFiniteSet(Listening) /\ Cardinality(Listening) <= Cardinality(L)
  BY <1>1, <1>6, FS_Injection
<1> QED BY <1>1, <1>7 DEF L

\* What the server prints never enters a client's connection, unless it is a
\* daemon with fewer than three listeners, the log counted (main.cpp:108).
THEOREM STOutputNotToClients == STSpec => []OutputNotToClients
<1>1. STInv => OutputNotToClients
  <2> SUFFICES ASSUME STInv, NEW fd \in {1, 2}, fds[fd] = "client"
               PROVE  /\ config.daemon
                      /\ Cardinality(Listening)
                           + Cardinality({g \in Table : fds[g] = "syslog"}) <= fd
    BY DEF OutputNotToClients, Table
  <2> DEFINE L == {g \in KeptFds : fds[g] # "syslog"}
             S == {g \in Table : fds[g] = "syslog"}
  <2>1. fd \in Table /\ fd \in 0 .. 2 /\ stage[1] = "serving"
    BY StartupAssumption DEF STInv, FdTypes, Table
  <2>2. config.daemon
    BY <2>1 DEF STInv, TerminalFds, Running
  <2>3. \A g \in KeptFds : g < fd
    <3>1. \A g \in KeptFds : g \in Nat /\ \A h \in 0 .. g : h \in KeptFds
      BY <2>1, <2>2, StartupAssumption DEF STInv, DaemonFds, Running, KeptFds, Table
    <3>2. fd \notin KeptFds
      BY DEF KeptFds, Kept
    <3> QED BY <2>1, <3>1, <3>2
  <2>4. KeptFds \in SUBSET (0 .. fd - 1)
    BY <2>3, StartupAssumption DEF KeptFds, Table
  <2>5. IsFiniteSet(0 .. fd - 1) /\ Cardinality(0 .. fd - 1) = fd
    BY <2>1, FS_Interval
  <2>6. L \cup S = KeptFds /\ L \cap S = {}
    BY DEF KeptFds, Kept
  <2>7. IsFiniteSet(L) /\ IsFiniteSet(Listening) /\ Cardinality(Listening) <= Cardinality(L)
    BY <2>1, ListenersOpen
  <2> HIDE DEF L, S
  <2>8. IsFiniteSet(KeptFds) /\ Cardinality(KeptFds) <= fd
    <3> DEFINE D == 0 .. fd - 1
    <3>1. IsFiniteSet(D) /\ KeptFds \in SUBSET D /\ Cardinality(D) = fd
      BY <2>4, <2>5
    <3> HIDE DEF D
    <3>2. IsFiniteSet(KeptFds) /\ Cardinality(KeptFds) <= Cardinality(D)
      BY <3>1, FS_Subset
    <3> QED BY <3>1, <3>2
  <2>9. IsFiniteSet(S)
    BY <2>6, <2>8, FS_Subset
  <2>10. Cardinality(KeptFds) = Cardinality(L) + Cardinality(S)
    <3>1. Cardinality(L \cup S) = Cardinality(L) + Cardinality(S) - Cardinality(L \cap S)
      BY <2>7, <2>9, FS_Union
    <3>2. Cardinality(L) \in Nat /\ Cardinality(S) \in Nat /\ Cardinality({}) = 0
      BY <2>7, <2>9, FS_CardinalityType, FS_EmptySet
    <3>3. Cardinality(L \cup S) = Cardinality(KeptFds) /\ Cardinality(L \cap S) = 0
      BY <2>6, <3>2, Zenon
    <3> QED BY <3>1, <3>2, <3>3
  <2>11. /\ Cardinality(L) \in Nat /\ Cardinality(S) \in Nat /\ Cardinality(KeptFds) \in Nat
         /\ Cardinality(Listening) \in Nat
    BY <2>7, <2>8, <2>9, FS_CardinalityType
  <2> QED BY <2>1, <2>2, <2>7, <2>8, <2>10, <2>11 DEF S
<1> QED BY <1>1, STInvariance, PTL
-----------------------------------------------------------------------------
(* The configuration. *)

\* What a field may be about, and the fields about it written so far.
Concerns(kind, name, f) ==
  \/ kind = "switch" /\ IsSwitch(f, name)
  \/ kind = "log" /\ f.section = "logs"
  \/ kind = "listen" /\ IsServer(f, name) /\ f.key = "listen"
  \/ kind = "workers" /\ IsWorkers(f, name)
  \/ kind = "path" /\ IsPath(f)
  \/ kind = "full" /\ FillsArray(f)

PlacesOf(kind, name, w) == {n \in 1 .. Len(w) : Concerns(kind, name, w[n])}
Last(kind, name, w) == w[LastOf(PlacesOf(kind, name, w))]

UnixWorkers(w) ==
  IF PlacesOf("workers", "UNIX", w) = {} THEN 10 ELSE Last("workers", "UNIX", w).value.num
Cleared(w) ==
  \E n \in PlacesOf("full", "", w) : \A m \in PlacesOf("workers", "UNIX", w) : m < n

\* The configuration has its fields, and what was written has the types read.
ConfigShape ==
  /\ DOMAIN config = {"verbose", "tcp_nodelay", "syslog", "daemon", "notify_systemd", "port",
                      "worker_connections", "unixsock_path", "notify_socket"}
  /\ DOMAIN config.port = {"TCP", "WEBSOCK"}
  /\ DOMAIN config.worker_connections = {"TCP", "WEBSOCK", "UNIX"}

WrittenTypes ==
  /\ written \in Seq(Fields \cup {Mark("-v"), Mark("-c")})
  /\ \A n \in 1 .. Len(written) : \A c \in Channels :
       IsWorkers(written[n], c) => written[n].value.num \in Nat

\* Each setting has the value written last.
SwitchSet(s) ==
  config[s] = IF PlacesOf("switch", s, written) = {} THEN KServerConfig[s]
              ELSE WrittenOn(Last("switch", s, written))
LogSet ==
  config.syslog = IF PlacesOf("log", "", written) = {} THEN FALSE
                  ELSE WrittenOn(Last("log", "", written))
PortSet(c) ==
  config.port[c] = IF PlacesOf("listen", c, written) = {} THEN KServerConfig.port[c]
                   ELSE Last("listen", c, written).value.num
WorkersSet(c) ==
  config.worker_connections[c] =
    IF PlacesOf("workers", c, written) = {} THEN KServerConfig.worker_connections[c]
    ELSE Last("workers", c, written).value.num
UnixWorkersSet ==
  config.worker_connections.UNIX =
    IF Cleared(written) THEN UnixWorkers(written) - (UnixWorkers(written) % 256)
    ELSE UnixWorkers(written)
PathSet ==
  config.unixsock_path = IF PlacesOf("path", "", written) = {} THEN DFLT_UNIX_SOCK_PATH
                         ELSE Last("path", "", written).value.str

Settings ==
  /\ \A s \in {"tcp_nodelay", "daemon", "notify_systemd"} : SwitchSet(s)
  /\ LogSet
  /\ \A c \in {"TCP", "WEBSOCK"} : PortSet(c) /\ WorkersSet(c)
  /\ UnixWorkersSet /\ PathSet
  /\ config.notify_socket = DFLT_NOTIFY_SOCKET

\* -v is undone for a daemon when a file ends.
VerboseUndone ==
  config.verbose /\ config.daemon /\ stage[1] \notin {"file", "exited"} =>
    \E n \in 1 .. Len(written) :
       /\ written[n].section = "-v"
       /\ \A m \in n .. Len(written) : written[m].section = "-v"

\* Settings and VerboseUndone say what ConfigAsWritten does.
LEMMA SettingsAsWritten ==
  ASSUME Settings, VerboseUndone
  PROVE  ConfigAsWritten
<1>1. \A s \in {"tcp_nodelay", "daemon", "notify_systemd"} :
        Places(LAMBDA f : IsSwitch(f, s)) = PlacesOf("switch", s, written)
  BY DEF Places, PlacesOf, Concerns
<1>2. \A s \in DOMAIN Switch \ {"verbose"} :
          LET named(f) == IsSwitch(f, s)
          IN  config[s] = LastOr(named, WrittenOn, KServerConfig[s])
  BY <1>1 DEF Settings, SwitchSet, LastOr, Switch, Last, Places
<1>3. config.syslog = LastOr(LAMBDA f : f.section = "logs", WrittenOn, FALSE)
  BY DEF Settings, LogSet, LastOr, Last, Places, PlacesOf, Concerns
<1>4. \A c \in {"TCP", "WEBSOCK"} :
          LET listen(f) == IsServer(f, c) /\ f.key = "listen"
          IN  config.port[c] = LastOr(listen, WrittenNumber, KServerConfig.port[c])
  <2> TAKE c \in {"TCP", "WEBSOCK"}
  <2>1. Places(LAMBDA f : IsServer(f, c) /\ f.key = "listen") = PlacesOf("listen", c, written)
    BY DEF Places, PlacesOf, Concerns
  <2> QED BY <2>1 DEF Settings, PortSet, LastOr, Last, WrittenNumber
<1>5. config.unixsock_path = LastOr(IsPath, WrittenText, DFLT_UNIX_SOCK_PATH)
  <2>1. Places(IsPath) = PlacesOf("path", "", written)
    BY DEF Places, PlacesOf, Concerns
  <2> QED BY <2>1 DEF Settings, PathSet, LastOr, Last, WrittenText
<1>6. \A c \in Channels : config.worker_connections[c] = WrittenWorkers(c)
  <2> SUFFICES ASSUME NEW c \in Channels
               PROVE  config.worker_connections[c] = WrittenWorkers(c)
    OBVIOUS
  <2>1. Places(LAMBDA f : IsWorkers(f, c)) = PlacesOf("workers", c, written)
    BY DEF Places, PlacesOf, Concerns
  <2>2. Places(FillsArray) = PlacesOf("full", "", written)
    BY DEF Places, PlacesOf, Concerns
  <2>3. CASE c # "UNIX"
    <3>1. c \in {"TCP", "WEBSOCK"}
      BY <2>3 DEF Channels, Server
    <3> QED BY <2>1, <2>3, <3>1
            DEF Settings, WorkersSet, LastOr, Last, WrittenNumber, WrittenWorkers
  <2>4. CASE c = "UNIX"
    <3>1. KServerConfig.worker_connections[c] = 10
      BY <2>4 DEF KServerConfig
    <3>2. LastOr(LAMBDA f : IsWorkers(f, c), WrittenNumber, KServerConfig.worker_connections[c])
          = UnixWorkers(written)
      BY <2>1, <2>4, <3>1 DEF LastOr, Last, WrittenNumber, UnixWorkers
    <3>3. (\E n \in Places(FillsArray) : \A m \in Places(LAMBDA f : IsWorkers(f, c)) : m < n)
          <=> Cleared(written)
      BY <2>1, <2>2, <2>4 DEF Cleared
    <3>4. WrittenWorkers(c) = IF Cleared(written)
                              THEN UnixWorkers(written) - (UnixWorkers(written) % 256)
                              ELSE UnixWorkers(written)
      <4> HIDE DEF UnixWorkers, Cleared
      <4> QED BY <2>4, <3>2, <3>3, Zenon DEF WrittenWorkers
    <3> QED BY <2>4, <3>4 DEF Settings, UnixWorkersSet
  <2> QED BY <2>3, <2>4
<1> QED BY <1>2, <1>3, <1>4, <1>5, <1>6 DEF ConfigAsWritten, Settings, VerboseUndone



\* The last place of a nonempty set of places.
LEMMA LastIn ==
  ASSUME NEW n \in Nat, NEW S \in SUBSET (1 .. n), S # {}
  PROVE  LastOf(S) \in S
<1> DEFINE U == {m \in Nat : \A p \in S : p <= m}
<1>1. n \in U /\ U \in SUBSET Nat /\ U # {}
  OBVIOUS
<1>2. PICK m \in U : \A u \in U : m <= u
  <2> HIDE DEF U
  <2> QED BY <1>1, LeastNat
<1>3. m \in S
  <2> SUFFICES ASSUME m \notin S PROVE FALSE
    OBVIOUS
  <2>1. m > 0 /\ m - 1 \in Nat
    <3>1. PICK p \in S : p \in 1 .. n /\ p <= m /\ m \in Nat
      BY <1>2
    <3> QED BY <3>1
  <2>2. \A p \in S : p <= m - 1
    <3>1. \A p \in S : p \in Nat /\ p <= m /\ p # m
      BY <1>2
    <3> QED BY <2>1, <3>1
  <2> QED BY <1>2, <2>1, <2>2
<1>4. \E p \in S : \A q \in S : q <= p
  BY <1>2, <1>3
<1> QED BY <1>4 DEF LastOf

\* A field more: it is the last of the kinds it is about, and changes nothing
\* in the others.
OneMoreOf(kind, name, w, f) ==
  LET v == Append(w, f)
  IN  /\ PlacesOf(kind, name, v) = IF Concerns(kind, name, f)
                                   THEN PlacesOf(kind, name, w) \cup {Len(w) + 1}
                                   ELSE PlacesOf(kind, name, w)
      /\ \A n \in PlacesOf(kind, name, w) : n \in 1 .. Len(w)
      /\ Concerns(kind, name, f) => PlacesOf(kind, name, v) # {} /\ Last(kind, name, v) = f
      /\ ~Concerns(kind, name, f) /\ PlacesOf(kind, name, w) # {} =>
           Last(kind, name, v) = Last(kind, name, w)

LEMMA OneMore ==
  ASSUME NEW T, NEW w \in Seq(T), NEW f \in T, NEW kind, NEW name
  PROVE  OneMoreOf(kind, name, w, f)
<1> DEFINE v == Append(w, f)
           n == Len(w)
           S == PlacesOf(kind, name, w)
<1>1. n \in Nat /\ Len(v) = n + 1 /\ v[n + 1] = f /\ \A i \in 1 .. n : v[i] = w[i]
  OBVIOUS
<1> HIDE DEF v, n
<1>2. PlacesOf(kind, name, v) = IF Concerns(kind, name, f) THEN S \cup {n + 1} ELSE S
  BY <1>1 DEF PlacesOf, n
<1>3. S \in SUBSET (1 .. n)
  BY DEF PlacesOf, n
<1> HIDE DEF S
<1>4. Concerns(kind, name, f) => PlacesOf(kind, name, v) # {} /\ Last(kind, name, v) = f
  <2> SUFFICES ASSUME Concerns(kind, name, f)
               PROVE  PlacesOf(kind, name, v) # {} /\ v[LastOf(PlacesOf(kind, name, v))] = f
    BY DEF Last
  <2>1. PlacesOf(kind, name, v) = S \cup {n + 1}
    BY <1>2
  <2>2. LastOf(S \cup {n + 1}) = n + 1
    <3>1. \E p \in S \cup {n + 1} : \A q \in S \cup {n + 1} : q <= p
      BY <1>1, <1>3
    <3>2. PICK p : p = LastOf(S \cup {n + 1}) /\ p \in S \cup {n + 1} /\ n + 1 <= p
      BY <3>1 DEF LastOf
    <3>3. p \notin S
      BY <1>1, <1>3, <3>2
    <3> QED BY <3>2, <3>3
  <2> QED BY <1>1, <2>1, <2>2
<1>5. ~Concerns(kind, name, f) /\ S # {} => Last(kind, name, v) = Last(kind, name, w)
  <2> SUFFICES ASSUME ~Concerns(kind, name, f), S # {}
               PROVE  v[LastOf(PlacesOf(kind, name, v))] = w[LastOf(PlacesOf(kind, name, w))]
    BY DEF Last
  <2>1. PlacesOf(kind, name, v) = S /\ PlacesOf(kind, name, w) = S
    BY <1>2 DEF S
  <2>2. LastOf(S) \in 1 .. n
    BY <1>1, <1>3, LastIn
  <2> QED BY <1>1, <2>1, <2>2
<1> QED BY <1>2, <1>3, <1>4, <1>5 DEF v, n, S, OneMoreOf

\* The same for the number of workers of the Unix socket.
LEMMA OneMoreUnix ==
  ASSUME NEW T, NEW w \in Seq(T), NEW f \in T
  PROVE  LET v == Append(w, f)
             sets == Concerns("workers", "UNIX", f)
             clears == Concerns("full", "", f)
         IN  /\ sets /\ ~clears => UnixWorkers(v) = f.value.num /\ ~Cleared(v)
             /\ ~sets /\ clears => UnixWorkers(v) = UnixWorkers(w) /\ Cleared(v)
             /\ ~sets /\ ~clears => UnixWorkers(v) = UnixWorkers(w) /\ (Cleared(v) <=> Cleared(w))
<1> DEFINE v == Append(w, f)
           n == Len(w) + 1
           W == PlacesOf("workers", "UNIX", w)
           F == PlacesOf("full", "", w)
<1>1. OneMoreOf("workers", "UNIX", w, f) /\ OneMoreOf("full", "", w, f)
  BY OneMore, Zenon
<1>0. /\ PlacesOf("workers", "UNIX", v) = IF Concerns("workers", "UNIX", f) THEN W \cup {n} ELSE W
      /\ PlacesOf("full", "", v) = IF Concerns("full", "", f) THEN F \cup {n} ELSE F
      /\ n \in Nat /\ \A m \in W \cup F : m \in Nat /\ m < n
  <2>1. Len(w) \in Nat
    OBVIOUS
  <2>2. \A m \in W \cup F : m \in 1 .. Len(w)
    BY DEF PlacesOf
  <2>3. n \in Nat /\ \A m \in W \cup F : m \in Nat /\ m < n
    <3> HIDE DEF W, F
    <3> QED BY <2>1, <2>2
  <2> QED BY <1>1, <2>3 DEF OneMoreOf
<1>9. /\ Concerns("workers", "UNIX", f) => UnixWorkers(v) = f.value.num
      /\ ~Concerns("workers", "UNIX", f) => UnixWorkers(v) = UnixWorkers(w)
  <2> HIDE DEF v
  <2> QED BY <1>1 DEF OneMoreOf, UnixWorkers, v
<1> HIDE DEF v, n, W, F
<1>2. CASE Concerns("workers", "UNIX", f) /\ ~Concerns("full", "", f)
  <2>1. \A k \in F : k \in Nat /\ n \in Nat /\ k < n
    BY <1>0, Zenon
  <2>2. \A k \in F : ~(n < k)
    BY <2>1
  <2> QED BY <1>0, <1>9, <1>2, <2>2 DEF Cleared, v
<1>3. CASE ~Concerns("workers", "UNIX", f) /\ Concerns("full", "", f)
  BY <1>0, <1>9, <1>3 DEF Cleared, W, F, v
<1>4. CASE ~Concerns("workers", "UNIX", f) /\ ~Concerns("full", "", f)
  BY <1>0, <1>9, <1>4 DEF Cleared, W, F, v
<1> QED BY <1>2, <1>3, <1>4 DEF v

\* The switch or the server a field is about.
TheSwitch(f) == CHOOSE s \in DOMAIN Switch : IsSwitch(f, s)
TheServer(f) == CHOOSE c \in DOMAIN Server : IsServer(f, c)

\* A section names one switch or one server.
LEMMA Sections ==
  /\ DOMAIN Switch = {"verbose", "tcp_nodelay", "daemon", "notify_systemd"}
  /\ DOMAIN Server = {"TCP", "WEBSOCK", "UNIX"} /\ Channels = DOMAIN Server
  /\ \A f : \A s \in DOMAIN Switch : IsSwitch(f, s) =>
       f.section \in {"verbose", "tcp_nodelay", "daemon", "notify-systemd"} /\ TheSwitch(f) = s
  /\ \A f : \A c \in DOMAIN Server : IsServer(f, c) =>
       f.section \in {"TCP", "websocket", "unix"} /\ TheServer(f) = c
<1>1. /\ DOMAIN Switch = {"verbose", "tcp_nodelay", "daemon", "notify_systemd"}
      /\ DOMAIN Server = {"TCP", "WEBSOCK", "UNIX"} /\ Channels = DOMAIN Server
  BY DEF Switch, Server, Channels
<1>2. /\ \A s \in DOMAIN Switch : Switch[s] \in {"verbose", "tcp_nodelay", "daemon", "notify-systemd"}
      /\ \A s, r \in DOMAIN Switch : Switch[s] = Switch[r] => s = r
      /\ \A c \in DOMAIN Server : Server[c] \in {"TCP", "websocket", "unix"}
      /\ \A c, d \in DOMAIN Server : Server[c] = Server[d] => c = d
  BY DEF Switch, Server
<1>3. ASSUME NEW f, NEW s \in DOMAIN Switch, IsSwitch(f, s)
      PROVE  TheSwitch(f) = s
  <2>1. TheSwitch(f) \in DOMAIN Switch /\ IsSwitch(f, TheSwitch(f))
    BY <1>3 DEF TheSwitch
  <2> QED BY <1>2, <1>3, <2>1 DEF IsSwitch
<1>4. ASSUME NEW f, NEW c \in DOMAIN Server, IsServer(f, c)
      PROVE  TheServer(f) = c
  <2>1. TheServer(f) \in DOMAIN Server /\ IsServer(f, TheServer(f))
    BY <1>4 DEF TheServer
  <2> QED BY <1>2, <1>4, <2>1 DEF IsServer
<1> QED BY <1>1, <1>2, <1>3, <1>4 DEF IsSwitch, IsServer

\* read_field, branch by branch.
LEMMA ReadField ==
  ASSUME NEW f, NEW cfg
  PROVE  /\ (\E s \in DOMAIN Switch : IsSwitch(f, s)) =>
              read_field(cfg, f) = [cfg EXCEPT ![TheSwitch(f)] = (is_on(f.value) = 1)]
         /\ IsNotifySocket(f) => read_field(cfg, f) = copy_path(cfg, f.value.str)
         /\ f.section = "logs" => read_field(cfg, f) = [cfg EXCEPT !.syslog = (is_on(f.value) = 1)]
         /\ \A c \in DOMAIN Server : IsServer(f, c) =>
              /\ f.key = "listen" => read_field(cfg, f) = [cfg EXCEPT !.port[c] = f.value.num]
              /\ f.key = "path" => read_field(cfg, f) = copy_path(cfg, f.value.str)
              /\ f.key = "worker_connections" =>
                   read_field(cfg, f) = [cfg EXCEPT !.worker_connections[c] = f.value.num]
<1>1. /\ (\E s \in DOMAIN Switch : IsSwitch(f, s)) =>
           f.section \in {"verbose", "tcp_nodelay", "daemon", "notify-systemd"}
      /\ (\E c \in DOMAIN Server : IsServer(f, c)) => f.section \in {"TCP", "websocket", "unix"}
      /\ IsNotifySocket(f) => f.section = "notify-socket"
  BY Sections DEF IsNotifySocket
<1>2. CASE \E s \in DOMAIN Switch : IsSwitch(f, s)
  <2>1. ~IsNotifySocket(f) /\ f.section # "logs" /\ ~\E c \in DOMAIN Server : IsServer(f, c)
    BY <1>1, <1>2
  <2>2. read_field(cfg, f) = [cfg EXCEPT ![TheSwitch(f)] = (is_on(f.value) = 1)]
    BY <1>2, <2>1 DEF read_field, TheSwitch
  <2> QED BY <2>1, <2>2
<1>3. CASE IsNotifySocket(f)
  <2>1. /\ ~\E s \in DOMAIN Switch : IsSwitch(f, s)
        /\ f.section # "logs" /\ ~\E c \in DOMAIN Server : IsServer(f, c)
    BY <1>1, <1>3
  <2>2. read_field(cfg, f) = copy_path(cfg, f.value.str)
    BY <1>3, <2>1 DEF read_field
  <2> QED BY <2>1, <2>2
<1>4. CASE f.section = "logs"
  <2>1. /\ ~\E s \in DOMAIN Switch : IsSwitch(f, s)
        /\ ~IsNotifySocket(f) /\ ~\E c \in DOMAIN Server : IsServer(f, c)
    BY <1>1, <1>4
  <2>2. read_field(cfg, f) = [cfg EXCEPT !.syslog = (is_on(f.value) = 1)]
    BY <1>4, <2>1 DEF read_field
  <2> QED BY <1>4, <2>1, <2>2
<1>5. ASSUME NEW c \in DOMAIN Server, IsServer(f, c)
      PROVE  /\ f.key = "listen" => read_field(cfg, f) = [cfg EXCEPT !.port[c] = f.value.num]
             /\ f.key = "path" => read_field(cfg, f) = copy_path(cfg, f.value.str)
             /\ f.key = "worker_connections" =>
                  read_field(cfg, f) = [cfg EXCEPT !.worker_connections[c] = f.value.num]
  <2>1. /\ ~\E s \in DOMAIN Switch : IsSwitch(f, s)
        /\ ~IsNotifySocket(f) /\ f.section # "logs"
    BY <1>1, <1>5
  <2>2. TheServer(f) = c
    BY <1>5, Sections
  <2>3. \E d \in DOMAIN Server : IsServer(f, d)
    BY <1>5
  <2>4. f.key = "listen" => read_field(cfg, f) = [cfg EXCEPT !.port[TheServer(f)] = f.value.num]
    BY <2>1, <2>3 DEF read_field, TheServer
  <2>5. f.key = "path" => read_field(cfg, f) = copy_path(cfg, f.value.str)
    BY <2>1, <2>3 DEF read_field
  <2>6. f.key = "worker_connections" =>
          read_field(cfg, f) = [cfg EXCEPT !.worker_connections[TheServer(f)] = f.value.num]
    BY <2>1, <2>3 DEF read_field, TheServer
  <2> QED BY <2>2, <2>4, <2>5, <2>6
<1>6. CASE ~(\E s \in DOMAIN Switch : IsSwitch(f, s)) /\ ~IsNotifySocket(f) /\ f.section # "logs"
  BY <1>5, <1>6
<1> QED BY <1>2, <1>3, <1>4, <1>5, <1>6

\* All that an accepted field is about.
OnlyAbout(kind, name, f) ==
  /\ \A s \in DOMAIN Switch : IsSwitch(f, s) <=> kind = "switch" /\ name = s
  /\ f.section = "logs" <=> kind = "log"
  /\ \A c \in {"TCP", "WEBSOCK"} :
       IsServer(f, c) /\ f.key = "listen" <=> kind = "listen" /\ name = c
  /\ \A c \in Channels : IsWorkers(f, c) <=> kind = "workers" /\ name = c
  /\ IsPath(f) <=> kind = "path"

\* What an accepted field is about, and what it does.
LEMMA AcceptedFields ==
  ASSUME NEW f, NEW cfg, Accepted(f)
  PROVE  \/ \E s \in DOMAIN Switch :
              /\ OnlyAbout("switch", s, f)
              /\ read_field(cfg, f) = [cfg EXCEPT ![s] = WrittenOn(f)]
         \/ /\ OnlyAbout("path", "", f)
            /\ read_field(cfg, f) = copy_path(cfg, f.value.str)
         \/ /\ OnlyAbout("log", "", f)
            /\ read_field(cfg, f) = [cfg EXCEPT !.syslog = WrittenOn(f)]
         \/ \E c \in {"TCP", "WEBSOCK"} :
              /\ OnlyAbout("listen", c, f)
              /\ read_field(cfg, f) = [cfg EXCEPT !.port[c] = f.value.num]
         \/ \E c \in Channels :
              /\ OnlyAbout("workers", c, f) /\ f.value.tag = "number"
              /\ read_field(cfg, f) = [cfg EXCEPT !.worker_connections[c] = f.value.num]
<1>1. /\ DOMAIN Switch = {"verbose", "tcp_nodelay", "daemon", "notify_systemd"}
      /\ DOMAIN Server = {"TCP", "WEBSOCK", "UNIX"} /\ Channels = DOMAIN Server
      /\ \A s \in DOMAIN Switch : IsSwitch(f, s) =>
           f.section \in {"verbose", "tcp_nodelay", "daemon", "notify-systemd"} /\ TheSwitch(f) = s
      /\ \A c \in DOMAIN Server : IsServer(f, c) =>
           f.section \in {"TCP", "websocket", "unix"} /\ TheServer(f) = c
  BY Sections
<1>2. is_on(f.value) >= 0 => (is_on(f.value) = 1) = WrittenOn(f)
  BY DEF is_on, WrittenOn
<1>3. ASSUME NEW s \in DOMAIN Switch, IsSwitch(f, s), is_on(f.value) >= 0
      PROVE  /\ OnlyAbout("switch", s, f)
             /\ read_field(cfg, f) = [cfg EXCEPT ![s] = WrittenOn(f)]
  <2>1. OnlyAbout("switch", s, f)
    BY <1>1, <1>3 DEF OnlyAbout, IsWorkers, IsPath, IsNotifySocket
  <2>2. read_field(cfg, f) = [cfg EXCEPT ![TheSwitch(f)] = (is_on(f.value) = 1)] /\ TheSwitch(f) = s
    BY <1>1, <1>3, ReadField
  <2> QED BY <1>2, <1>3, <2>1, <2>2
<1>4. ASSUME IsPath(f)
      PROVE  /\ OnlyAbout("path", "", f)
             /\ read_field(cfg, f) = copy_path(cfg, f.value.str)
  <2>1. OnlyAbout("path", "", f)
    BY <1>1, <1>4 DEF OnlyAbout, IsWorkers, IsPath, IsNotifySocket
  <2>2. read_field(cfg, f) = copy_path(cfg, f.value.str)
    BY <1>1, <1>4, ReadField DEF IsPath
  <2> QED BY <2>1, <2>2
<1>5. ASSUME f.section = "logs", is_on(f.value) >= 0
      PROVE  /\ OnlyAbout("log", "", f)
             /\ read_field(cfg, f) = [cfg EXCEPT !.syslog = WrittenOn(f)]
  <2>1. OnlyAbout("log", "", f)
    BY <1>1, <1>5 DEF OnlyAbout, IsWorkers, IsPath, IsNotifySocket
  <2>2. read_field(cfg, f) = [cfg EXCEPT !.syslog = (is_on(f.value) = 1)]
    BY <1>5, ReadField
  <2> QED BY <1>2, <1>5, <2>1, <2>2
<1>6. ASSUME NEW c \in {"TCP", "WEBSOCK"}, IsServer(f, c), f.key = "listen"
      PROVE  /\ OnlyAbout("listen", c, f)
             /\ read_field(cfg, f) = [cfg EXCEPT !.port[c] = f.value.num]
  <2>1. OnlyAbout("listen", c, f)
    BY <1>1, <1>6 DEF OnlyAbout, IsWorkers, IsPath, IsNotifySocket
  <2>2. read_field(cfg, f) = [cfg EXCEPT !.port[c] = f.value.num]
    BY <1>1, <1>6, ReadField
  <2> QED BY <2>1, <2>2
<1>7. ASSUME NEW c \in Channels, IsServer(f, c), f.key = "worker_connections"
      PROVE  /\ OnlyAbout("workers", c, f)
             /\ read_field(cfg, f) = [cfg EXCEPT !.worker_connections[c] = f.value.num]
  <2>1. OnlyAbout("workers", c, f)
    BY <1>1, <1>7 DEF OnlyAbout, IsWorkers, IsPath, IsNotifySocket
  <2>2. read_field(cfg, f) = [cfg EXCEPT !.worker_connections[c] = f.value.num]
    BY <1>1, <1>7, ReadField
  <2> QED BY <2>1, <2>2
<1>8. \/ \E s \in DOMAIN Switch : IsSwitch(f, s) /\ is_on(f.value) >= 0
      \/ IsPath(f)
      \/ f.section = "logs" /\ is_on(f.value) >= 0
      \/ \E c \in {"TCP", "WEBSOCK"} : IsServer(f, c) /\ f.key = "listen"
      \/ \E c \in Channels : /\ IsServer(f, c) /\ f.value.tag = "number"
                             /\ f.key = "worker_connections"
  BY <1>1 DEF Accepted, _read_log, _read_server, IsPath
<1> QED BY <1>3, <1>4, <1>5, <1>6, <1>7, <1>8

\* What a field is about, in the terms of Settings.
Only(kind, name, f) ==
  /\ \A s \in DOMAIN Switch : Concerns("switch", s, f) <=> (kind = "switch" /\ name = s)
  /\ Concerns("log", "", f) <=> kind = "log"
  /\ \A c \in {"TCP", "WEBSOCK"} : Concerns("listen", c, f) <=> (kind = "listen" /\ name = c)
  /\ \A c \in Channels : Concerns("workers", c, f) <=> (kind = "workers" /\ name = c)
  /\ Concerns("path", "", f) <=> kind = "path"
  /\ Concerns("full", "", f) <=> (kind = "path" /\ f.value.str.len = UNIX_SOCKET_PATH_LEN)

LEMMA ConcernsOf ==
  ASSUME NEW kind, NEW name, NEW f, OnlyAbout(kind, name, f)
  PROVE  Only(kind, name, f)
BY DEF OnlyAbout, Only, Concerns, FillsArray

\* A field sets what it is about and nothing else.
SetsOnly(f) ==
  /\ \A s \in {"tcp_nodelay", "daemon", "notify_systemd"} :
       config'[s] = IF Concerns("switch", s, f) THEN WrittenOn(f) ELSE config[s]
  /\ config'.syslog = IF Concerns("log", "", f) THEN WrittenOn(f) ELSE config.syslog
  /\ \A c \in {"TCP", "WEBSOCK"} :
       /\ config'.port[c] = IF Concerns("listen", c, f) THEN f.value.num ELSE config.port[c]
       /\ config'.worker_connections[c] =
            IF Concerns("workers", c, f) THEN f.value.num ELSE config.worker_connections[c]
  /\ config'.worker_connections.UNIX =
       LET w == config.worker_connections.UNIX
       IN  IF Concerns("workers", "UNIX", f) THEN f.value.num
           ELSE IF Concerns("full", "", f) THEN w - (w % 256) ELSE w
  /\ config'.unixsock_path = IF Concerns("path", "", f) THEN f.value.str ELSE config.unixsock_path
  /\ config'.notify_socket = config.notify_socket
  /\ Concerns("full", "", f) => ~Concerns("workers", "UNIX", f)

\* load_file sets what an accepted field is about.
LEMMA FieldSetsOnly ==
  ASSUME ConfigShape, NEW f, Accepted(f), config' = read_field(config, f)
  PROVE  ConfigShape' /\ SetsOnly(f)
<1>1. DOMAIN Switch = {"verbose", "tcp_nodelay", "daemon", "notify_systemd"}
      /\ Channels = {"TCP", "WEBSOCK", "UNIX"}
  BY Sections
<1>2. ASSUME NEW s \in DOMAIN Switch, OnlyAbout("switch", s, f),
             config' = [config EXCEPT ![s] = WrittenOn(f)]
      PROVE  ConfigShape' /\ SetsOnly(f)
  <2>1. Only("switch", s, f)
    BY <1>2, ConcernsOf, Zenon
  <2>2. /\ \A r \in DOMAIN Switch : Concerns("switch", r, f) <=> r = s
        /\ ~Concerns("log", "", f) /\ ~Concerns("path", "", f) /\ ~Concerns("full", "", f)
        /\ \A c \in {"TCP", "WEBSOCK"} : ~Concerns("listen", c, f)
        /\ \A c \in Channels : ~Concerns("workers", c, f)
    BY <2>1 DEF Only
  <2> QED BY <1>1, <1>2, <2>2 DEF ConfigShape, SetsOnly
<1>3. ASSUME OnlyAbout("path", "", f), config' = copy_path(config, f.value.str)
      PROVE  ConfigShape' /\ SetsOnly(f)
  <2>1. Only("path", "", f)
    BY <1>3, ConcernsOf, Zenon
  <2>2. /\ \A r \in DOMAIN Switch : ~Concerns("switch", r, f)
        /\ ~Concerns("log", "", f) /\ Concerns("path", "", f)
        /\ Concerns("full", "", f) <=> f.value.str.len = UNIX_SOCKET_PATH_LEN
        /\ \A c \in {"TCP", "WEBSOCK"} : ~Concerns("listen", c, f)
        /\ \A c \in Channels : ~Concerns("workers", c, f)
    BY <2>1 DEF Only
  <2> DEFINE x == config.worker_connections.UNIX
             y == IF f.value.str.len = UNIX_SOCKET_PATH_LEN THEN x - (x % 256) ELSE x
  <2>3. /\ DOMAIN config' = DOMAIN config
        /\ config'.unixsock_path = f.value.str
        /\ \A field \in DOMAIN config \ {"unixsock_path", "worker_connections"} :
             config'[field] = config[field]
    BY <1>3 DEF ConfigShape, copy_path
  <2>4. config'.worker_connections = [config.worker_connections EXCEPT !.UNIX = y]
    BY <1>3 DEF ConfigShape, copy_path
  <2> HIDE DEF y
  <2>5. /\ DOMAIN config'.worker_connections = DOMAIN config.worker_connections
        /\ config'.worker_connections.UNIX = y
        /\ \A c \in {"TCP", "WEBSOCK"} :
             config'.worker_connections[c] = config.worker_connections[c]
    BY <2>4 DEF ConfigShape
  <2>6. ConfigShape'
    BY <2>3, <2>5 DEF ConfigShape
  <2>7. /\ \A s \in {"tcp_nodelay", "daemon", "notify_systemd"} : config'[s] = config[s]
        /\ config'.syslog = config.syslog /\ config'.port = config.port
        /\ config'.notify_socket = config.notify_socket
    BY <2>3 DEF ConfigShape
  <2>8. config'.worker_connections.UNIX = IF Concerns("full", "", f) THEN x - (x % 256) ELSE x
    BY <2>2, <2>5 DEF y
  <2>9. "UNIX" \in Channels /\ \A c \in {"TCP", "WEBSOCK"} : c \in Channels
    BY <1>1
  <2> HIDE DEF x
  <2>10. SetsOnly(f)
    BY <1>1, <2>2, <2>3, <2>5, <2>7, <2>8, <2>9 DEF SetsOnly, x
  <2> QED BY <2>6, <2>10
<1>4. ASSUME OnlyAbout("log", "", f), config' = [config EXCEPT !.syslog = WrittenOn(f)]
      PROVE  ConfigShape' /\ SetsOnly(f)
  <2>1. Only("log", "", f)
    BY <1>4, ConcernsOf, Zenon
  <2>2. /\ \A r \in DOMAIN Switch : ~Concerns("switch", r, f)
        /\ Concerns("log", "", f) /\ ~Concerns("path", "", f) /\ ~Concerns("full", "", f)
        /\ \A c \in {"TCP", "WEBSOCK"} : ~Concerns("listen", c, f)
        /\ \A c \in Channels : ~Concerns("workers", c, f)
    BY <2>1 DEF Only
  <2> QED BY <1>1, <1>4, <2>2 DEF ConfigShape, SetsOnly
<1>5. ASSUME NEW d \in {"TCP", "WEBSOCK"}, OnlyAbout("listen", d, f),
             config' = [config EXCEPT !.port[d] = f.value.num]
      PROVE  ConfigShape' /\ SetsOnly(f)
  <2>1. Only("listen", d, f)
    BY <1>5, ConcernsOf, Zenon
  <2>2. /\ \A r \in DOMAIN Switch : ~Concerns("switch", r, f)
        /\ ~Concerns("log", "", f) /\ ~Concerns("path", "", f) /\ ~Concerns("full", "", f)
        /\ \A c \in {"TCP", "WEBSOCK"} : Concerns("listen", c, f) <=> c = d
        /\ \A c \in Channels : ~Concerns("workers", c, f)
    BY <2>1 DEF Only
  <2> QED BY <1>1, <1>5, <2>2 DEF ConfigShape, SetsOnly
<1>6. ASSUME NEW d \in Channels, OnlyAbout("workers", d, f),
             config' = [config EXCEPT !.worker_connections[d] = f.value.num]
      PROVE  ConfigShape' /\ SetsOnly(f)
  <2>1. Only("workers", d, f)
    BY <1>6, ConcernsOf, Zenon
  <2>2. /\ \A r \in DOMAIN Switch : ~Concerns("switch", r, f)
        /\ ~Concerns("log", "", f) /\ ~Concerns("path", "", f) /\ ~Concerns("full", "", f)
        /\ \A c \in {"TCP", "WEBSOCK"} : ~Concerns("listen", c, f)
        /\ \A c \in Channels : Concerns("workers", c, f) <=> c = d
    BY <2>1 DEF Only
  <2>3. ConfigShape'
    BY <1>1, <1>6 DEF ConfigShape
  <2>4. /\ \A s \in {"tcp_nodelay", "daemon", "notify_systemd"} : config'[s] = config[s]
        /\ config'.syslog = config.syslog /\ config'.port = config.port
        /\ config'.unixsock_path = config.unixsock_path
        /\ config'.notify_socket = config.notify_socket
        /\ config'.worker_connections = [config.worker_connections EXCEPT ![d] = f.value.num]
    BY <1>6 DEF ConfigShape
  <2>5. \A c \in Channels : config'.worker_connections[c] =
          IF Concerns("workers", c, f) THEN f.value.num ELSE config.worker_connections[c]
    BY <1>1, <2>2, <2>4 DEF ConfigShape
  <2>6. /\ {"TCP", "WEBSOCK", "UNIX"} = Channels
        /\ {"tcp_nodelay", "daemon", "notify_systemd"} \subseteq DOMAIN Switch
    BY <1>1
  <2>7. SetsOnly(f)
    BY <2>2, <2>4, <2>5, <2>6 DEF SetsOnly
  <2> QED BY <2>3, <2>7
<1> QED BY <1>2, <1>3, <1>4, <1>5, <1>6, AcceptedFields

\* A field that sets what it is about keeps the settings as written.
LEMMA FieldKeeps ==
  ASSUME WrittenTypes, Settings, NEW f \in Fields \cup {Mark("-v"), Mark("-c")}, SetsOnly(f),
         \A c \in Channels : IsWorkers(f, c) => f.value.num \in Nat,
         written' = Append(written, f)
  PROVE  WrittenTypes' /\ Settings'
<1> DEFINE T == Fields \cup {Mark("-v"), Mark("-c")}
<1>1. /\ \A kind, name : OneMoreOf(kind, name, written, f)
      /\ written' \in Seq(T) /\ Len(written') = Len(written) + 1 /\ Len(written) \in Nat
      /\ \A n \in 1 .. Len(written) : written'[n] = written[n]
      /\ written'[Len(written) + 1] = f
      /\ written \in Seq(T)
  <2>1. written \in Seq(T) /\ f \in T
    BY DEF WrittenTypes
  <2> HIDE DEF T
  <2> QED BY <2>1, OneMore, AppendProperties
<1>2. \A kind, name :
        /\ Concerns(kind, name, f) => /\ PlacesOf(kind, name, written') # {}
                                      /\ Last(kind, name, written') = f
        /\ ~Concerns(kind, name, f) =>
             /\ PlacesOf(kind, name, written') = PlacesOf(kind, name, written)
             /\ PlacesOf(kind, name, written) # {} =>
                  Last(kind, name, written') = Last(kind, name, written)
  BY <1>1 DEF OneMoreOf
<1>3. UnixWorkers(written) \in Nat
  <2> DEFINE W == PlacesOf("workers", "UNIX", written)
  <2>1. W \in SUBSET (1 .. Len(written)) /\ Len(written) \in Nat
    BY <1>1 DEF PlacesOf
  <2>2. W # {} => LastOf(W) \in W
    <3> HIDE DEF W
    <3> QED BY <2>1, LastIn
  <2>3. W # {} => Last("workers", "UNIX", written).value.num \in Nat
    BY <2>1, <2>2 DEF Last, PlacesOf, Concerns, WrittenTypes, Channels, Server
  <2> QED BY <2>3 DEF UnixWorkers
<1>4. WrittenTypes'
  <2>1. \A n \in 1 .. Len(written') : n \in 1 .. Len(written) \/ n = Len(written) + 1
    BY <1>1
  <2> HIDE DEF T
  <2>2. \A n \in 1 .. Len(written') : \A c \in Channels :
         IsWorkers(written'[n], c) => written'[n].value.num \in Nat
    BY <1>1, <2>1 DEF WrittenTypes
  <2> QED BY <1>1, <2>2 DEF WrittenTypes, T
<1>5. \A s \in {"tcp_nodelay", "daemon", "notify_systemd"} : SwitchSet(s)'
  BY <1>2 DEF Settings, SetsOnly, SwitchSet
<1>6. LogSet'
  BY <1>2 DEF Settings, SetsOnly, LogSet
<1>7. \A c \in {"TCP", "WEBSOCK"} : PortSet(c)' /\ WorkersSet(c)'
  <2> SUFFICES ASSUME NEW c \in {"TCP", "WEBSOCK"} PROVE PortSet(c)' /\ WorkersSet(c)'
    OBVIOUS
  <2>1. PortSet(c) /\ WorkersSet(c)
    BY DEF Settings
  <2>2. /\ config'.port[c] = IF Concerns("listen", c, f) THEN f.value.num ELSE config.port[c]
        /\ config'.worker_connections[c] =
             IF Concerns("workers", c, f) THEN f.value.num ELSE config.worker_connections[c]
    BY DEF SetsOnly
  <2>3. PortSet(c)'
    BY <1>2, <2>1, <2>2 DEF PortSet
  <2>4. WorkersSet(c)'
    BY <1>2, <2>1, <2>2 DEF WorkersSet
  <2> QED BY <2>3, <2>4
<1>8. PathSet'
  BY <1>2 DEF Settings, SetsOnly, PathSet
<1>9. UnixWorkersSet'
  <2> DEFINE u == UnixWorkers(written)
             w == config.worker_connections.UNIX
  <2>1. /\ Concerns("workers", "UNIX", f) /\ ~Concerns("full", "", f) =>
             UnixWorkers(written') = f.value.num /\ ~Cleared(written')
        /\ ~Concerns("workers", "UNIX", f) /\ Concerns("full", "", f) =>
             UnixWorkers(written') = u /\ Cleared(written')
        /\ ~Concerns("workers", "UNIX", f) /\ ~Concerns("full", "", f) =>
             UnixWorkers(written') = u /\ (Cleared(written') <=> Cleared(written))
    <3> HIDE DEF T
    <3>1. written \in Seq(T) /\ f \in T
      BY <1>1 DEF T
    <3> QED BY <3>1, OneMoreUnix
  <2>2. w = IF Cleared(written) THEN u - (u % 256) ELSE u
    BY DEF Settings, UnixWorkersSet
  <2>3. w - (w % 256) = u - (u % 256)
    <3>1. \A x \in Nat : (x - (x % 256)) - ((x - (x % 256)) % 256) = x - (x % 256)
      OBVIOUS
    <3> QED BY <1>3, <2>2, <3>1
  <2> HIDE DEF u, w
  <2> QED BY <2>1, <2>2, <2>3 DEF SetsOnly, UnixWorkersSet, u, w
<1> QED BY <1>4, <1>5, <1>6, <1>7, <1>8, <1>9 DEF Settings, SetsOnly
-----------------------------------------------------------------------------
(* The configuration is kept. *)

\* The configuration as written, and what it rests on.
CFInv == ConfigShape /\ WrittenTypes /\ Settings /\ VerboseUndone

\* The defaults, before anything is written.
LEMMA InitCFInv ==
  ASSUME STInit
  PROVE  CFInv
<1>1. written = <<>> /\ config = KServerConfig /\ stage[1] = "options"
  BY DEF STInit
<1>2. ConfigShape
  BY <1>1 DEF ConfigShape, KServerConfig
<1>3. WrittenTypes /\ \A kind, name : PlacesOf(kind, name, written) = {}
  BY <1>1 DEF WrittenTypes, PlacesOf
<1>4. Settings
  <2>1. UnixWorkers(written) = 10 /\ ~Cleared(written)
    BY <1>3 DEF UnixWorkers, Cleared
  <2>2. \A s : SwitchSet(s)
    BY <1>1, <1>3 DEF SwitchSet
  <2>3. \A c \in {"TCP", "WEBSOCK"} : PortSet(c) /\ WorkersSet(c)
    BY <1>1, <1>3 DEF PortSet, WorkersSet
  <2>4. config.syslog = FALSE /\ config.worker_connections.UNIX = 10
        /\ config.unixsock_path = DFLT_UNIX_SOCK_PATH
        /\ config.notify_socket = DFLT_NOTIFY_SOCKET
    BY <1>1 DEF KServerConfig
  <2> QED BY <1>3, <2>1, <2>2, <2>3, <2>4 DEF Settings, LogSet, UnixWorkersSet, PathSet
<1>5. VerboseUndone
  BY <1>1 DEF VerboseUndone, KServerConfig
<1> QED BY <1>2, <1>3, <1>4, <1>5 DEF CFInv

\* -v, and the end of a file, set nothing but verbose.
LEMMA MarkKeeps ==
  ASSUME CFInv, NEW option \in {"-v", "-c"}, written' = Append(written, Mark(option)),
         NEW v, config' = [config EXCEPT !.verbose = v]
  PROVE  ConfigShape' /\ WrittenTypes' /\ Settings'
<1> DEFINE f == Mark(option)
<1>1. /\ DOMAIN Switch = {"verbose", "tcp_nodelay", "daemon", "notify_systemd"}
      /\ DOMAIN Server = {"TCP", "WEBSOCK", "UNIX"} /\ Channels = DOMAIN Server
      /\ \A s \in DOMAIN Switch : Switch[s] \in {"verbose", "tcp_nodelay", "daemon", "notify-systemd"}
      /\ \A c \in DOMAIN Server : Server[c] \in {"TCP", "websocket", "unix"}
  BY DEF Switch, Server, Channels
<1>2. f.section \in {"-v", "-c"}
  BY DEF Mark
<1>3. /\ \A s \in DOMAIN Switch : ~Concerns("switch", s, f)
      /\ ~Concerns("log", "", f) /\ ~Concerns("path", "", f) /\ ~Concerns("full", "", f)
      /\ \A c \in Channels : ~Concerns("listen", c, f) /\ ~Concerns("workers", c, f)
      /\ \A c \in Channels : ~IsWorkers(f, c)
  <2> HIDE DEF f
  <2> QED BY <1>1, <1>2 DEF Concerns, IsSwitch, IsServer, IsWorkers, IsPath, IsNotifySocket, FillsArray
<1>4. f \in Fields \cup {Mark("-v"), Mark("-c")}
  OBVIOUS
<1> HIDE DEF f
<1>5. ConfigShape' /\ SetsOnly(f)
  BY <1>1, <1>3 DEF CFInv, ConfigShape, SetsOnly
<1>6. written' = Append(written, f)
  BY DEF f
<1> QED BY <1>3, <1>4, <1>5, <1>6, FieldKeeps DEF CFInv

\* -v.
LEMMA VerboseKeeps ==
  ASSUME CFInv, option_verbose
  PROVE  CFInv'
<1>1. ConfigShape' /\ WrittenTypes' /\ Settings'
  BY MarkKeeps DEF option_verbose
<1>2. Mark("-v").section = "-v"
  BY DEF Mark
<1>3. /\ Len(written) \in Nat
      /\ Len(written') = Len(written) + 1 /\ written'[Len(written) + 1] = Mark("-v")
  <2> DEFINE T == Fields \cup {Mark("-v"), Mark("-c")}
  <2>1. written \in Seq(T) /\ Mark("-v") \in T
    BY DEF CFInv, WrittenTypes
  <2>2. written' = Append(written, Mark("-v"))
    BY DEF option_verbose
  <2> HIDE DEF T
  <2> QED BY <2>1, <2>2, AppendProperties, LenProperties
<1>4. \E n \in 1 .. Len(written') :
        written'[n].section = "-v" /\ \A m \in n .. Len(written') : written'[m].section = "-v"
  <2>1. Len(written) + 1 \in 1 .. Len(written')
        /\ \A m \in Len(written) + 1 .. Len(written') : m = Len(written) + 1
    BY <1>2, <1>3
  <2> QED BY <1>2, <1>3, <2>1
<1> QED BY <1>1, <1>4 DEF CFInv, VerboseUndone

\* The end of a file: _check_config.
LEMMA FileEndKeeps ==
  ASSUME CFInv, load_file_ends
  PROVE  CFInv'
<1>1. ConfigShape' /\ WrittenTypes' /\ Settings'
  BY MarkKeeps DEF load_file_ends, _check_config
<1>2. config'.verbose = (config.verbose /\ ~config.daemon) /\ config'.daemon = config.daemon
  BY DEF load_file_ends, _check_config, CFInv, ConfigShape
<1> QED BY <1>1, <1>2 DEF CFInv, VerboseUndone

\* A field of a file.
LEMMA FileFieldKeeps ==
  ASSUME CFInv, NEW f \in Fields, Accepted(f), config' = read_field(config, f),
         written' = Append(written, f), stage'[1] = "file"
  PROVE  CFInv'
<1>1. ConfigShape' /\ SetsOnly(f)
  BY FieldSetsOnly DEF CFInv
<1>2. \A c \in Channels : IsWorkers(f, c) => f.value.tag = "number"
  BY AcceptedFields DEF OnlyAbout
<1>3. WrittenTypes' /\ Settings'
  BY <1>1, <1>2, FieldKeeps, FieldsAssumption DEF CFInv
<1> QED BY <1>1, <1>3 DEF CFInv, VerboseUndone

\* Steps that leave the configuration alone.
LEMMA OthersKeep ==
  ASSUME CFInv, UNCHANGED <<config, written>>,
         \/ stage' = stage
         \/ stage'[1] \in {"file", "exited"}
         \/ stage[1] \notin {"file", "exited"}
  PROVE  CFInv'
<1>1. ConfigShape' /\ WrittenTypes' /\ Settings'
  BY DEF CFInv, ConfigShape, WrittenTypes, Settings, SwitchSet, LogSet, PortSet, WorkersSet,
         UnixWorkersSet, PathSet
<1>2. VerboseUndone'
  BY DEF CFInv, VerboseUndone
<1> QED BY <1>1, <1>2 DEF CFInv

\* Every step keeps the configuration as written.
LEMMA NextKeepsCFInv ==
  ASSUME CFInv, [STNext]_vars
  PROVE  CFInv'
<1>1. CASE option_verbose
  BY <1>1, VerboseKeeps
<1>2. CASE load_file_ends
  BY <1>2, FileEndKeeps
<1>3. ASSUME NEW f \in Fields, load_file_field(f)
      PROVE  CFInv'
  <2>1. CASE /\ Accepted(f) /\ config' = read_field(config, f)
             /\ written' = Append(written, f) /\ Go("file", 1)
    BY <2>1, FileFieldKeeps DEF Go
  <2>2. CASE ExitsWith("FAILURE")
    BY <2>2, OthersKeep DEF ExitsWith, Go
  <2> QED BY <1>3, <2>1, <2>2 DEF load_file_field
<1>4. CASE UNCHANGED vars
  BY <1>4, OthersKeep DEF vars
<1>5. CASE option_config \/ option_help \/ option_unknown \/ load_file_fails \/ options_end
           \/ stay_in_foreground \/ fork_fails \/ fork \/ daemonize_fails \/ daemonize
  BY <1>5, OthersKeep
  DEF option_config, option_help, option_unknown, load_file_fails, options_end, stay_in_foreground,
      fork_fails, fork, daemonize_fails, daemonize, ExitsWith, Go, At
<1>6. CASE open_syslog \/ init_signals \/ init_devices \/ constructor_fails
           \/ init_disabled \/ init_binds \/ init_fails
           \/ create_unix_listening_overflows
  BY <1>6, OthersKeep
  DEF open_syslog, init_signals, init_devices, constructor_fails, init_disabled, init_binds,
      init_fails, create_unix_listening_overflows, ExitsWith, Go, At
<1>7. CASE start_worker \/ start_worker_fails \/ notify_open \/ notify_close \/ open_communication
           \/ \E fd \in 0 .. MaxFd : client_closes(fd)
  BY <1>7, OthersKeep
  DEF start_worker, start_worker_fails, notify_open, notify_close, open_communication, client_closes,
      ExitsWith, Go, At
<1> QED BY <1>1, <1>2, <1>3, <1>4, <1>5, <1>6, <1>7 DEF STNext

\* Each setting is what was written last, by whichever file, or its default,
\* but for the three exceptions of config.cpp (:182, :225, :301).
THEOREM STConfigAsWritten == STSpec => []ConfigAsWritten
<1>1. STInit => CFInv
  BY InitCFInv
<1>2. CFInv /\ [STNext]_vars => CFInv'
  BY NextKeepsCFInv
<1>3. CFInv => ConfigAsWritten
  BY SettingsAsWritten DEF CFInv
<1> QED BY <1>1, <1>2, <1>3, PTL DEF STSpec
-----------------------------------------------------------------------------
(* The listeners. *)

\* The order in which the constructor and run take the channels.
Rank == [TCP |-> 1, WEBSOCK |-> 2, UNIX |-> 3]

\* init has been through the channel, and start_worker has.
InitDone(c) ==
  \/ stage[1] = "init" /\ Rank[c] < stage[2]
  \/ stage[1] \in {"start", "serving"}
StartDone(c) ==
  \/ stage[1] = "start" /\ Rank[c] < stage[2]
  \/ stage[1] = "serving"

\* A listener is open from init on if the channel has workers, and only then.
ListenersMade == \A c \in Channels : Opened(c) <=> InitDone(c) /\ Enabled(c)

\* It is bound where the configuration says, to a path that ends.
ListenersBound ==
  \A c \in Channels :
     InitDone(c) /\ Enabled(c) => bound[c] = Address(c) /\ (c = "UNIX" => ~Unterminated)

\* listen has refused the second of two sockets on one port.
OneListener ==
  \A c, d \in Channels :
     StartDone(c) /\ Opened(c) /\ StartDone(d) /\ Opened(d) /\ c # d /\ bound[c] = bound[d] =>
       bound[c][2] = 0

StageTypes ==
  /\ stage[1] \in {"init", "start"} => stage[2] \in 1 .. 3
  /\ DOMAIN bound = Channels

SVInv == ListenersMade /\ ListenersBound /\ OneListener /\ StageTypes

\* Order and Rank are inverse.
LEMMA Ranks ==
  /\ Channels = {"TCP", "WEBSOCK", "UNIX"}
  /\ \A c \in Channels : Rank[c] \in 1 .. 3 /\ Order[Rank[c]] = c
  /\ \A n \in 1 .. 3 : Order[n] \in Channels /\ Rank[Order[n]] = n
<1>1. Channels = {"TCP", "WEBSOCK", "UNIX"}
  BY DEF Channels, Server
<1>2. \A c \in {"TCP", "WEBSOCK", "UNIX"} : Rank[c] \in 1 .. 3 /\ Order[Rank[c]] = c
  BY DEF Rank, Order
<1>3. \A n \in 1 .. 3 : n = 1 \/ n = 2 \/ n = 3
  OBVIOUS
<1>4. \A n \in 1 .. 3 : Order[n] \in {"TCP", "WEBSOCK", "UNIX"} /\ Rank[Order[n]] = n
  BY <1>3 DEF Rank, Order
<1> QED BY <1>1, <1>2, <1>4

\* Listening, in the terms of StartDone.
LEMMA ListeningChannels ==
  ASSUME SVInv
  PROVE  Listening = {c \in Channels : StartDone(c) /\ Opened(c)}
<1>1. \A c : c \in Started <=> c \in Channels /\ StartDone(c)
  <2>1. CASE stage[1] = "start"
    <3>1. stage[2] \in 1 .. 3 /\ Started = {Order[n] : n \in 1 .. stage[2] - 1}
      BY <2>1 DEF SVInv, StageTypes, Started, At
    <3>2. \A c \in Started : c \in Channels /\ Rank[c] < stage[2]
      BY <3>1, Ranks
    <3>3. \A c \in Channels : Rank[c] < stage[2] => c \in Started
      BY <3>1, Ranks
    <3> QED BY <2>1, <3>2, <3>3 DEF StartDone
  <2>2. CASE stage[1] = "serving"
    <3>1. Started = {Order[n] : n \in 1 .. 3}
      BY <2>2 DEF Started, At
    <3>2. \A c : c \in Started <=> c \in Channels
      BY <3>1, Ranks
    <3> QED BY <2>2, <3>2 DEF StartDone
  <2>3. CASE stage[1] \notin {"start", "serving"}
    <3>1. Started = {}
      BY <2>3 DEF Started, At
    <3> QED BY <2>3, <3>1 DEF StartDone
  <2> QED BY <2>1, <2>2, <2>3
<1> QED BY <1>1 DEF Listening

\* No listener is opened or closed.
SameListeners == \A c \in Channels : Opened(c)' <=> Opened(c)

\* A descriptor opened for something else.
LEMMA OpensElse ==
  ASSUME STInv, NEW what, what \notin Channels, Opens(what)
  PROVE  SameListeners
<1> DEFINE n == Lowest(fds)
<1>1. n \in Table /\ fds[n] = "free" /\ fds' = [fds EXCEPT ![n] = what]
  BY LowestFree DEF Opens, STInv
<1> HIDE DEF n
<1>2. \A fd \in Table : fds'[fd] = IF fd = n THEN what ELSE fds[fd]
  BY <1>1 DEF STInv, FdTypes
<1>3. "free" \notin Channels
  BY Ranks
<1> QED BY <1>1, <1>2, <1>3 DEF SameListeners, Opened, Table

\* A descriptor opened for a listener.
LEMMA OpensListener ==
  ASSUME STInv, NEW c \in Channels, Opens(c)
  PROVE  Opened(c)' /\ \A d \in Channels \ {c} : Opened(d)' <=> Opened(d)
<1> DEFINE n == Lowest(fds)
<1>1. n \in Table /\ fds[n] = "free" /\ fds' = [fds EXCEPT ![n] = c]
  BY LowestFree DEF Opens, STInv
<1> HIDE DEF n
<1>2. \A fd \in Table : fds'[fd] = IF fd = n THEN c ELSE fds[fd]
  BY <1>1 DEF STInv, FdTypes
<1>3. "free" \notin Channels
  BY Ranks
<1> QED BY <1>1, <1>2, <1>3 DEF Opened, Table

\* What happens before init opens no listener.
LEMMA BeforeInit ==
  ASSUME SVInv, SameListeners, stage[1] \notin {"init", "start", "serving"},
         stage'[1] \notin {"start", "serving"}, stage'[1] = "init" => stage'[2] = 1,
         bound' = bound
  PROVE  SVInv'
<1>1. \A c \in Channels : ~InitDone(c) /\ ~Opened(c)
  BY DEF SVInv, InitDone, ListenersMade
<1>2. \A c \in Channels : ~InitDone(c)' /\ ~StartDone(c)' /\ ~Opened(c)'
  BY <1>1, Ranks DEF InitDone, StartDone, SameListeners
<1>3. StageTypes'
  BY DEF SVInv, StageTypes
<1> QED BY <1>2, <1>3 DEF SVInv, ListenersMade, ListenersBound, OneListener

\* exit closes the listeners.
LEMMA ExitClosesAll ==
  ASSUME SVInv, NEW status, ExitsWith(status)
  PROVE  SVInv'
<1>1. stage'[1] = "exited" /\ bound' = bound
  BY DEF ExitsWith, Go
<1>2. \A c \in Channels : ~Opened(c)'
  BY Ranks DEF ExitsWith, Opened
<1>3. \A c \in Channels : ~InitDone(c)' /\ ~StartDone(c)'
  BY <1>1 DEF InitDone, StartDone
<1>4. StageTypes'
  BY <1>1 DEF SVInv, StageTypes
<1> QED BY <1>2, <1>3, <1>4 DEF SVInv, ListenersMade, ListenersBound, OneListener

\* Once the server serves, no listener changes.
LEMMA ServingKeeps ==
  ASSUME SVInv, SameListeners, stage[1] = "serving", stage'[1] = "serving",
         UNCHANGED <<config, cwd, bound>>
  PROVE  SVInv'
<1>1. \A c \in Channels : InitDone(c)' /\ InitDone(c) /\ StartDone(c)' /\ StartDone(c)
  BY DEF InitDone, StartDone
<1>2. \A c \in Channels : (Enabled(c)' <=> Enabled(c)) /\ Address(c)' = Address(c)
  BY DEF Enabled, Address, PathAddress
<1>3. Unterminated' <=> Unterminated
  BY DEF Unterminated
<1>4. StageTypes'
  BY DEF SVInv, StageTypes
<1> QED BY <1>1, <1>2, <1>3, <1>4
        DEF SVInv, ListenersMade, ListenersBound, OneListener, SameListeners

\* init goes on to the next channel.
LEMMA InitNext ==
  ASSUME SVInv, stage[1] = "init", Next_channel("init", stage[2], "start")
  PROVE  LET c == Order[stage[2]]
         IN  /\ c \in Channels /\ ~InitDone(c)
             /\ \A d \in Channels : InitDone(d)' <=> InitDone(d) \/ d = c
             /\ \A d \in Channels : ~StartDone(d)'
             /\ stage'[1] \in {"init", "start"} /\ stage'[2] \in 1 .. 3
<1> DEFINE c == Order[stage[2]]
<1>1. stage[2] \in 1 .. 3
  BY DEF SVInv, StageTypes
<1>2. c \in Channels /\ Rank[c] = stage[2]
  BY <1>1, Ranks
<1>3. \A d \in Channels : Rank[d] \in 1 .. 3 /\ (Rank[d] = stage[2] => d = c)
  BY Ranks
<1> HIDE DEF c
<1>4. CASE stage[2] < 3
  <2>1. stage' = <<"init", stage[2] + 1>>
    BY <1>4 DEF Next_channel, Go
  <2>2. stage'[1] = "init" /\ stage'[2] = stage[2] + 1
    BY <2>1
  <2>3. \A d \in Channels : Rank[d] < stage'[2] <=> Rank[d] < stage[2] \/ d = c
    BY <1>1, <1>2, <1>3, <2>2
  <2> QED BY <1>1, <1>2, <1>4, <2>2, <2>3 DEF InitDone, StartDone, c
<1>5. CASE ~(stage[2] < 3)
  <2>1. stage'[1] = "start" /\ stage'[2] = 1 /\ stage[2] = 3
    BY <1>1, <1>5 DEF Next_channel, Go
  <2>2. \A d \in Channels : Rank[d] < stage[2] \/ d = c
    BY <1>3, <2>1
  <2>3. \A d \in Channels : ~(Rank[d] < 1)
    BY <1>3
  <2> QED BY <1>1, <1>2, <2>1, <2>2, <2>3 DEF InitDone, StartDone, c
<1> QED BY <1>4, <1>5

\* init binds the channel or finds it disabled.
LEMMA InitKeeps ==
  ASSUME STInv, SVInv, init_disabled \/ init_binds
  PROVE  SVInv'
<1>0. PICK c : c = Order[stage[2]]
  OBVIOUS
<1>1. /\ stage[1] = "init" /\ Next_channel("init", stage[2], "start")
      /\ UNCHANGED <<config, cwd>>
  BY DEF init_disabled, init_binds, At
<1>2. /\ c \in Channels /\ ~InitDone(c)
      /\ \A d \in Channels : InitDone(d)' <=> InitDone(d) \/ d = c
      /\ \A d \in Channels : ~StartDone(d)'
      /\ stage'[1] \in {"init", "start"} /\ stage'[2] \in 1 .. 3
  BY <1>0, <1>1, InitNext
<1>3. \A d \in Channels : (Enabled(d)' <=> Enabled(d)) /\ Address(d)' = Address(d)
  BY <1>1 DEF Enabled, Address, PathAddress
<1>4. Unterminated' <=> Unterminated
  BY <1>1 DEF Unterminated
<1>5. ListenersMade /\ ListenersBound /\ DOMAIN bound = Channels
  BY DEF SVInv, StageTypes
<1>6. CASE init_disabled
  <2>1. ~Enabled(c) /\ fds' = fds /\ bound' = bound
    BY <1>0, <1>6 DEF init_disabled
  <2>2. SameListeners
    BY <2>1 DEF SameListeners, Opened
  <2> QED BY <1>2, <1>3, <1>4, <1>5, <2>1, <2>2
          DEF SVInv, ListenersMade, ListenersBound, OneListener, SameListeners, StageTypes
<1>7. CASE init_binds
  <2>1. /\ Enabled(c) /\ Opens(c) /\ (c = "UNIX" => ~Unterminated)
        /\ bound' = [bound EXCEPT ![c] = Address(c)]
    BY <1>0, <1>7 DEF init_binds
  <2>2. Opened(c)' /\ \A d \in Channels \ {c} : Opened(d)' <=> Opened(d)
    BY <1>2, <2>1, OpensListener
  <2>3. DOMAIN bound' = Channels /\ bound'[c] = Address(c) /\ \A d \in Channels \ {c} : bound'[d] = bound[d]
    BY <1>2, <1>5, <2>1
  <2>4. ListenersMade'
    BY <1>2, <1>3, <1>5, <2>1, <2>2 DEF ListenersMade
  <2>5. ListenersBound'
    BY <1>2, <1>3, <1>4, <1>5, <2>1, <2>3 DEF ListenersBound
  <2> QED BY <1>2, <2>3, <2>4, <2>5 DEF SVInv, OneListener, StageTypes
<1> QED BY <1>6, <1>7

\* start_worker: listen.
LEMMA StartKeeps ==
  ASSUME SVInv, start_worker
  PROVE  SVInv'
<1>0. PICK c : c = Order[stage[2]]
  OBVIOUS
<1>1. /\ stage[1] = "start" /\ Next_channel("start", stage[2], "serving")
      /\ UNCHANGED <<config, fds, cwd, bound>>
      /\ Opened(c) => ~SamePort(c)
  BY <1>0 DEF start_worker, At, ListenFails
<1>2. stage[2] \in 1 .. 3
  BY <1>1 DEF SVInv, StageTypes
<1>3. c \in Channels /\ \A d \in Channels : Rank[d] \in 1 .. 3 /\ (Rank[d] = stage[2] => d = c)
  BY <1>0, <1>2, Ranks
<1>4. /\ stage'[1] \in {"start", "serving"} /\ (stage'[1] = "start" => stage'[2] \in 1 .. 3)
      /\ \A d \in Channels : StartDone(d)' => StartDone(d) \/ d = c
  <2>1. CASE stage[2] < 3
    <3>1. stage'[1] = "start" /\ stage'[2] = stage[2] + 1
      BY <1>1, <2>1 DEF Next_channel, Go
    <3>2. \A d \in Channels : Rank[d] < stage'[2] => Rank[d] < stage[2] \/ d = c
      BY <1>2, <1>3, <3>1
    <3> QED BY <1>1, <1>2, <2>1, <3>1, <3>2 DEF StartDone
  <2>2. CASE ~(stage[2] < 3)
    <3>1. stage'[1] = "serving" /\ stage[2] = 3
      BY <1>1, <1>2, <2>2 DEF Next_channel, Go
    <3>2. \A d \in Channels : Rank[d] < stage[2] \/ d = c
      BY <1>3, <3>1
    <3> QED BY <1>1, <3>1, <3>2 DEF StartDone
  <2> QED BY <2>1, <2>2
<1>5. \A d \in Channels : /\ (Opened(d)' <=> Opened(d)) /\ (Enabled(d)' <=> Enabled(d))
                          /\ Address(d)' = Address(d) /\ InitDone(d) /\ InitDone(d)'
  BY <1>1, <1>4 DEF Opened, Enabled, Address, PathAddress, InitDone
<1>6. Unterminated' <=> Unterminated
  BY <1>1 DEF Unterminated
<1>7. ListenersMade' /\ ListenersBound'
  BY <1>1, <1>5, <1>6 DEF SVInv, ListenersMade, ListenersBound
<1>8. Opened(c) => \A d \in Channels : StartDone(d) /\ Opened(d) /\ d # c /\ bound[d] = bound[c] =>
                                          bound[c][2] = 0
  <2> SUFFICES ASSUME Opened(c), NEW d \in Channels, StartDone(d), Opened(d), bound[d] = bound[c]
               PROVE  bound[c][2] = 0
    OBVIOUS
  <2>1. d \in Listening
    BY ListeningChannels
  <2>2. CASE c = "UNIX"
    <3>1. bound[c] = Address(c)
      BY <1>3, <1>5 DEF SVInv, ListenersMade, ListenersBound
    <3> QED BY <2>2, <3>1 DEF Address, PathAddress
  <2>3. CASE c # "UNIX"
    BY <1>1, <2>1, <2>3 DEF SamePort
  <2> QED BY <2>2, <2>3
<1>9. OneListener'
  BY <1>1, <1>4, <1>5, <1>8 DEF SVInv, OneListener
<1> QED BY <1>1, <1>4, <1>7, <1>9 DEF SVInv, StageTypes

\* Every step keeps the listeners right.
LEMMA NextKeepsSVInv ==
  ASSUME STInv, SVInv, [STNext]_vars
  PROVE  SVInv'
<1>1. CASE UNCHANGED vars
  <2>1. UNCHANGED <<stage, config, fds, cwd, bound>>
    BY <1>1 DEF vars
  <2>2. \A c \in Channels : /\ Opened(c)' <=> Opened(c)
                            /\ InitDone(c)' <=> InitDone(c)
                            /\ StartDone(c)' <=> StartDone(c)
                            /\ Enabled(c)' <=> Enabled(c)
    BY <2>1 DEF Opened, InitDone, StartDone, Enabled
  <2>3. \A c \in Channels : Address(c)' = Address(c)
    BY <2>1 DEF Address, PathAddress
  <2>4. Unterminated' <=> Unterminated
    BY <2>1 DEF Unterminated
  <2>5. ListenersMade' /\ ListenersBound'
    BY <2>1, <2>2, <2>3, <2>4 DEF SVInv, ListenersMade, ListenersBound
  <2>6. OneListener' /\ StageTypes'
    BY <2>1, <2>2 DEF SVInv, OneListener, StageTypes
  <2> QED BY <2>5, <2>6 DEF SVInv
<1>2. CASE option_help \/ option_unknown \/ load_file_fails \/ fork_fails
           \/ daemonize_fails \/ constructor_fails \/ init_fails
           \/ create_unix_listening_overflows \/ start_worker_fails
  <2>1. PICK status : ExitsWith(status)
    BY <1>2 DEF option_help, option_unknown, load_file_fails, fork_fails, daemonize_fails,
       constructor_fails, init_fails, create_unix_listening_overflows, start_worker_fails
  <2> QED BY <2>1, ExitClosesAll
<1>3. ASSUME UNCHANGED fds
      PROVE  SameListeners
  BY <1>3 DEF SameListeners, Opened
<1>4. CASE option_verbose \/ option_config \/ load_file_ends \/ options_end \/ stay_in_foreground
           \/ fork \/ init_signals \/ init_devices
  <2>1. /\ stage[1] \notin {"init", "start", "serving"} /\ stage'[1] \notin {"start", "serving"}
        /\ stage'[1] = "init" => stage'[2] = 1
        /\ UNCHANGED <<fds, bound>>
    BY <1>4 DEF option_verbose, option_config, load_file_ends, options_end, stay_in_foreground,
       fork, init_signals, init_devices, At, Go
  <2> QED BY <1>3, <2>1, BeforeInit
<1>5. ASSUME NEW f \in Fields, load_file_field(f)
      PROVE  SVInv'
  <2>1. CASE ExitsWith("FAILURE")
    BY <2>1, ExitClosesAll
  <2>2. CASE ~ExitsWith("FAILURE")
    <3>1. stage[1] = "file" /\ stage'[1] = "file" /\ UNCHANGED <<fds, bound>>
      BY <1>5, <2>2 DEF load_file_field, At, Go
    <3> QED BY <1>3, <3>1, BeforeInit
  <2> QED BY <2>1, <2>2
<1>6. CASE daemonize
  <2>1. /\ stage[1] = "child" /\ stage'[1] = "syslog" /\ bound' = bound
        /\ fds' = [fd \in Table |-> IF fd <= 2 THEN "free" ELSE fds[fd]]
    BY <1>6 DEF daemonize, At, Go, Table
  <2>2. \A fd \in Table : fds[fd] = IF fd <= 2 THEN "terminal" ELSE "free"
    BY <2>1 DEF STInv, TerminalFds
  <2>3. SameListeners
    BY <2>1, <2>2, Ranks DEF SameListeners, Opened, Table
  <2> QED BY <2>1, <2>3, BeforeInit
<1>7. CASE open_syslog
  <2>1. /\ stage[1] = "syslog" /\ stage'[1] = "signals" /\ bound' = bound
        /\ Opens("syslog") \/ UNCHANGED fds
    BY <1>7 DEF open_syslog, At, Go
  <2>2. SameListeners
    BY <1>3, <2>1, OpensElse, Ranks
  <2> QED BY <2>1, <2>2, BeforeInit
<1>8. CASE init_disabled \/ init_binds
  BY <1>8, InitKeeps
<1>9. CASE start_worker
  BY <1>9, StartKeeps
<1>10. CASE notify_open \/ open_communication
  <2>1. /\ stage[1] = "serving" /\ stage'[1] = "serving" /\ UNCHANGED <<config, cwd, bound>>
        /\ Opens("notify") \/ Opens("client")
    BY <1>10 DEF notify_open, open_communication, At, Go
  <2>2. SameListeners
    BY <2>1, OpensElse, Ranks
  <2> QED BY <2>1, <2>2, ServingKeeps
<1>11. CASE notify_close \/ \E fd \in Table : client_closes(fd)
  <2>1. /\ stage[1] = "serving" /\ stage'[1] = "serving" /\ UNCHANGED <<config, cwd, bound>>
    BY <1>11 DEF notify_close, client_closes, At, Go
  <2>2. \A fd \in Table : fds'[fd] = fds[fd] \/ (fds[fd] \in {"notify", "client"} /\ fds'[fd] = "free")
    BY <1>11 DEF notify_close, client_closes, Table, STInv, FdTypes
  <2>3. SameListeners
    BY <2>2, Ranks DEF SameListeners, Opened, Table
  <2> QED BY <2>1, <2>3, ServingKeeps
<1> QED BY <1>1, <1>2, <1>4, <1>5, <1>6, <1>7, <1>8, <1>9, <1>10, <1>11 DEF STNext, Table

\* What the invariants say of a server that serves.
LEMMA ServingAsWritten ==
  ASSUME SVInv, ConfigAsWritten, At("serving")
  PROVE  ServesAsConfigured
<1>1. Listening = {c \in Channels : config.worker_connections[c] > 0}
  BY ListeningChannels DEF SVInv, ListenersMade, Enabled, At, InitDone, StartDone
<1>2. \A c \in Channels : config.worker_connections[c] = WrittenWorkers(c)
  BY DEF ConfigAsWritten
<1>3. Listening = {c \in Channels : WrittenWorkers(c) > 0}
  BY <1>1, <1>2
<1>4. \A c \in Listening : /\ c \in Channels /\ bound[c] = Address(c)
                           /\ (c = "UNIX" => ~Unterminated)
  BY ListeningChannels DEF SVInv, ListenersMade, ListenersBound
<1>5. \A c \in Listening \ {"UNIX"} :
        config.port[c] \in 1 .. MaxPort => bound[c] = <<"", config.port[c], "">>
  <2>0. MaxPort \in Nat /\ MaxPort < 65536
    BY DEF MaxPort
  <2> SUFFICES ASSUME NEW c \in Listening \ {"UNIX"}, config.port[c] \in 1 .. MaxPort
               PROVE  bound[c] = <<"", config.port[c], "">>
    OBVIOUS
  <2>1. htons(config.port[c]) = config.port[c]
    BY <2>0, SMT DEF htons
  <2>2. bound[c] = <<"", htons(config.port[c]), "">>
    BY <1>4 DEF Address
  <2> QED BY <2>1, <2>2
<1>6. "UNIX" \in Listening =>
        LET path == LastOr(IsPath, WrittenText, DFLT_UNIX_SOCK_PATH)
        IN  /\ path.first = "/" => bound["UNIX"] = <<path.name, 0, "root">>
            /\ path.len = UNIX_SOCKET_PATH_LEN => WrittenWorkers("UNIX") % 256 = 0
  <2>1. config.unixsock_path = LastOr(IsPath, WrittenText, DFLT_UNIX_SOCK_PATH)
    BY DEF ConfigAsWritten
  <2>2. "UNIX" \in Listening => bound["UNIX"] = PathAddress /\ ~Unterminated
    BY <1>4 DEF Address
  <2>3. config.worker_connections.UNIX = WrittenWorkers("UNIX")
    BY <1>2, Ranks
  <2> QED BY <2>1, <2>2, <2>3 DEF PathAddress, Unterminated
<1>7. \A c, d \in Listening : c # d /\ bound[c] = bound[d] => bound[c][2] = 0
  BY ListeningChannels DEF SVInv, OneListener
<1> QED BY <1>3, <1>5, <1>6, <1>7 DEF ServesAsConfigured

\* A server that serves does so on exactly the channels whose written number
\* of workers is not 0, each at the address written for it, and never two on
\* one port: init (kserver.cpp) and listen (listening_channel.cpp) see to it.
THEOREM STServesAsConfigured == STSpec => []ServesAsConfigured
<1>1. STInit => SVInv
  <2> SUFFICES ASSUME STInit PROVE SVInv
    OBVIOUS
  <2>1. stage[1] = "options" /\ DOMAIN bound = Channels
    BY DEF STInit
  <2>2. \A c \in Channels : ~Opened(c)
    BY Ranks DEF STInit, Opened
  <2> QED BY <2>1, <2>2 DEF SVInv, ListenersMade, ListenersBound, OneListener, StageTypes,
             InitDone, StartDone
<1>2. STInv /\ SVInv /\ [STNext]_vars => SVInv'
  BY NextKeepsSVInv
<1>3. SVInv /\ ConfigAsWritten => ServesAsConfigured
  <2>1. CASE At("serving")
    BY <2>1, ServingAsWritten
  <2>2. CASE ~At("serving")
    BY <2>2 DEF ServesAsConfigured
  <2> QED BY <2>1, <2>2
<1> QED BY <1>1, <1>2, <1>3, STInvariance, STConfigAsWritten, PTL DEF STSpec
=============================================================================
