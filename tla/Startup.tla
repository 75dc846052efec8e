------------------------------ MODULE Startup -------------------------------
(***************************************************************************)
(* From the command line to the first clients: the options and files that  *)
(* make the configuration, the daemon's fork, the constructor of KServer   *)
(* and the listeners it opens (core/main.cpp, core/config.cpp,             *)
(* core/kserver.cpp, core/signal_handler.cpp, core/listening_channel.cpp). *)
(*                                                                         *)
(* Every call that the code checks may fail.  File descriptors are modelled *)
(* because a daemon closes 0, 1 and 2 and goes on writing its messages to  *)
(* 1 and 2, whatever has been opened there since.                          *)
(***************************************************************************)
EXTENDS Config, Sequences, FiniteSets

CONSTANTS Fields,       \* the fields a configuration file may hold
          MaxWritten,   \* bound on options and fields, in all
          MaxFd,        \* highest descriptor modelled
          MaxClients    \* bound on the clients connected at a time

\* Standard input, output and error are among the descriptors.
ASSUME StartupAssumption ==
    {MaxWritten, MaxClients} \subseteq Nat /\ MaxFd \in Nat \ {0, 1}

\* A number read is cast to an unsigned integer.
ASSUME FieldsAssumption == \A f \in Fields : f.value.tag = "number" => f.value.num \in Nat

VARIABLES stage,      \* how far main has got
          config,     \* the KServerConfig
          written,    \* history: the options and fields accepted, in order
          fds,        \* what each file descriptor is open on
          cwd,        \* working directory of the process
          bound,      \* channel -> address its socket is bound to
          launcher    \* exit status seen by who started the server

vars == <<stage, config, written, fds, cwd, bound, launcher>>

Channels == DOMAIN Server
Order == <<"TCP", "WEBSOCK", "UNIX">>   \* the order of the constructor and of run
NoAddress == <<"", 0, "">>   \* path, port, directory

\* -v, and the end of a file given with -c, in the history.
Mark(option) == [section |-> option, key |-> "", value |-> [tag |-> "null"]]

STInit ==
    /\ stage = <<"options", 0>>
    /\ config = KServerConfig
    /\ written = <<>>
    /\ fds = [fd \in 0 .. MaxFd |-> IF fd <= 2 THEN "terminal" ELSE "free"]
    /\ cwd = "launch"
    /\ bound = [c \in Channels |-> NoAddress]
    /\ launcher = "none"

At(name) == stage[1] = name
Go(name, n) == stage' = <<name, n>>

\* The kernel hands out the lowest descriptor that is free.
Lowest(table) ==
    CHOOSE fd \in 0 .. MaxFd :
        table[fd] = "free" /\ \A g \in 0 .. fd - 1 : table[g] # "free"

HasFree == \E fd \in 0 .. MaxFd : fds[fd] = "free"
Opens(what) == HasFree /\ fds' = [fds EXCEPT ![Lowest(fds)] = what]

\* exit(status).  Who started a daemon has its parent's status already.
ExitsWith(status) ==
    /\ Go("exited", 0)
    /\ launcher' = IF launcher = "none" THEN status ELSE launcher
    /\ fds' = [fd \in 0 .. MaxFd |-> "free"]
    /\ UNCHANGED <<config, written, cwd, bound>>

-----------------------------------------------------------------------------
\* parse_options and load_file.

option_verbose ==
    /\ At("options") /\ Len(written) < MaxWritten
    /\ config' = [config EXCEPT !.verbose = TRUE]
    /\ written' = Append(written, Mark("-v"))
    /\ UNCHANGED <<stage, fds, cwd, bound, launcher>>

option_config ==
    /\ At("options") /\ Len(written) < MaxWritten
    /\ Go("file", 0)
    /\ UNCHANGED <<config, written, fds, cwd, bound, launcher>>

\* -h, and whatever getopt_long does not know.
option_help    == At("options") /\ ExitsWith("SUCCESS")
option_unknown == At("options") /\ ExitsWith("FAILURE")

\* The file cannot be opened, is not JSON or is not an object: known before
\* the first field is read.
load_file_fails == stage = <<"file", 0>> /\ ExitsWith("FAILURE")

load_file_field(f) ==
    /\ At("file") /\ Len(written) < MaxWritten
    /\ \/ /\ Accepted(f)
          /\ config' = read_field(config, f)
          /\ written' = Append(written, f)
          /\ Go("file", 1)
          /\ UNCHANGED <<fds, cwd, bound, launcher>>
       \/ ~Accepted(f) /\ ExitsWith("FAILURE")

load_file_ends ==
    /\ At("file")
    /\ config' = _check_config(config)
    /\ written' = Append(written, Mark("-c"))
    /\ Go("options", 0)
    /\ UNCHANGED <<fds, cwd, bound, launcher>>

options_end ==
    /\ At("options")
    /\ Go("daemon", 0)
    /\ UNCHANGED <<config, written, fds, cwd, bound, launcher>>

-----------------------------------------------------------------------------
\* main: the daemon.

\* A mutant of RunsAsDaemon: the test of config->daemon is dropped.
AlwaysDaemon == TRUE

RunsAsDaemon == config.daemon

stay_in_foreground ==
    /\ At("daemon") /\ ~RunsAsDaemon
    /\ Go("syslog", 0)
    /\ UNCHANGED <<config, written, fds, cwd, bound, launcher>>

\* fork fails.
fork_fails == At("daemon") /\ RunsAsDaemon /\ ExitsWith("FAILURE")

\* The parent exits with success whatever becomes of the child.
fork ==
    /\ At("daemon") /\ RunsAsDaemon
    /\ Go("child", 0)
    /\ launcher' = "SUCCESS"
    /\ UNCHANGED <<config, written, fds, cwd, bound>>

\* setsid or chdir fails.
daemonize_fails == At("child") /\ ExitsWith("FAILURE")

daemonize ==
    /\ At("child")
    /\ Go("syslog", 0)
    /\ cwd' = "root"
    /\ fds' = [fd \in 0 .. MaxFd |-> IF fd <= 2 THEN "free" ELSE fds[fd]]
    /\ UNCHANGED <<config, written, bound, launcher>>

-----------------------------------------------------------------------------
\* The constructor of KServer.

\* SysLog: openlog with LOG_NDELAY connects at once; nothing tells if it fails.
open_syslog ==
    /\ At("syslog")
    /\ \/ config.syslog /\ Opens("syslog")
       \/ UNCHANGED fds
    /\ Go("signals", 0)
    /\ UNCHANGED <<config, written, cwd, bound, launcher>>

\* SignalHandler::init and DeviceManager::init.
init_signals ==
    /\ At("signals") /\ Go("devices", 0)
    /\ UNCHANGED <<config, written, fds, cwd, bound, launcher>>

init_devices ==
    /\ At("devices") /\ Go("init", 1)
    /\ UNCHANGED <<config, written, fds, cwd, bound, launcher>>

constructor_fails == stage[1] \in {"signals", "devices"} /\ ExitsWith("FAILURE")

Enabled(c) == config.worker_connections[c] > 0

\* The 16 bits of a port that reach the socket: htons takes a uint16_t.
\* For 0 the kernel picks a free port.
htons(port) == port % 65536

\* unixsock_path runs on into the next member when it fills its array and
\* that member's low byte is not zero.
Unterminated ==
    /\ config.unixsock_path.len = UNIX_SOCKET_PATH_LEN
    /\ config.worker_connections.UNIX % 256 # 0

\* A path that does not start with '/' is relative, '@' included.
PathAddress ==
    <<config.unixsock_path.name, 0,
      IF config.unixsock_path.first = "/" THEN "root" ELSE cwd>>

Address(c) ==
    IF c = "UNIX" THEN PathAddress ELSE <<"", htons(config.port[c]), "">>

Next_channel(name, n, next) == IF n < 3 THEN Go(name, n + 1) ELSE Go(next, 1)

init_disabled ==
    /\ At("init") /\ ~Enabled(Order[stage[2]])
    /\ Next_channel("init", stage[2], "start")
    /\ UNCHANGED <<config, written, fds, cwd, bound, launcher>>

\* create_tcp_listening and create_unix_listening.  Two sockets may be bound
\* to one port as long as none listens: SO_REUSEADDR is set.  A Unix address
\* longer than sockaddr_un is refused.
init_binds ==
    /\ At("init") /\ Enabled(Order[stage[2]])
    /\ LET c == Order[stage[2]]
       IN  /\ c = "UNIX" => ~Unterminated
           /\ Opens(c)
           /\ bound' = [bound EXCEPT ![c] = Address(c)]
    /\ Next_channel("init", stage[2], "start")
    /\ UNCHANGED <<config, written, cwd, launcher>>

\* A mutant of init_fails: main is left as after a normal end.
init_fails_unseen ==
    /\ At("init") /\ Enabled(Order[stage[2]])
    /\ ExitsWith("SUCCESS")

\* socket or bind fails.
init_fails ==
    /\ At("init") /\ Enabled(Order[stage[2]])
    /\ ExitsWith("FAILURE")

\* A path that fills sun_path is copied there with its terminator one byte
\* after the end of the structure: the program may not survive it.
create_unix_listening_overflows ==
    /\ At("init") /\ Order[stage[2]] = "UNIX" /\ Enabled("UNIX")
    /\ config.unixsock_path.len = UNIX_SOCKET_PATH_LEN
    /\ ExitsWith("ABORT")

-----------------------------------------------------------------------------
\* KServer::run: start_listeners_workers.

Opened(c) == \E fd \in 0 .. MaxFd : fds[fd] = c

\* The channels start_worker has been through, and that listen.
Started ==
    {Order[n] : n \in 1 .. (IF At("start") THEN stage[2] - 1
                            ELSE IF At("serving") THEN 3 ELSE 0)}
Listening == {c \in Started : Opened(c)}

\* listen() validates the port again: only one socket may listen on it.
SamePort(c) ==
    /\ c # "UNIX"
    /\ \E d \in Listening : bound[d] = bound[c] /\ bound[c][2] # 0

\* A mutant of ListenFails: the result of listen is not looked at.
ListenIgnored(c) == FALSE

ListenFails(c) == SamePort(c)

start_worker ==
    /\ At("start")
    /\ Opened(Order[stage[2]]) => ~ListenFails(Order[stage[2]])
    /\ Next_channel("start", stage[2], "serving")
    /\ UNCHANGED <<config, written, fds, cwd, bound, launcher>>

\* listen fails, also because of another process: run returns -1, and main
\* exits as it does at a normal end.
start_worker_fails ==
    /\ At("start") /\ Opened(Order[stage[2]])
    /\ ExitsWith("SUCCESS")

-----------------------------------------------------------------------------
\* Serving.

\* notify_systemd_ready opens a socket and closes it; stage[2] = 2 meanwhile.
notify_open ==
    /\ stage = <<"serving", 1>> /\ config.notify_systemd
    /\ Opens("notify")
    /\ Go("serving", 2)
    /\ UNCHANGED <<config, written, cwd, bound, launcher>>

notify_close ==
    /\ stage = <<"serving", 2>>
    /\ fds' = [fd \in 0 .. MaxFd |-> IF fds[fd] = "notify" THEN "free" ELSE fds[fd]]
    /\ Go("serving", 3)
    /\ UNCHANGED <<config, written, cwd, bound, launcher>>

open_communication ==
    /\ At("serving") /\ Listening # {}
    /\ Cardinality({fd \in 0 .. MaxFd : fds[fd] = "client"}) < MaxClients
    /\ Opens("client")
    /\ UNCHANGED <<stage, config, written, cwd, bound, launcher>>

client_closes(fd) ==
    /\ At("serving") /\ fds[fd] = "client"
    /\ fds' = [fds EXCEPT ![fd] = "free"]
    /\ UNCHANGED <<stage, config, written, cwd, bound, launcher>>

STNext ==
    \/ option_verbose \/ option_config \/ option_help \/ option_unknown
    \/ load_file_fails \/ load_file_ends \/ options_end
    \/ \E f \in Fields : load_file_field(f)
    \/ stay_in_foreground \/ fork_fails \/ fork \/ daemonize_fails \/ daemonize
    \/ open_syslog \/ init_signals \/ init_devices \/ constructor_fails
    \/ init_disabled \/ init_binds \/ init_fails
    \/ create_unix_listening_overflows
    \/ start_worker \/ start_worker_fails
    \/ notify_open \/ notify_close \/ open_communication
    \/ \E fd \in 0 .. MaxFd : client_closes(fd)

STSpec == STInit /\ [][STNext]_vars

-----------------------------------------------------------------------------
(* Properties. *)

\* The fields written so far that satisfy Is, and the last of them.
Places(Is(_)) == {n \in 1 .. Len(written) : Is(written[n])}
LastOf(S) == CHOOSE n \in S : \A m \in S : m <= n
LastOr(Is(_), Of(_), default) ==
    IF Places(Is) = {} THEN default ELSE Of(written[LastOf(Places(Is))])

WrittenOn(f) == f.value.str.name = "ON"
WrittenNumber(f) == f.value.num
WrittenText(f) == f.value.str

IsPath(f) == IsNotifySocket(f) \/ (IsServer(f, "UNIX") /\ f.key = "path")
IsWorkers(f, c) == IsServer(f, c) /\ f.key = "worker_connections"
FillsArray(f) == IsPath(f) /\ f.value.str.len = UNIX_SOCKET_PATH_LEN

\* The number of workers written for a channel.  For the Unix socket, a path
\* that fills its array after that zeroes the low byte.
WrittenWorkers(c) ==
    LET workers(f) == IsWorkers(f, c)
        w == LastOr(workers, WrittenNumber, KServerConfig.worker_connections[c])
    IN  IF c = "UNIX" /\ \E n \in Places(FillsArray) :
                              \A m \in Places(workers) : m < n
        THEN w - (w % 256) ELSE w

(***************************************************************************)
(* The configuration is what the files say: each field has the value that  *)
(* was written last, by whichever file, or its default.  The exceptions are *)
(* what the code does: a notify-socket is taken as the path of the Unix    *)
(* socket and systemd is notified at the default address (config.cpp:301); *)
(* a path of full length clears the low byte of the Unix workers (:182);   *)
(* and a daemon is verbose only if -v comes after the last file (:225).    *)
(***************************************************************************)
ConfigAsWritten ==
    /\ \A s \in DOMAIN Switch \ {"verbose"} :
          LET named(f) == IsSwitch(f, s)
          IN  config[s] = LastOr(named, WrittenOn, KServerConfig[s])
    /\ LET logs(f) == f.section = "logs"
       IN  config.syslog = LastOr(logs, WrittenOn, FALSE)
    /\ \A c \in {"TCP", "WEBSOCK"} :
          LET listen(f) == IsServer(f, c) /\ f.key = "listen"
          IN  config.port[c] = LastOr(listen, WrittenNumber, KServerConfig.port[c])
    /\ \A c \in Channels : config.worker_connections[c] = WrittenWorkers(c)
    /\ config.unixsock_path = LastOr(IsPath, WrittenText, DFLT_UNIX_SOCK_PATH)
    /\ config.notify_socket = DFLT_NOTIFY_SOCKET
    /\ config.verbose /\ config.daemon /\ stage[1] \notin {"file", "exited"} =>
          \E n \in 1 .. Len(written) :
              /\ written[n].section = "-v"
              /\ \A m \in n .. Len(written) : written[m].section = "-v"

\* The largest port that fits in 16 bits.
MaxPort == 65535

(***************************************************************************)
(* A server that serves does so on exactly the channels whose written      *)
(* number of workers is not 0, the Unix one included unless a path of full *)
(* length cleared it; each on the address written for it, a port cut to 16 *)
(* bits and a path taken from the working directory unless absolute; and   *)
(* never two on one port.                                                  *)
(***************************************************************************)
ServesAsConfigured ==
    At("serving") =>
       /\ Listening = {c \in Channels : WrittenWorkers(c) > 0}
       /\ \A c \in Listening \ {"UNIX"} :
             config.port[c] \in 1 .. MaxPort => bound[c] = <<"", config.port[c], "">>
       /\ "UNIX" \in Listening =>
             LET path == LastOr(IsPath, WrittenText, DFLT_UNIX_SOCK_PATH)
             IN  /\ path.first = "/" => bound["UNIX"] = <<path.name, 0, "root">>
                 /\ path.len = UNIX_SOCKET_PATH_LEN =>
                       WrittenWorkers("UNIX") % 256 = 0
       /\ \A c, d \in Listening :
             c # d /\ bound[c] = bound[d] => bound[c][2] = 0

(***************************************************************************)
(* Who starts the server hears of a start that failed: the status is a     *)
(* failure, unless the server is a daemon, whose parent has exited before  *)
(* anything was tried (main.cpp:94), the failure is that of listen, which  *)
(* main does not look at (main.cpp:131), or help was asked for.            *)
(***************************************************************************)
FailureReported ==
    [][stage[1] # "exited" /\ stage'[1] = "exited" =>
          \/ launcher' \in {"FAILURE", "ABORT"}
          \/ config.daemon
          \/ stage[1] \in {"start", "options"}]_vars

(***************************************************************************)
(* What the server prints never enters a client's connection: a client's   *)
(* descriptor is stdout or stderr only in a daemon that had too little     *)
(* open, listeners and syslog together, to fill the three descriptors that *)
(* daemonize closed (main.cpp:108).                                        *)
(***************************************************************************)
OutputNotToClients ==
    \A fd \in {1, 2} :
       fds[fd] = "client" =>
          /\ config.daemon
          /\ Cardinality(Listening)
               + Cardinality({g \in 0 .. MaxFd : fds[g] = "syslog"}) <= fd

=============================================================================
