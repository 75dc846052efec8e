------------------------------- MODULE Config -------------------------------
(***************************************************************************)
(* The configuration of the server (core/config.hpp, core/config.cpp).     *)
(*                                                                         *)
(* A JSON document is handed over by the parser (core/gason.cpp) as fields *)
(* in file order, and the code reads them one by one.  An object such as   *)
(* "TCP": {"listen": 1, "worker_connections": 2} is read key by key, so a  *)
(* document is flattened here into fields [section, key, value]; the key   *)
(* of a field whose value is no object is "".  A value is a record with    *)
(* its JSON tag and                                                        *)
(*   - for a number, num, an unsigned integer;                             *)
(*   - for a string, str, of which the code looks at the whole (name), the *)
(*     first character (first) and the length (len).                       *)
(***************************************************************************)
EXTENDS Integers

CONSTANT UNIX_SOCKET_PATH_LEN   \* sizeof unixsock_path

ASSUME PathLenAssumption == UNIX_SOCKET_PATH_LEN \in Nat \ {0, 1}

Text(name, first, len) == [name |-> name, first |-> first, len |-> len]

DFLT_UNIX_SOCK_PATH == Text("/var/run/kserver.sock", "/", 21)
DFLT_NOTIFY_SOCKET  == Text("/run/systemd/notify", "/", 19)

\* The constructor: what the server runs with when no file says otherwise.
KServerConfig ==
    [verbose |-> FALSE, tcp_nodelay |-> FALSE, syslog |-> FALSE,
     daemon |-> TRUE, notify_systemd |-> FALSE,
     port |-> [TCP |-> 36000, WEBSOCK |-> 8080],
     worker_connections |-> [TCP |-> 10, WEBSOCK |-> 10, UNIX |-> 10],
     unixsock_path |-> DFLT_UNIX_SOCK_PATH,
     notify_socket |-> DFLT_NOTIFY_SOCKET]

-----------------------------------------------------------------------------
\* What a field may hold.

is_on(value) ==
    CASE value.tag = "string" /\ value.str.name = "ON"  -> 1
      [] value.tag = "string" /\ value.str.name = "OFF" -> 0
      [] OTHER -> -1

\* Longer than the array is refused; exactly as long is not, although the
\* terminator then has no room.
check_unixsocket_path(value) ==
    /\ value.tag = "string"
    /\ value.str.first \in {"@", "/"}
    /\ value.str.len > 1
    /\ value.str.len <= UNIX_SOCKET_PATH_LEN

Switch == [verbose |-> "verbose", tcp_nodelay |-> "tcp_nodelay",
           daemon |-> "daemon", notify_systemd |-> "notify-systemd"]

Server == [TCP |-> "TCP", WEBSOCK |-> "websocket", UNIX |-> "unix"]

\* The field names a switch of the configuration / a server.
IsSwitch(f, s) == f.section = Switch[s] /\ f.key = ""
IsServer(f, c) == f.section = Server[c]

_read_log(f) == f.section = "logs" /\ f.key = "system_log" /\ is_on(f.value) >= 0

_read_server(f, c) ==
    /\ IsServer(f, c)
    /\ \/ f.key = "listen" /\ f.value.tag = "number" /\ c # "UNIX"
       \/ f.key = "path" /\ c = "UNIX" /\ check_unixsocket_path(f.value)
       \/ f.key = "worker_connections" /\ f.value.tag = "number"

IsNotifySocket(f) == f.section = "notify-socket" /\ f.key = ""

\* load_file goes on after this field, instead of returning -1.
Accepted(f) ==
    \/ \E s \in DOMAIN Switch : IsSwitch(f, s) /\ is_on(f.value) >= 0
    \/ IsNotifySocket(f) /\ check_unixsocket_path(f.value)
    \/ _read_log(f)
    \/ \E c \in DOMAIN Server : _read_server(f, c)

-----------------------------------------------------------------------------
\* What a field does.

\* strcpy into unixsock_path.  The terminator of a path that fills the array
\* is the low byte of the next member, unixsock_worker_connections.
copy_path(config, path) ==
    [config EXCEPT
       !.unixsock_path = path,
       !.worker_connections.UNIX =
           IF path.len = UNIX_SOCKET_PATH_LEN THEN @ - (@ % 256) ELSE @]

\* The configuration after load_file has read an accepted field.  The path of
\* notify-socket goes where the path of the Unix socket goes.
read_field(config, f) ==
    CASE \E s \in DOMAIN Switch : IsSwitch(f, s) ->
           LET s == CHOOSE s \in DOMAIN Switch : IsSwitch(f, s)
           IN  [config EXCEPT ![s] = (is_on(f.value) = 1)]
      [] IsNotifySocket(f) -> copy_path(config, f.value.str)
      [] f.section = "logs" -> [config EXCEPT !.syslog = (is_on(f.value) = 1)]
      [] \E c \in DOMAIN Server : IsServer(f, c) ->
           LET c == CHOOSE c \in DOMAIN Server : IsServer(f, c)
           IN  CASE f.key = "listen" ->
                      [config EXCEPT !.port[c] = f.value.num]
                 [] f.key = "path" -> copy_path(config, f.value.str)
                 [] f.key = "worker_connections" ->
                      [config EXCEPT !.worker_connections[c] = f.value.num]

\* A mutant of _check_config: a daemon stays verbose.
check_config_forgets(config) == config

\* Stdout is not available to a daemon: it is made quiet.
_check_config(config) ==
    [config EXCEPT !.verbose = config.verbose /\ ~config.daemon]

=============================================================================
