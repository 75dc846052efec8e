----------------------------- MODULE MCStartup ------------------------------
(***************************************************************************)
(* The fields of the files tried: each switch, ports that collide as they  *)
(* are and after the cut to 16 bits, numbers of workers that disable a     *)
(* channel or have a low byte of 0, paths that are absolute, relative or   *)
(* of full length, and fields the code refuses.                            *)
(***************************************************************************)
EXTENDS Startup

Str(name, first, len) == [tag |-> "string", str |-> Text(name, first, len)]
Num(n) == [tag |-> "number", num |-> n]
Field(section, key, value) == [section |-> section, key |-> key, value |-> value]

ON  == Str("ON", "O", 2)
OFF == Str("OFF", "O", 3)
FullPath == Str("/full", "/", UNIX_SOCKET_PATH_LEN)

MCFields ==
    {Field("daemon", "", OFF), Field("verbose", "", ON), Field("daemon", "", ON),
     Field("notify-systemd", "", ON),
     Field("notify-socket", "", Str("/run/other", "/", 10)),
     Field("logs", "system_log", ON),
     Field("TCP", "listen", Num(8080)), Field("TCP", "worker_connections", Num(0)),
     Field("websocket", "listen", Num(101536)),
     Field("websocket", "worker_connections", Num(0)),
     Field("unix", "path", FullPath), Field("unix", "path", Str("@name", "@", 5)),
     Field("unix", "worker_connections", Num(0)),
     Field("unix", "worker_connections", Num(300)),
     Field("unix", "path", Str("/longer", "/", UNIX_SOCKET_PATH_LEN + 1)),
     Field("unix", "listen", Num(1)), Field("verbose", "", Num(1)),
     Field("addr_limits", "down", Str("0x0", "0", 3))}

=============================================================================
