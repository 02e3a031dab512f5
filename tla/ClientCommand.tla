--------------------------- MODULE ClientCommand ---------------------------
(***************************************************************************)
(* The client's command from argv to the server: main() of tmux.c packs    *)
(* argv into the static msg_command_data (prepare_cmd), parses it itself   *)
(* for the CMD_STARTSERVER decision, and only then connects and queues the *)
(* MSG_COMMAND; the server unpacks the argv from the payload.  Composed    *)
(* with the protocol of ClientLoop, which runs once the message is queued. *)
(*                                                                         *)
(* The client starts the server (CMD_STARTSERVER), which runs server_start *)
(* (server.c, not among the sources: spec 4.4, 4.5): load_cfg of the      *)
(* configuration file (ConfigLoader) before the loop reads any message;   *)
(* on failure it writes the cause to the client with server_write_error    *)
(* and shuts down.                                                         *)
(*                                                                         *)
(* cmd_list_parse (cmd-list.c) is not among the sources; for an argv with  *)
(* no ";" it is cmd_parse of the whole argv (spec 4.1), and the argvs      *)
(* checked have none.                                                      *)
(***************************************************************************)
EXTENDS ClientLoop, CmdParse, ConfigLoader

CONSTANTS
  Argvs,      \* command lines the client can be started with
  Options,    \* what getopt and the environment give main(): see Opts
  CmdTable,   \* cmd_table; an entry's start is its CMD_STARTSERVER flag
  ArgvSize,   \* sizeof cmddata.argv
  Tables,     \* command tables shaped like cmd_table, for the lookup check
  CfgFiles,   \* files -f can name
  NoFile,     \* cfg_file == NULL
  DefaultCfg, \* $HOME/.tmux.conf
  Readable    \* the files access(R_OK) finds when main() runs

VARIABLES
  argv,       \* main()'s argv after getopt
  opts,       \* [f: -f's file or NoFile, unlock: -U, pass: what getpass
              \*  returns, S: -S, sock: the socket directory as makesockpath
              \*  finds it, up: a server already listens]
  prep,       \* "pending", "sent", or why main() exit(1)ed before connecting
  cmdMsg,     \* the message client_write_server queued in srv_out
  srvArgv,    \* <<>>, or <<the server's cmd_unpack_argv result>>
  cfgFile,    \* the cfg_file the forked server inherits
  srvStart    \* "down", "load", "run", or "shutdown" after a failed load

cmdVars == <<argv, opts, prep, cmdMsg, srvArgv, cfgFile, srvStart, cfgVars>>
allVars == <<vars, cmdVars>>

NoMsg == [type |-> "none", argc |-> 0, buf |-> <<>>]
SetupFailures == {"cfg", "socket", "unlock", "toolong", "rejected", "noserver"}

CmdInit ==
  /\ argv \in Argvs
  /\ opts \in Options
  /\ prep = "pending"
  /\ cmdMsg = NoMsg
  /\ srvArgv = <<>>
  /\ cfgFile = NoFile
  /\ srvStart = IF opts.up THEN "run" ELSE "down"
  /\ stack = <<>> /\ cfgCause = CfgNull /\ loaded = <<>>
  /\ sent = <<>> /\ wire = <<>> /\ srvIn = <<>> /\ consumed = <<>>
  /\ retcode = 0
  /\ cpc = "prepare"
  /\ outQueued = FALSE
  /\ sstate = "wait"
  /\ bad = FALSE

(* prepare_cmd: argc and argv packed into the zeroed static cmddata;
   "command too long" is a failed pack. *)
PrepareCmd == CmdPackArgv(argv, Zeros(ArgvSize))

(* The cfg_file main() leaves: -f's file; without -f, $HOME/.tmux.conf if
   access() finds it readable, else NULL. *)
CfgFileOf(o) ==
  IF o.f # NoFile THEN o.f
  ELSE IF DefaultCfg \in Readable THEN DefaultCfg ELSE NoFile

(* makesockpath: mkdir of /tmp/tmux-uid may fail only with EEXIST; then
   lstat must show a directory owned by the user with no group or other
   permission bits. *)
MakeSockPath(d) == d.mkdir # "fail" /\ d.isdir /\ d.mine /\ d.private

(* prepare_unlock: no command with -U; getpass must return a password
   shorter than unlockdata.pass. *)
PrepareUnlock(o) == argv = <<>> /\ o.pass = "short"

(* cmdflags: never CMD_STARTSERVER with -U; always without a command;
   otherwise the flag of the parsed command's entry. *)
StartServer(o) ==
  ~o.unlock /\ (argv = <<>> \/ CmdTable[CmdParse(CmdTable, argv).entry].start)

(* main() from getopt to client_write_server, in the code's order: -f's
   file must be readable; the socket path (-S, or makesockpath); the
   message (prepare_unlock or prepare_cmd); the client-side parse for the
   CMD_STARTSERVER flag; client_init, which (client.c, spec 6) fails when
   no server listens and the command may not start one, and otherwise
   forks server_start, which loads cfg_file if it is not NULL.  Each
   failure is exit(1) before any connection. *)
ClientPrepare ==
  /\ cpc = "prepare"
  /\ LET p == PrepareCmd
         cfg == CfgFileOf(opts)
         fail(why) == /\ prep' = why /\ cpc' = "fatal"
                      /\ UNCHANGED <<cmdMsg, outQueued, cfgFile, srvStart>>
     IN CASE opts.f # NoFile /\ opts.f \notin Readable -> fail("cfg")
          [] ~opts.S /\ ~MakeSockPath(opts.sock) -> fail("socket")
          [] opts.unlock /\ ~PrepareUnlock(opts) -> fail("unlock")
          [] ~opts.unlock /\ ~p.ok -> fail("toolong")
          [] ~opts.unlock /\ argv # <<>> /\ ~CmdParse(CmdTable, argv).ok -> fail("rejected")
          [] srvStart = "down" /\ ~StartServer(opts) -> fail("noserver")
          [] OTHER ->
               /\ prep' = "sent"
               /\ cmdMsg' = IF opts.unlock THEN [NoMsg EXCEPT !.type = "UNLOCK"]
                             ELSE [type |-> "COMMAND", argc |-> Len(argv), buf |-> p.buf]
               /\ outQueued' = TRUE
               /\ cpc' = "poll"
               /\ cfgFile' = cfg
               /\ srvStart' = CASE srvStart # "down" -> srvStart
                                 [] cfg = NoFile    -> "run"
                                 [] OTHER           -> "load"
  /\ UNCHANGED <<sent, wire, srvIn, consumed, retcode, sstate, bad, argv, opts,
                 srvArgv, cfgVars>>

(* server_start calls load_cfg(cfg_file, NULL, &cause). *)
ServerLoadCfg ==
  /\ srvStart = "load" /\ sstate # "closed" /\ stack = <<>> /\ loaded = <<>>
  /\ LoadCfg(<<>>, cfgFile)
  /\ UNCHANGED <<vars, argv, opts, prep, cmdMsg, srvArgv, cfgFile, srvStart>>

(* One step of that load_cfg and the commands it runs. *)
ServerCfgStep ==
  /\ srvStart = "load" /\ sstate # "closed"
  /\ CfgStep
  /\ UNCHANGED <<vars, argv, opts, prep, cmdMsg, srvArgv, cfgFile, srvStart>>

(* The load returned 0: the server loop starts. *)
ServerRun ==
  /\ srvStart = "load" /\ sstate # "closed" /\ loaded # <<>> /\ loaded[1].ok
  /\ srvStart' = "run"
  /\ UNCHANGED <<vars, argv, opts, prep, cmdMsg, srvArgv, cfgFile, cfgVars>>

(* Mutant: the error is not written before the shutdown. *)
ServerCfgErrorSilent ==
  /\ srvStart = "load" /\ sstate # "closed" /\ loaded # <<>> /\ ~loaded[1].ok
  /\ srvStart' = "shutdown"
  /\ UNCHANGED <<vars, argv, opts, prep, cmdMsg, srvArgv, cfgFile, cfgVars>>

(* The load failed: server_write_error(c, cause) to the client, then
   server_shutdown = 1, so the loop sends MSG_SHUTDOWN. *)
ServerCfgError ==
  /\ srvStart = "load" /\ sstate # "closed" /\ loaded # <<>> /\ ~loaded[1].ok
  /\ ServerWriteClient([type |-> "ERROR", size |-> PrintLen])
  /\ srvStart' = "shutdown"
  /\ UNCHANGED <<srvIn, consumed, retcode, cpc, outQueued, sstate, bad,
                 argv, opts, prep, cmdMsg, srvArgv, cfgFile, cfgVars>>

(* The server loop reads the message: a MSG_COMMAND's argv is unpacked. *)
ServerRecvArgv ==
  /\ srvStart = "run"
  /\ ServerRecvCommand
  /\ srvArgv' = IF cmdMsg.type = "COMMAND"
                 THEN <<CmdUnpackArgv(cmdMsg.buf, cmdMsg.argc)>> ELSE <<>>
  /\ UNCHANGED <<argv, opts, prep, cmdMsg, cfgFile, srvStart, cfgVars>>

(* A step of the connection, which exists once the message is queued.
   The server dies at any time, but sends MSG_SHUTDOWN only from its
   loop, after server_start. *)
Connection(A) == prep = "sent" /\ A /\ UNCHANGED cmdVars

CmdNext ==
  \/ ClientPrepare
  \/ prep = "sent" /\ ServerLoadCfg
  \/ prep = "sent" /\ ServerCfgStep
  \/ prep = "sent" /\ ServerRun
  \/ prep = "sent" /\ ServerCfgError
  \/ prep = "sent" /\ ServerRecvArgv
  \/ Connection(ServerReply)
  \/ Connection(ServerFinish)
  \/ Connection(ServerShutdown) /\ srvStart # "load"
  \/ Connection(ServerMarkBad)
  \/ Connection(ServerCrash)
  \/ Connection(ServerLoseClient)
  \/ Connection(ClientPoll)
  \/ Connection(ClientWait)
  \/ Connection(ClientConsume)

(* The fairness of ClientLoop, for the connection's steps; main() runs on
   to the loop without blocking; server_start runs to its end, and a
   server that set server_shutdown sends MSG_SHUTDOWN. *)
CmdFairness ==
  /\ WF_allVars(ClientPrepare)
  /\ WF_allVars(prep = "sent" /\ ServerLoadCfg)
  /\ WF_allVars(prep = "sent" /\ ServerCfgStep)
  /\ WF_allVars(prep = "sent" /\ ServerRun)
  /\ WF_allVars(prep = "sent" /\ ServerCfgError)
  /\ WF_allVars(Connection(ServerShutdown) /\ srvStart = "shutdown")
  /\ WF_allVars(prep = "sent" /\ ServerRecvArgv)
  /\ WF_allVars(Connection(ServerLoseClient))
  /\ WF_allVars(Connection(ClientPoll))
  /\ WF_allVars(Connection(ClientWait))
  /\ WF_allVars(Connection(ClientConsume))
  /\ WF_allVars(Connection(ServerFinish))

CmdSpec == CmdInit /\ [][CmdNext]_allVars /\ CmdFairness

(***************************************************************************)
(* Properties.                                                             *)
(***************************************************************************)

CmdTypeOK ==
  /\ argv \in Argvs /\ opts \in Options
  /\ prep \in {"pending", "sent"} \cup SetupFailures
  /\ cmdMsg.type \in {"none", "COMMAND", "UNLOCK"}
  /\ cmdMsg.argc \in 0 .. Len(argv) /\ Len(cmdMsg.buf) \in {0, ArgvSize}
  /\ Len(srvArgv) <= 1
  /\ cfgFile \in CfgFiles \cup {NoFile, DefaultCfg}
  /\ srvStart \in {"down", "load", "run", "shutdown"}
  /\ Len(stack) <= MaxOpen
  /\ prep = "pending" \/ TypeOK

(* Spec 4.1 and 8: the client gives up with "command too long" exactly
   when argv with its NULs does not fit msg_command_data, and the argv the
   server unpacks from the message is the argv the client checked. *)
ArgvRoundTrip ==
  /\ (~opts.unlock /\ prep \in {"toolong", "rejected", "noserver", "sent"}) =>
       (prep = "toolong" <=> Len(Encoding(argv)) > ArgvSize)
  /\ srvArgv # <<>> => srvArgv[1] = [ok |-> TRUE, argv |-> argv]

(* Spec 4.1: cmd_parse's lookup of the command name, on every sorted
   command table with aliases, agrees with the matching rule: an alias
   wins, then an exact name, then a unique prefix; more candidates are
   ambiguous. *)
CmdLookupMatchesSpec ==
  argv # <<>> =>
    \A t \in Tables : LookupOutcome(t, Head(argv)) = SpecLookup(t, Head(argv))

(* Spec 4.4: load_cfg, through nested source-file commands and the
   global cfg_cause they share, fails exactly as the recursive reading
   does: at the first bad line or failing command, with every file's
   path and the 1-based line it reached, innermost first. *)
CfgLoadMatchesSpec == loaded # <<>> => loaded[1] = SpecLoad(cfgFile, 0)

(* A client whose server failed to load its configuration exits with 1
   when it leaves on the server's shutdown: the cause reaches it as an
   error before MSG_SHUTDOWN. *)
ConfigErrorReported ==
  (cpc = "exit" /\ srvStart = "shutdown") => retcode = 1

=============================================================================
