---------------------------- MODULE ConfigLoader ----------------------------
(***************************************************************************)
(* load_cfg (cfg.c): each line of a configuration file is parsed into a   *)
(* command list and executed; the first bad line or failing command ends  *)
(* the load with "path: cause at line n".  Commands report errors through  *)
(* ctx.error = cfg_error, which stores them in the global cfg_cause.  A   *)
(* source-file command calls load_cfg again from inside the loop, so the  *)
(* calls nest and share cfg_cause.                                         *)
(*                                                                         *)
(* The nesting is a stack of frames, one per load_cfg call, each holding   *)
(* its open FILE.  A line is abstracted to its parse result: blank (no    *)
(* command list), bad (cmd_string_parse fails) or a command list; a       *)
(* command succeeds, fails (ctx->error and -1), or is source-file of a    *)
(* path.  cmd_string_parse, cmd_list_exec and source-file are not among   *)
(* the sources and follow the spec (4.4, 5): cmd_list_exec stops at the   *)
(* first failing command; source-file reports a failed load through        *)
(* ctx->error and fails.                                                   *)
(*                                                                         *)
(* A cause is [base, trail]: the innermost message and, innermost first,  *)
(* the path and line each load_cfg wrapped it with (line 0: the           *)
(* "path: strerror" of a failed fopen).                                    *)
(***************************************************************************)
EXTENDS Integers, Sequences, SequencesExt

CONSTANTS
  Content,    \* path -> its lines; a path outside DOMAIN Content is missing
  MaxOpen     \* FILEs the server can hold open: fopen fails with EMFILE

VARIABLES
  stack,      \* the load_cfg calls in progress, outermost first
  cfgCause,   \* cfg_cause: CfgNull, a cause, or Freed (dangling)
  loaded      \* <<>>, then <<the top-level call's result>>

cfgVars == <<stack, cfgCause, loaded>>

CfgNull == [base |-> "null", trail |-> <<>>]
Freed == [base |-> "freed", trail |-> <<>>]
Ok == [ok |-> TRUE, cause |-> CfgNull]
Fail(base, trail) == [ok |-> FALSE, cause |-> [base |-> base, trail |-> trail]]

(* The error: label: "path: cause at line n" around the cause. *)
Wrap(c, f) == Fail(c.base, Append(c.trail, [path |-> f.path, line |-> f.n]))

(* The cause cfg_cause points to; once freed, whatever the memory holds. *)
CauseAt(cc) == IF cc = Freed THEN [base |-> "garbage", trail |-> <<>>] ELSE cc

(* load_cfg returns res to its caller, leaving cfg_cause as cc.  At the
   top that is the server; inside, it is source-file, which on failure
   calls ctx->error, i.e. cfg_error, storing the cause in cfg_cause, and
   fails: cmd_list_exec stops the caller's list. *)
Deliver(rest, res, cc) ==
  IF rest = <<>>
  THEN /\ loaded' = <<res>>
       /\ stack' = <<>>
       /\ cfgCause' = cc
  ELSE /\ stack' = [rest EXCEPT ![Len(rest)].pc = "exec",
                                ![Len(rest)].list = IF res.ok THEN @ ELSE <<>>]
       /\ cfgCause' = IF res.ok THEN cc ELSE res.cause
       /\ UNCHANGED loaded

(* load_cfg(path, ...) called with the frames st: fopen, then the loop.
   The top-level call is load_cfg(cfg_file, NULL, &cause) of server_start;
   a nested one is source-file's. *)
LoadCfg(st, path) ==
  IF Len(st) >= MaxOpen \/ path \notin DOMAIN Content
  THEN Deliver(st, Fail(IF path \notin DOMAIN Content THEN "ENOENT" ELSE "EMFILE",
                        <<[path |-> path, line |-> 0]>>), cfgCause)
  ELSE /\ stack' = Append(st, [path |-> path, n |-> 0, pc |-> "read", list |-> <<>>])
       /\ UNCHANGED <<cfgCause, loaded>>

Top == stack[Len(stack)]

(* Mutant: n++ only once the line has parsed. *)
ReadLineCountLate ==
  /\ stack # <<>>
  /\ Top.pc = "read"
  /\ LET f == Top
         i == f.n + 1
     IN IF i > Len(Content[f.path])
        THEN Deliver(Front(stack), Ok, cfgCause)
        ELSE LET l == Content[f.path][i]
                 g == [f EXCEPT !.n = i]
             IN CASE l.kind = "blank" ->
                       stack' = [stack EXCEPT ![Len(stack)] = g] /\ UNCHANGED <<cfgCause, loaded>>
                  [] l.kind = "bad" ->
                       Deliver(Front(stack), Wrap([base |-> "parse", trail |-> <<>>], f), cfgCause)
                  [] OTHER ->
                       /\ stack' = [stack EXCEPT ![Len(stack)] = [g EXCEPT !.pc = "exec", !.list = l.cmds]]
                       /\ cfgCause' = CfgNull
                       /\ UNCHANGED loaded

(* while (fgetln): at end of file fclose and return 0; otherwise n++ and
   cmd_string_parse: a bad line is goto error, a blank one continue; a
   command list resets cfg_cause and is executed. *)
ReadLine ==
  /\ stack # <<>>
  /\ Top.pc = "read"
  /\ LET f == Top
         i == f.n + 1
     IN IF i > Len(Content[f.path])
        THEN Deliver(Front(stack), Ok, cfgCause)
        ELSE LET l == Content[f.path][i]
                 g == [f EXCEPT !.n = i]
             IN CASE l.kind = "blank" ->
                       stack' = [stack EXCEPT ![Len(stack)] = g] /\ UNCHANGED <<cfgCause, loaded>>
                  [] l.kind = "bad" ->
                       Deliver(Front(stack), Wrap([base |-> "parse", trail |-> <<>>], g), cfgCause)
                  [] OTHER ->
                       /\ stack' = [stack EXCEPT ![Len(stack)] = [g EXCEPT !.pc = "exec", !.list = l.cmds]]
                       /\ cfgCause' = CfgNull
                       /\ UNCHANGED loaded

(* cmd_list_exec runs the next command of the line: a failing command
   reports through cfg_error and ends the list; source-file calls
   load_cfg, and this frame waits for it. *)
ExecCmd ==
  /\ stack # <<>>
  /\ Top.pc = "exec"
  /\ Top.list # <<>>
  /\ LET c == Head(Top.list) IN
     CASE c.op = "ok" ->
            /\ stack' = [stack EXCEPT ![Len(stack)].list = Tail(@)]
            /\ UNCHANGED <<cfgCause, loaded>>
       [] c.op = "fail" ->
            /\ stack' = [stack EXCEPT ![Len(stack)].list = <<>>]
            /\ cfgCause' = [base |-> "cmd", trail |-> <<>>]
            /\ UNCHANGED loaded
       [] OTHER ->
            LoadCfg([stack EXCEPT ![Len(stack)].pc = "wait",
                                  ![Len(stack)].list = Tail(@)], c.path)

(* The command list is done: if a command set cfg_cause, *cause =
   cfg_cause and goto error, which frees it (cfg_cause then dangles);
   otherwise on to the next line. *)
EndLine ==
  /\ stack # <<>>
  /\ Top.pc = "exec"
  /\ Top.list = <<>>
  /\ IF cfgCause # CfgNull
     THEN Deliver(Front(stack), Wrap(CauseAt(cfgCause), Top), Freed)
     ELSE /\ stack' = [stack EXCEPT ![Len(stack)].pc = "read"]
          /\ UNCHANGED <<cfgCause, loaded>>

CfgStep == ReadLine \/ ExecCmd \/ EndLine

(***************************************************************************)
(* Reference: the load of spec 4.4 as a recursive function.  The first bad  *)
(* line or failing command fails the whole load with the file's path and  *)
(* the 1-based line number; a failed nested load fails the source-file    *)
(* command with the nested cause.  open is the number of FILEs open.      *)
(***************************************************************************)
RECURSIVE SpecLoad(_, _), SpecLines(_, _, _), SpecCmds(_, _)

SpecLoad(path, open) ==
  CASE path \notin DOMAIN Content -> Fail("ENOENT", <<[path |-> path, line |-> 0]>>)
    [] open >= MaxOpen -> Fail("EMFILE", <<[path |-> path, line |-> 0]>>)
    [] OTHER -> SpecLines(path, 1, open + 1)

SpecLines(path, i, open) ==
  IF i > Len(Content[path]) THEN Ok
  ELSE LET l == Content[path][i]
           r == IF l.kind = "cmds" THEN SpecCmds(l.cmds, open) ELSE Ok
           at == [path |-> path, n |-> i]
       IN CASE l.kind = "bad" -> Wrap([base |-> "parse", trail |-> <<>>], at)
            [] ~r.ok -> Wrap(r.cause, at)
            [] OTHER -> SpecLines(path, i + 1, open)

SpecCmds(cmds, open) ==
  IF cmds = <<>> THEN Ok
  ELSE LET c == Head(cmds)
           r == CASE c.op = "ok" -> Ok
                  [] c.op = "fail" -> Fail("cmd", <<>>)
                  [] OTHER -> SpecLoad(c.path, open)
       IN IF r.ok THEN SpecCmds(Tail(cmds), open) ELSE r

=============================================================================
