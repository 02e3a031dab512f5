---------------------------- MODULE MCClientLoop ----------------------------
(* The client loop with a two-byte header and one-byte print payload, and  *)
(* up to three messages: enough for a PRINT and an ERROR to share a read   *)
(* with the final MSG_EXIT, and for every split of a header and payload.   *)
(*                                                                         *)
(* Configuration: the server holds at most three FILEs open.             *)
(*                                                                         *)
(* Command lines: characters 1, 2, 3 and '-', a six-byte argv buffer, and  *)
(* a table whose alias 1 of entry 12 is a prefix of names around it, as    *)
(* "lock" of lock-server is of lock-client and lock-session.              *)
EXTENDS ClientCommand

E(n, a, p, st) == [name |-> n, alias |-> a, parse |-> p, start |-> st]

MCCmdTable == <<E(<<1, 1>>, {}, FALSE, TRUE), E(<<1, 2>>, {<<1>>}, FALSE, FALSE),
                E(<<2>>, {}, TRUE, FALSE)>>

MCArgvs ==
  { <<>>,                          \* no command: new-session, no parse
    <<<<1, 1>>, <<Dash, Dash>>>>,  \* exact name and "--": 6 bytes, fits exactly
    <<<<1>>, <<Dash, 1>>>>,        \* alias of an entry without a parser, "-1"
    <<<<1, 2>>, <<Dash, 1, 2>>>>,  \* 7 bytes: command too long
    <<<<>>>>,                      \* empty name: every entry a candidate
    <<<<3>>>>,                     \* unknown
    <<<<1, 1>>, <<1>>>>,           \* leftover argument: usage
    <<<<2>>>> }                    \* parses, no CMD_STARTSERVER

MCArgvSize == 6

MCTables == SortedTables({<<1>>, <<1, 1>>, <<1, 2>>, <<2>>}, {<<1>>})


(* Configuration files: lines are blank, bad, or command lists of
   commands that succeed, fail, or source a file. *)
Blank == [kind |-> "blank"]
Bad == [kind |-> "bad"]
Cmds(cs) == [kind |-> "cmds", cmds |-> cs]
CmdOk == [op |-> "ok"]
CmdFail == [op |-> "fail"]
Src(p) == [op |-> "source", path |-> p]

MCContent ==
  [f \in {"main", "inc", "nest", "bad", "failmid", "nestfail", "loop"} |->
     CASE f = "main"     -> <<Blank, Cmds(<<CmdOk, Src("inc")>>), Cmds(<<CmdOk>>)>>
       [] f = "inc"      -> <<Cmds(<<CmdOk>>), Blank>>
       [] f = "nest"     -> <<Cmds(<<Src("bad")>>), Cmds(<<CmdOk>>)>>
       [] f = "bad"      -> <<Blank, Bad>>
       [] f = "failmid"  -> <<Blank, Cmds(<<CmdOk, CmdFail, Src("inc")>>)>>
       [] f = "nestfail" -> <<Cmds(<<Src("inc"), Src("failmid")>>)>>
       [] f = "loop"     -> <<Blank, Cmds(<<Src("loop")>>)>>]

(* A clean load with a nested file; a bad line two files down; a failing
   command inside a nested file after a nested success; a file that
   sources itself until fopen fails; a missing file; one access() refuses. *)
MCCfgFiles == {"main", "nest", "nestfail", "loop", "missing", "noaccess"}

(* Socket directories as makesockpath finds them: created, already there,
   mkdir failing, a file, someone else's, open to the group. *)
Dir(mk, d, m, p) == [mkdir |-> mk, isdir |-> d, mine |-> m, private |-> p]
MCSockDirs == {Dir("ok", TRUE, TRUE, TRUE), Dir("exists", TRUE, TRUE, TRUE),
               Dir("fail", TRUE, TRUE, TRUE), Dir("exists", FALSE, TRUE, TRUE),
               Dir("exists", TRUE, FALSE, TRUE), Dir("exists", TRUE, TRUE, FALSE)}

(* main()'s inputs, varied from a command client with no -f, a good
   socket directory and no server: every -f file; every socket
   directory, and -S; -U with each getpass result, with and without a
   server; a server already up, with and without -f. *)
OkDir == Dir("ok", TRUE, TRUE, TRUE)
Base == [f |-> "none", unlock |-> FALSE, pass |-> "short", S |-> FALSE,
         sock |-> OkDir, up |-> FALSE]
MCOptions ==
  {[Base EXCEPT !.f = x] : x \in MCCfgFiles \cup {"none"}}
  \cup {[Base EXCEPT !.sock = d] : d \in MCSockDirs} \cup {[Base EXCEPT !.S = TRUE]}
  \cup {[Base EXCEPT !.unlock = TRUE, !.pass = p, !.up = u] :
          p \in {"null", "short", "long"}, u \in BOOLEAN}
  \cup {[Base EXCEPT !.up = TRUE, !.f = x] : x \in {"none", "nest"}}

(* access() finds every file -f can name except noaccess; missing is
   removed between main()'s access() and the server's fopen. *)
MCReadable == MCCfgFiles \ {"noaccess"}

=============================================================================
