------------------------------ MODULE CmdParse ------------------------------
(***************************************************************************)
(* The pure parts of cmd.c that turn a command line into a command: the    *)
(* argv packing that carries it from client to server (cmd_pack_argv,      *)
(* cmd_unpack_argv) and the lookup of argv[0] in the command table        *)
(* (cmd_parse).                                                            *)
(*                                                                         *)
(* A character is its code, a positive integer, and NUL is 0; a string is *)
(* a sequence of characters and a buffer a sequence of bytes.  A table entry is its name, its alias *)
(* (a set of at most one name: NULL is the empty set) and whether it has  *)
(* its own argument parser (entry->parse != NULL).                        *)
(***************************************************************************)
EXTENDS Integers, Sequences, SequencesExt, FiniteSets

NUL == 0
Dash == 45   \* '-' 

(* strlen of a buffer whose bytes include a NUL: the bytes before it. *)
StrLen(buf) == SelectInSeq(buf, LAMBDA ch : ch = NUL) - 1

(* Copy the prefix written into a buffer over its old contents. *)
Overlay(written, buf) == written \o SubSeq(buf, Len(written) + 1, Len(buf))

(* Mutant: the room test lets an argument whose NUL does not fit
   through (strlcpy(...) > len where the code has >=). *)
RECURSIVE PackFromRoomOffByOne(_, _, _)
PackFromRoomOffByOne(args, written, len) ==
  IF args = <<>> THEN [ok |-> TRUE, written |-> written]
  ELSE IF Len(Head(args)) > len THEN [ok |-> FALSE, written |-> written]
  ELSE PackFromRoomOffByOne(Tail(args), written \o Head(args) \o <<NUL>>,
                            len - (Len(Head(args)) + 1))

(* The loop of cmd_pack_argv: strlcpy each argument with the room left;
   strlcpy returns strlen, which must be below the room for the NUL to
   fit; then step past the NUL. *)
RECURSIVE PackFrom(_, _, _)
PackFrom(args, written, len) ==
  IF args = <<>> THEN [ok |-> TRUE, written |-> written]
  ELSE IF Len(Head(args)) >= len THEN [ok |-> FALSE, written |-> written]
  ELSE PackFrom(Tail(args), written \o Head(args) \o <<NUL>>,
                len - (Len(Head(args)) + 1))

(* cmd_pack_argv(argc, argv, buf, len), with buf the buffer's old
   contents: *buf = '\0', then the loop. *)
CmdPackArgv(argv, buf) ==
  LET r == PackFrom(argv, <<>>, Len(buf))
  IN [ok |-> r.ok, buf |-> Overlay(IF r.written = <<>> THEN <<NUL>> ELSE r.written, buf)]

(* The loop of cmd_unpack_argv over the len bytes left at buf: fail when
   none are left, else xstrdup the string there and step past its NUL. *)
RECURSIVE UnpackFrom(_, _, _)
UnpackFrom(buf, len, n) ==
  IF n = 0 THEN [ok |-> TRUE, argv |-> <<>>]
  ELSE IF len = 0 THEN [ok |-> FALSE, argv |-> <<>>]
  ELSE LET arglen == StrLen(buf) + 1
           rest   == UnpackFrom(SubSeq(buf, arglen + 1, Len(buf)), len - arglen, n - 1)
       IN [ok |-> rest.ok, argv |-> <<SubSeq(buf, 1, arglen - 1)>> \o rest.argv]

(* cmd_unpack_argv(buf, len, argc, &argv): nothing for argc 0; otherwise
   force a NUL into the last byte, then split. *)
CmdUnpackArgv(buf, argc) ==
  IF argc = 0 THEN [ok |-> TRUE, argv |-> <<>>]
  ELSE UnpackFrom([buf EXCEPT ![Len(buf)] = NUL], Len(buf), argc)

(* Mutant: an alias match keeps the ambiguity seen before it. *)
RECURSIVE LookupFromNoAliasReset(_, _, _, _, _)
LookupFromNoAliasReset(table, name, i, entry, ambiguous) ==
  IF i > Len(table) THEN [entry |-> entry, ambiguous |-> ambiguous]
  ELSE IF name \in table[i].alias THEN [entry |-> i, ambiguous |-> ambiguous]
  ELSE IF ~IsPrefix(name, table[i].name)
       THEN LookupFromNoAliasReset(table, name, i + 1, entry, ambiguous)
  ELSE IF table[i].name = name THEN [entry |-> i, ambiguous |-> ambiguous \/ entry # 0]
  ELSE LookupFromNoAliasReset(table, name, i + 1, i, ambiguous \/ entry # 0)

(* The entry loop of cmd_parse from entry i on: an alias equal to name
   wins at once and clears ambiguity; an entry whose name starts with name
   becomes the entry, and makes the lookup ambiguous if one was found
   before; an exact name ends the loop (with the ambiguity so far). *)
RECURSIVE LookupFrom(_, _, _, _, _)
LookupFrom(table, name, i, entry, ambiguous) ==
  IF i > Len(table) THEN [entry |-> entry, ambiguous |-> ambiguous]
  ELSE IF name \in table[i].alias THEN [entry |-> i, ambiguous |-> FALSE]
  ELSE IF ~IsPrefix(name, table[i].name)
       THEN LookupFrom(table, name, i + 1, entry, ambiguous)
  ELSE IF table[i].name = name THEN [entry |-> i, ambiguous |-> ambiguous \/ entry # 0]
  ELSE LookupFrom(table, name, i + 1, i, ambiguous \/ entry # 0)

CmdLookupEntry(table, name) == LookupFrom(table, name, 1, 0, FALSE)

(* getopt(argc, argv, "") for an entry without its own parser leaves no
   argument only for no argument at all or a lone "--"; any option is
   '?' and any other word is left over: both are the usage error. *)
NoParserAccepts(args) == args = <<>> \/ args = <<<<Dash, Dash>>>>

(* cmd_parse(argc, argv, &cause): "no command", an ambiguous or unknown
   name, the usage error of an entry without a parser, or the entry.  An
   entry's own parser is not among the sources: it is taken to accept. *)
CmdParse(table, argv) ==
  LET r == CmdLookupEntry(table, Head(argv))
      fail(why) == [ok |-> FALSE, cause |-> why, entry |-> 0]
  IN CASE argv = <<>> -> fail("no command")
       [] r.ambiguous -> fail("ambiguous")
       [] r.entry = 0 -> fail("unknown")
       [] ~table[r.entry].parse /\ ~NoParserAccepts(Tail(argv)) -> fail("usage")
       [] OTHER -> [ok |-> TRUE, cause |-> "", entry |-> r.entry]

(***************************************************************************)
(* Reference definitions from the spec (4.1, 8) and the properties        *)
(***************************************************************************)

(* The packed form of argv: every argument followed by its NUL. *)
Encoding(argv) == FlattenSeq([i \in DOMAIN argv |-> argv[i] \o <<NUL>>])

(* A buffer of size NULs: the static msg_command_data of prepare_cmd. *)
Zeros(size) == [i \in 1 .. size |-> NUL]

(* strcmp order of two strings. *)
RECURSIVE StrLess(_, _)
StrLess(x, y) ==
  /\ y # <<>>
  /\ \/ x = <<>>
     \/ Head(x) < Head(y)
     \/ Head(x) = Head(y) /\ StrLess(Tail(x), Tail(y))

(* Command tables shaped like cmd_table: entries sorted by name, names
   drawn from Names, each alias NULL or one of Aliases, no alias equal to
   a name or to another alias.  The parse flag plays no part in lookup. *)
SortedTables(Names, Aliases) ==
  LET opts == {{}} \cup {{a} : a \in Aliases}
      tabs(ns) == {[i \in DOMAIN ns |-> [name |-> ns[i], alias |-> al[i], parse |-> TRUE]] :
                     al \in [DOMAIN ns -> opts]}
      wellFormed(t) ==
        \A i, j \in DOMAIN t :
          /\ t[i].alias \cap {t[j].name} = {}
          /\ i # j => t[i].alias \cap t[j].alias = {}
  IN {t \in UNION {tabs(SetToSortSeq(S, StrLess)) : S \in SUBSET Names} : wellFormed(t)}

(* Spec 4.1: an alias matches exactly and wins; otherwise an exact name
   wins; otherwise the entries the name is a prefix of decide: one is the
   entry, none is unknown, more are ambiguous. *)
SpecLookup(table, name) ==
  LET al    == {i \in DOMAIN table : name \in table[i].alias}
      ex    == {i \in DOMAIN table : table[i].name = name}
      cands == {i \in DOMAIN table : IsPrefix(name, table[i].name)}
      one(S) == CHOOSE i \in S : TRUE
  IN CASE al # {}              -> [entry |-> one(al), ambiguous |-> FALSE]
       [] ex # {}              -> [entry |-> one(ex), ambiguous |-> FALSE]
       [] Cardinality(cands) = 1 -> [entry |-> one(cands), ambiguous |-> FALSE]
       [] cands = {}           -> [entry |-> 0, ambiguous |-> FALSE]
       [] OTHER                -> [ambiguous |-> TRUE]

(* What cmd_parse reports, with the entry dropped when it is ambiguous. *)
LookupOutcome(table, name) ==
  LET r == CmdLookupEntry(table, name)
  IN IF r.ambiguous THEN [ambiguous |-> TRUE] ELSE r

=============================================================================
