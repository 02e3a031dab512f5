----------------------------- MODULE KeyBindings -----------------------------
(***************************************************************************)
(* The key binding table of key-bindings.c.                                *)
(*                                                                         *)
(* Two splay trees share one comparator, key_bindings_cmp: the live table  *)
(* key_bindings and the deferred-free set dead_key_bindings.  A key is an  *)
(* integer code that may carry the KEYC_PREFIX bit; here it is a record    *)
(* [c |-> code, prefix |-> bit].  A binding is an identifier into the      *)
(* function bind, which holds its key, its second key (key2) and its       *)
(* owned command list.                                                     *)
(*                                                                         *)
(* A splay tree is modelled as the set of its elements: SPLAY_FIND returns *)
(* the element that compares equal to the probe, SPLAY_INSERT does nothing *)
(* when an equal element is already present (it returns that element, and *)
(* key_bindings_add/remove ignore the result), SPLAY_REMOVE removes the    *)
(* element.  This is exact as long as the comparator is a consistent      *)
(* order, which it is when no key2 carries KEYC_PREFIX (KeyCmpConsistent). *)
(*                                                                         *)
(* key_bindings_lookup fills only bd.key of its stack probe and leaves     *)
(* bd.key2 uninitialised, which key_bindings_cmp then reads: the probe's   *)
(* key2 is a nondeterministic choice over ProbeKey2s.                      *)
(*                                                                         *)
(* key_bindings_dispatch runs the bound command list to completion;        *)
(* commands of that list may themselves be bind-key or unbind-key, which   *)
(* call key_bindings_add/remove while the list is being executed.  The     *)
(* server loop calls key_bindings_clean between events, never inside a     *)
(* dispatch.                                                               *)
(***************************************************************************)
EXTENDS Integers, Sequences, FiniteSets

CONSTANTS
  Codes,        \* key codes (small integers)
  KEYC_NONE,    \* the code meaning "no second key"
  BindKeys,     \* keys that bind-key / unbind-key / key presses may use
  BindKey2s,    \* second keys that bind-key may use
  ProbeKey2s,   \* values the uninitialised bd.key2 of a lookup may hold
  CmdLists,     \* command lists that bind-key may install
  InitTable,    \* key_bindings_init's table: a sequence of bindings
  MaxBindings   \* bound on the number of bindings ever allocated

Other == [op |-> "other"]

VARIABLES
  bind,         \* binding id -> [key, key2, cmdlist]
  live,         \* ids in the tree key_bindings
  dead,         \* ids in the tree dead_key_bindings
  freed,        \* ids whose command list key_bindings_clean has freed
  dispatching,  \* id whose cmdlist cmd_list_exec is running, or 0
  pc            \* index of the next command of that cmdlist

vars == <<bind, live, dead, freed, dispatching, pc>>

Ids == 1 .. MaxBindings
Allocated == DOMAIN bind

Sign(n) == IF n > 0 THEN 1 ELSE IF n < 0 THEN -1 ELSE 0

(* Mutant: the "return 1" test reads the first key's prefix bit of bd1
   twice, as the code's second clause does for key2. *)
KeyBindingsCmpKeyTwice(bd1, bd2) ==
  CASE bd1.key.c # bd2.key.c -> Sign(bd1.key.c - bd2.key.c)
    [] bd1.key2.c # bd2.key2.c -> Sign(bd1.key2.c - bd2.key2.c)
    [] (bd1.key.prefix /\ ~bd2.key.prefix)
         \/ (bd1.key2.prefix /\ ~bd2.key2.prefix) -> -1
    [] (bd1.key.prefix /\ ~bd1.key.prefix)
         \/ (bd1.key2.prefix /\ ~bd1.key2.prefix) -> 1
    [] OTHER -> 0

(* key_bindings_cmp, clause by clause; the second clause of the "return 1"
   test compares bd1->key2 with itself, as the code does. *)
KeyBindingsCmp(bd1, bd2) ==
  CASE bd1.key.c # bd2.key.c -> Sign(bd1.key.c - bd2.key.c)
    [] bd1.key2.c # bd2.key2.c -> Sign(bd1.key2.c - bd2.key2.c)
    [] (bd1.key.prefix /\ ~bd2.key.prefix)
         \/ (bd1.key2.prefix /\ ~bd2.key2.prefix) -> -1
    [] (bd2.key.prefix /\ ~bd1.key.prefix)
         \/ (bd1.key2.prefix /\ ~bd1.key2.prefix) -> 1
    [] OTHER -> 0

(* SPLAY_FIND on a tree holding the ids in tree. *)
SplayFind(tree, probe) ==
  {b \in tree : KeyBindingsCmp(probe, bind[b]) = 0}

(* SPLAY_INSERT: the element goes in unless an equal one is present. *)
SplayInsert(tree, b, bnd) ==
  IF \E o \in tree : KeyBindingsCmp(bnd, bind[o]) = 0 THEN tree
  ELSE tree \cup {b}

(* key_bindings_lookup(key): the probe's key2 is whatever was on the stack. *)
KeyBindingsLookup(key, g) == SplayFind(live, [key |-> key, key2 |-> g])

(* Mutants of key_bindings_remove: freeing the binding at once instead of
   deferring it to the dead tree, and forgetting the SPLAY_REMOVE from the
   live tree. *)
RemoveFreesAtOnce(key, g, t) ==
  LET found == {b \in t.live : KeyBindingsCmp([key |-> key, key2 |-> g], bind[b]) = 0}
  IN IF found = {} THEN t
     ELSE LET b == CHOOSE x \in found : TRUE
          IN [t EXCEPT !.live = @ \ {b}, !.freed = @ \cup {b}]

RemoveKeepsLive(key, g, t) ==
  LET found == {b \in t.live : KeyBindingsCmp([key |-> key, key2 |-> g], bind[b]) = 0}
  IN IF found = {} THEN t
     ELSE LET b == CHOOSE x \in found : TRUE
          IN [t EXCEPT !.dead = SplayInsert(@, b, bind[b])]

(* key_bindings_remove(key) applied to t = [live, dead, freed]: move the
   binding found by key_bindings_lookup from the live tree into the dead
   tree. *)
KeyBindingsRemove(key, g, t) ==
  LET found == {b \in t.live : KeyBindingsCmp([key |-> key, key2 |-> g], bind[b]) = 0}
  IN IF found = {} THEN t
     ELSE LET b == CHOOSE x \in found : TRUE
          IN [t EXCEPT !.live = @ \ {b}, !.dead = SplayInsert(@, b, bind[b])]

Tables == [live |-> live, dead |-> dead, freed |-> freed]

(* Mutant of key_bindings_add: the second key stored with KEYC_PREFIX, as
   key_bindings_init does for the first. *)
KeyBindingsAddPrefixKey2(key, key2, list, g1, g2) ==
  LET r1 == KeyBindingsRemove(key, g1, Tables)
      r2 == KeyBindingsRemove(key2, g2, r1)
      id == Cardinality(Allocated) + 1
      bd == [key |-> key, key2 |-> [key2 EXCEPT !.prefix = TRUE], cmdlist |-> list]
  IN /\ id \in Ids
     /\ bind' = [x \in Allocated \cup {id} |-> IF x = id THEN bd ELSE bind[x]]
     /\ live' = IF \E o \in r2.live : KeyBindingsCmp(bd, bind[o]) = 0
                THEN r2.live ELSE r2.live \cup {id}
     /\ dead' = r2.dead
     /\ freed' = r2.freed

(* key_bindings_add(key, key2, ..., cmdlist): remove(key), remove(key2),
   allocate bd and SPLAY_INSERT it into the live tree.  key2 is passed to
   key_bindings_remove as a key.  g1, g2 are the two lookups' stack values. *)
KeyBindingsAdd(key, key2, list, g1, g2) ==
  LET r1 == KeyBindingsRemove(key, g1, Tables)
      r2 == KeyBindingsRemove(key2, g2, r1)
      id == Cardinality(Allocated) + 1
      bd == [key |-> key, key2 |-> key2, cmdlist |-> list]
  IN /\ id \in Ids
     /\ bind' = [x \in Allocated \cup {id} |-> IF x = id THEN bd ELSE bind[x]]
     /\ live' = IF \E o \in r2.live : KeyBindingsCmp(bd, bind[o]) = 0
                THEN r2.live ELSE r2.live \cup {id}
     /\ dead' = r2.dead
     /\ freed' = r2.freed

(***************************************************************************)
(* Initial state: key_bindings_init adds every entry of its table with     *)
(* KEYC_PREFIX set; the table's keys are distinct, so every removal finds  *)
(* nothing and every insertion succeeds.                                   *)
(***************************************************************************)
ASSUME \A i, j \in DOMAIN InitTable :
         i # j => InitTable[i].key # InitTable[j].key

Init ==
  /\ bind = [i \in DOMAIN InitTable |->
               [key |-> [c |-> InitTable[i].key.c, prefix |-> TRUE],
                key2 |-> InitTable[i].key2,
                cmdlist |-> InitTable[i].cmdlist]]
  /\ live = DOMAIN InitTable
  /\ dead = {}
  /\ freed = {}
  /\ dispatching = 0
  /\ pc = 0

(***************************************************************************)
(* Actions.                                                                *)
(***************************************************************************)

(* bind-key run outside any key dispatch (from a command client or a
   configuration file): key_bindings_add. *)
BindKey ==
  /\ dispatching = 0
  /\ \E key \in BindKeys, key2 \in BindKey2s, list \in CmdLists,
        g1, g2 \in ProbeKey2s :
       KeyBindingsAdd(key, key2, list, g1, g2)
  /\ UNCHANGED <<dispatching, pc>>

(* unbind-key run outside any key dispatch: key_bindings_remove. *)
UnbindKey ==
  /\ dispatching = 0
  /\ \E key \in BindKeys, g \in ProbeKey2s :
       LET r == KeyBindingsRemove(key, g, Tables)
       IN /\ live' = r.live
          /\ dead' = r.dead
          /\ freed' = r.freed
  /\ UNCHANGED <<bind, dispatching, pc>>

(* Number of key_bindings_add calls a command list makes. *)
AddsIn(list) == Cardinality({i \in DOMAIN list : list[i].op = "bind"})

(* A key press: the server looks the key up and, when a binding is found,
   key_bindings_dispatch starts cmd_list_exec on its command list.  The
   press is only taken when the bound MaxBindings leaves room for every
   binding the list allocates. *)
KeyPress ==
  /\ dispatching = 0
  /\ \E key \in BindKeys, g \in ProbeKey2s :
       \E b \in KeyBindingsLookup(key, g) :
         /\ Cardinality(Allocated) + AddsIn(bind[b].cmdlist) <= MaxBindings
         /\ dispatching' = b
         /\ pc' = 1
  /\ UNCHANGED <<bind, live, dead, freed>>

(* cmd_list_exec runs the next command of the dispatched list: reading the
   command from bind[dispatching].cmdlist is a read of that list. *)
DispatchStep ==
  /\ dispatching # 0
  /\ pc <= Len(bind[dispatching].cmdlist)
  /\ LET cmd == bind[dispatching].cmdlist[pc]
     IN \/ /\ cmd.op = "other"
           /\ UNCHANGED <<bind, live, dead, freed>>
        \/ /\ cmd.op = "bind"
           /\ \E g1, g2 \in ProbeKey2s :
                KeyBindingsAdd(cmd.key, cmd.key2, cmd.list, g1, g2)
        \/ /\ cmd.op = "unbind"
           /\ \E g \in ProbeKey2s :
                LET r == KeyBindingsRemove(cmd.key, g, Tables)
                IN /\ live' = r.live
                   /\ dead' = r.dead
                   /\ freed' = r.freed
                   /\ UNCHANGED bind
  /\ pc' = pc + 1
  /\ UNCHANGED dispatching

(* cmd_list_exec returns: key_bindings_dispatch is done. *)
DispatchDone ==
  /\ dispatching # 0
  /\ pc > Len(bind[dispatching].cmdlist)
  /\ dispatching' = 0
  /\ pc' = 0
  /\ UNCHANGED <<bind, live, dead, freed>>

(* key_bindings_clean, called by the server loop between events: free the
   command list of every binding in the dead tree. *)
KeyBindingsClean ==
  /\ dispatching = 0
  /\ dead # {}
  /\ freed' = freed \cup dead
  /\ dead' = {}
  /\ UNCHANGED <<bind, live, dispatching, pc>>

Next ==
  \/ BindKey
  \/ UnbindKey
  \/ KeyPress
  \/ DispatchStep
  \/ DispatchDone
  \/ KeyBindingsClean

Spec == Init /\ [][Next]_vars

(***************************************************************************)
(* Properties.                                                             *)
(***************************************************************************)

Key == [c : Codes, prefix : BOOLEAN]

TypeOK ==
  /\ Allocated \subseteq Ids
  \* no second key carries KEYC_PREFIX: key_bindings_cmp is then a preorder
  /\ \A b \in Allocated :
       bind[b].key \in Key /\ bind[b].key2 \in [c : Codes, prefix : {FALSE}]
  /\ live \subseteq Allocated /\ dead \subseteq Allocated
  /\ freed \subseteq Allocated
  /\ dispatching \in Allocated \cup {0}
  /\ pc \in Nat

(* The reason for the dead tree: a command list that key_bindings_dispatch
   is executing is never freed under it, even when a command of that very
   list rebinds or unbinds the key (key_bindings_remove defers the free to
   key_bindings_clean). *)
DispatchedListNotFreed ==
  dispatching # 0 => dispatching \notin freed

(* A binding is in at most one of the live tree, the dead tree and the
   freed set: key_bindings_clean never frees a binding the live table (and
   so a later key_bindings_lookup) can still reach. *)
FreedUnreachable ==
  /\ live \cap dead = {}
  /\ freed \cap (live \cup dead) = {}

(* Every binding key_bindings_add allocated is still in the live tree, in
   the dead tree, or has been freed by key_bindings_clean: replacing or
   removing a binding never loses it (spec: "binding a key twice and then
   clean frees" the replaced command lists). *)
NoLeak ==
  Allocated \subseteq live \cup dead \cup freed

Rel == INSTANCE Relation

KeyLess(bd1, bd2) == KeyBindingsCmp(bd1, bd2) < 0

(* key_bindings_cmp is a consistent order over every binding the two
   splay trees can hold: "less" is a strict partial order and swapping
   the arguments negates the result.  The SPLAY_* walks, and with them
   the set semantics above, need this.  The code's "return 1" test
   compares bd1->key2 with itself, so it holds only while no stored key2
   carries KEYC_PREFIX; a binding whose key differs from another only in
   its prefix bit (bind-key -n of a key the default table binds with the
   prefix) exercises the key clauses. *)
KeyCmpConsistent ==
  LET B == {bind[b] : b \in live \cup dead} IN
  /\ Rel!IsStrictlyPartiallyOrderedUnder(KeyLess, B)
  /\ \A x, y \in B : KeyBindingsCmp(x, y) = -KeyBindingsCmp(y, x)

(* After key_bindings_add, which first removes "any existing binding(s)
   for key", the live table holds at most one binding per key. *)
LiveKeyUnique ==
  \A b1, b2 \in live : b1 # b2 => bind[b1].key # bind[b2].key

=============================================================================
