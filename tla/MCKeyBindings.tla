---------------------------- MODULE MCKeyBindings ----------------------------
(* Model of key-bindings.c for TLC: codes 1 and 2 stand for two keys ('1'  *)
(* and 'c' of key_bindings_init's table), 0 for KEYC_NONE and 7 for a      *)
(* stack value of the lookup probe that matches no second key.             *)
EXTENDS KeyBindings

MCCodes == {0, 1, 2, 7}
MCNone == 0

K1 == [c |-> 1, prefix |-> TRUE]     \* prefix + '1'
K2 == [c |-> 2, prefix |-> TRUE]     \* prefix + 'c'
R2 == [c |-> 2, prefix |-> FALSE]    \* 'c' without prefix (bind-key -n)
None2 == [c |-> 0, prefix |-> FALSE] \* KEYC_NONE
Garbage == [c |-> 7, prefix |-> FALSE]

MCBindKeys == {K1, R2}
MCBindKey2s == {None2, R2}
MCProbeKey2s == {None2, R2, Garbage}

(* bind-key's command lists: a plain command, and lists that rebind or
   unbind prefix + '1' from inside their own dispatch. *)
MCCmdLists ==
  { <<Other>>,
    <<[op |-> "bind", key |-> K1, key2 |-> None2, list |-> <<Other>>], Other>>,
    <<[op |-> "unbind", key |-> K1], Other>> }

(* Two entries of key_bindings_init's table: '1' and the chord 'c' 'c'. *)
MCInitTable ==
  << [key |-> [c |-> 1], key2 |-> None2,
      cmdlist |-> <<[op |-> "bind", key |-> K1, key2 |-> None2,
                     list |-> <<Other>>], Other>>],
     [key |-> [c |-> 2], key2 |-> R2, cmdlist |-> <<Other>>] >>

=============================================================================
