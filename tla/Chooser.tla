------------------------------ MODULE Chooser ------------------------------
(***************************************************************************)
(* choose-session (cmd-choose-session.c) over the server tables of        *)
(* Sessions.                                                               *)
(*                                                                         *)
(* exec puts the current window's active pane in choose mode and hands    *)
(* window_choose_ready a data block holding a reference to the client.    *)
(* Later, after any number of other commands, a key in that pane runs the *)
(* callback with the chosen item's data (or -1) and leaves the mode,      *)
(* which runs the free function.                                           *)
(* Destroying the window also leaves the mode and frees the data.  The     *)
(* server frees a dead client once its reference count is 0.              *)
(*                                                                         *)
(* window-choose.c and server.c are not among the sources: the pane mode, *)
(* window_choose_item_data (the items of choose-session are the slots of  *)
(* the sessions array) and server_clean_dead are modelled from the spec   *)
(* (5: reference counts and liveness flags).  The templates are those of *)
(* switch-client -t X, kept as X: the default '%%' and the targets a user *)
(* gives as choose-session's argument.  switch-client (not among the      *)
(* sources) moves the client to the session cmd_lookup_session finds by   *)
(* the name, or reports an error and leaves it.                           *)
(*                                                                         *)
(* cmd-choose-tree.c is not modelled: cmd_choose_tree_entry is in neither *)
(* cmd_table nor the default key table, so no command line, key or        *)
(* config file can run it.                                                 *)
(***************************************************************************)
EXTENDS Sessions

CONSTANT Templates   \* X of switch-client -t X: data->arg, or the default

VARIABLES
  mode,   \* window -> data of the choose mode of its active pane, or NoMode
  cref,   \* client -> c->references
  freed   \* clients whose memory has been freed

chooserVars == <<mode, cref, freed>>
allVars == <<vars, chooserVars>>

NoMode == [client |-> NULL, shown |-> <<>>, template |-> <<>>]

(* The windows some live session links: a window is destroyed, and its   *)
(* panes with it, when its last winlink goes.                            *)
Linked == UNION {{l.w : l \in sess[s].wls} : s \in Live}

(* Lost clients: CLIENT_DEAD. *)
Dead == {c \in ClientIds : cl[c].used /\ c \notin Connected}

(* Leave choose mode in the windows of gone: window_pane_reset_mode calls
   cmd_choose_session_free, which drops the reference exec took. *)
Release(gone) ==
  /\ mode' = [w \in WindowIds |-> IF w \in gone THEN NoMode ELSE mode[w]]
  /\ cref' = [c \in ClientIds |->
                cref[c] - Cardinality({w \in gone : mode[w].client = c})]

(* Every step of Sessions, with the choose modes of the windows it
   destroyed reset. *)
PaneReset == Release({w \in WindowIds : mode[w] # NoMode} \ Linked')

ChooserInit ==
  /\ Init
  /\ mode = [w \in WindowIds |-> NoMode]
  /\ cref = [c \in ClientIds |-> 0]
  /\ freed = {}

(* Mutant: exec does not take the reference (references++ dropped). *)
CmdChooseSessionExecNoRef(c, t) ==
  LET w == sess[cl[c].session].curw.w IN
  /\ c \in Connected
  /\ cl[c].session # NULL
  /\ mode[w] = NoMode
  /\ mode' = [mode EXCEPT ![w] = [client |-> c, shown |-> sessions, template |-> t]]
  /\ UNCHANGED <<vars, cref>>

(* cmd_choose_session_exec, run by client c from a key binding
   (curclient = c): the target is the current window of c's session; a
   pane already in a mode makes window_pane_set_mode fail and exec
   returns with nothing done.  The items are the slots of the sessions
   array; the data holds a reference to c and the template t. *)
CmdChooseSessionExec(c, t) ==
  LET w == sess[cl[c].session].curw.w IN
  /\ c \in Connected
  /\ cl[c].session # NULL
  /\ mode[w] = NoMode
  /\ mode' = [mode EXCEPT ![w] = [client |-> c, shown |-> sessions, template |-> t]]
  /\ cref' = [cref EXCEPT ![c] = @ + 1]
  /\ UNCHANGED vars

(* The item data a key in choose mode can pass to the callback: -1
   (cancel) or a slot listed when the chooser was built. *)
Items(w) ==
  {-1} \cup {i - 1 : i \in {j \in DOMAIN mode[w].shown : mode[w].shown[j] # NULL}}

Digits == <<"1", "2", "3", "4", "5", "6", "7", "8", "9">>

(* Mutant: the character after a replaced % is not skipped (ptr++ dropped). *)
RECURSIVE ReplaceFromNoSkip(_, _, _, _)
ReplaceFromNoSkip(t, s, idx, replaced) ==
  IF t = <<>> THEN <<>>
  ELSE IF Head(t) # "%" THEN <<Head(t)>> \o ReplaceFromNoSkip(Tail(t), s, idx, replaced)
  ELSE LET nx    == IF Len(t) > 1 THEN t[2] ELSE ""
           isIdx == idx \in DOMAIN Digits /\ nx = Digits[idx]
       IN IF isIdx \/ (nx = "%" /\ ~replaced)
          THEN s \o ReplaceFromNoSkip(Tail(t), s, idx, replaced \/ ~isIdx)
          ELSE <<"%">> \o ReplaceFromNoSkip(Tail(t), s, idx, replaced)

(* The loop of cmd_template_replace (cmd.c) over the rest of the
   template: a % followed by the digit idx, or by a % while none has been
   replaced yet, is replaced by s and both characters are skipped (a %%
   sets replaced); any other % and every other character is copied. *)
RECURSIVE ReplaceFrom(_, _, _, _)
ReplaceFrom(t, s, idx, replaced) ==
  IF t = <<>> THEN <<>>
  ELSE IF Head(t) # "%" THEN <<Head(t)>> \o ReplaceFrom(Tail(t), s, idx, replaced)
  ELSE LET nx    == IF Len(t) > 1 THEN t[2] ELSE ""
           isIdx == idx \in DOMAIN Digits /\ nx = Digits[idx]
       IN IF isIdx \/ (nx = "%" /\ ~replaced)
          THEN s \o ReplaceFrom(SubSeq(t, 3, Len(t)), s, idx, replaced \/ ~isIdx)
          ELSE <<"%">> \o ReplaceFrom(Tail(t), s, idx, replaced)

(* cmd_template_replace(template, s, idx): a copy when there is no %. *)
CmdTemplateReplace(t, s, idx) ==
  IF "%" \notin Range(t) THEN t ELSE ReplaceFrom(t, s, idx, FALSE)

(* The live session switch-client -t x reaches: the one named x, or the
   client's own when none is (cmd_lookup_session fails).  Exact names are
   enough: no name a template spells is a prefix or pattern of another. *)
SwitchTarget(c, x) ==
  LET named == {y \in Live : sess[y].name = x} IN
  IF named = {} THEN cl[c].session ELSE CHOOSE y \in named : TRUE

(* cmd_choose_session_callback: nothing for -1, a dead client, an index
   past the array or an empty slot; otherwise the template with the name
   of the session now in that slot put in, run for the client.  A
   chooser's window is linked into a live session, so the array is never
   empty and ARRAY_LENGTH - 1 does not wrap. *)
SessionCallback(d, idx) ==
  /\ cl' = IF /\ idx # -1
              /\ d.client \in Connected
              /\ idx <= Len(sessions) - 1
              /\ sessions[idx + 1] # NULL
           THEN [cl EXCEPT ![d.client].session =
                   SwitchTarget(d.client, CmdTemplateReplace(d.template, sess[sessions[idx + 1]].name, 1))]
           ELSE cl
  /\ UNCHANGED sess

(* A key in the pane chooses item idx: the callback runs, then the pane
   leaves choose mode and the free function runs. *)
ChooseItem(w, idx) ==
  /\ mode[w] # NoMode
  /\ SessionCallback(mode[w], idx)
  /\ Release({w})
  /\ UNCHANGED <<sessions, wname, wused, clients>>

(* server_clean_dead, run by the server loop after every event: free
   every dead client nothing references any more. *)
ServerCleanDead == freed' = freed \cup {c \in Dead' : cref'[c] = 0}

ChooserNext ==
  /\ \/ Next /\ PaneReset
     \/ \E c \in ClientIds, t \in Templates : CmdChooseSessionExec(c, t)
     \/ \E w \in WindowIds : \E i \in Items(w) : ChooseItem(w, i)
  /\ ServerCleanDead

ChooserSpec == ChooserInit /\ [][ChooserNext]_allVars

(***************************************************************************)
(* Properties                                                              *)
(***************************************************************************)

(* A client's reference count equals the number of chooser data blocks
   that hold it, through exec, choice, cancel and the destruction of the
   chooser's window by kill-window, unlink-window or kill-session; so no
   pending callback holds a client whose memory server_clean_dead freed. *)
ChooserReferencesHeld ==
  /\ \A c \in ClientIds :
       cref[c] = Cardinality({w \in WindowIds : mode[w].client = c})
  /\ \A w \in WindowIds : mode[w].client \notin freed

(* The windows whose pane leaves choose mode in a step: the only ones a
   choice can have been made in. *)
LeftMode == {w \in WindowIds : mode[w] # NoMode /\ mode'[w] = NoMode}

(* A template with the name put in, read positionally: the name takes
   the place of the first %% only, or of each %1; it is never expanded
   itself.  For a template that does not mix %% with %1.  (The comment
   over cmd_template_replace says "the first %% or %idx"; for a repeated
   %1 the code replaces every one, as here.) *)
SpecTemplate(t, n) ==
  LET at == {i \in 1 .. Len(t) - 1 : t[i] = "%" /\ t[i + 1] = "1"} IN
  IF at # {}
  THEN FlattenSeq([i \in DOMAIN t |-> CASE i \in at     -> n
                                       [] i - 1 \in at -> <<>>
                                       [] OTHER        -> <<t[i]>>])
  ELSE ReplaceFirstSubSeq(n, <<"%", "%">>, t)

(* A choice in choose-session moves the client exactly where the
   template, with the chosen slot's session name put in as SpecTemplate
   says, leads switch-client: to the live session of that name, or
   nowhere when no session has it; the callback's own substitution is
   the only step between the list and the command. *)
TemplateTargetsChosen ==
  [][\A w \in LeftMode : \A i \in Items(w) :
       LET c == mode[w].client IN
       c \in Connected /\ i \in 0 .. Len(sessions) - 1 /\ sessions[i + 1] # NULL /\ ChooseItem(w, i) =>
         cl'[c].session = SwitchTarget(c, SpecTemplate(mode[w].template, sess[sessions[i + 1]].name))
    ]_allVars

(* choose-session switches the client to the session the chosen item
   showed when the list was built. *)
ChosenSessionShown ==
  [][\A w \in LeftMode : \A i \in Items(w) :
       ChooseItem(w, i) =>
         \A c \in ClientIds :
           cl'[c] # cl[c] => cl'[c].session = mode[w].shown[i + 1]
    ]_allVars

=============================================================================
