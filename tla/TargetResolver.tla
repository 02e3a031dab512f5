--------------------------- MODULE TargetResolver ---------------------------
(***************************************************************************)
(* Target resolution of cmd.c over the server's tables of Sessions.       *)
(*                                                                         *)
(* Names and command arguments are sequences of one-character strings.    *)
(* Every resolver is an operator of the current state; the runs check     *)
(* them, for every argument of a small set, in every reachable state of   *)
(* the Sessions specification.                                            *)
(*                                                                         *)
(* cmd_current_session reads past the sessions array in one case: its     *)
(* result is then the set of values that read can give.  The other        *)
(* resolvers return the set of their results for each current session.    *)
(***************************************************************************)
EXTENDS Sessions

CONSTANTS
  Garbage,       \* a pointer read from outside the sessions array
  Fault,         \* the command dereferenced a NULL pointer
  ClientPath,    \* client -> its tty path, a name; "/dev/" is one character
  PaneCount,     \* window -> number of panes
  MaxEnvIdx      \* largest session index a $TMUX value carries

(* strtonum(name, 0, INT_MAX, &errstr): the value of a string of digits,
   -1 (errstr set) for anything else. *)
Digit == [d \in {"0", "1", "2"} |-> CASE d = "0" -> 0 [] d = "1" -> 1 [] d = "2" -> 2]
StrToNum(name) ==
  IF name # <<>> /\ \A i \in DOMAIN name : name[i] \in DOMAIN Digit
  THEN LET val[k \in 0 .. Len(name)] ==
             IF k = 0 THEN 0 ELSE 10 * val[k - 1] + Digit[name[k]]
       IN val[Len(name)]
  ELSE -1

(* fnmatch(pattern, string, 0), for the * and ? wildcards. *)
RECURSIVE FnMatch(_, _)
FnMatch(p, s) ==
  IF p = <<>> THEN s = <<>>
  ELSE IF Head(p) = "*"
       THEN FnMatch(Tail(p), s) \/ (s # <<>> /\ FnMatch(p, Tail(s)))
       ELSE /\ s # <<>>
            /\ Head(p) \in {"?", Head(s)}
            /\ FnMatch(Tail(p), Tail(s))

(* The strncmp(name, x, strlen(name)) == 0 || fnmatch(name, x, 0) == 0
   test of the session and window lookups. *)
PatternMatch(name, x) == IsPrefix(name, x) \/ FnMatch(name, x)

(* cmd_lookup_session: walk the sessions array; an exact name returns at
   once, the second pattern match returns ambiguous. *)
RECURSIVE LookupSessionFrom(_, _, _)
LookupSessionFrom(name, i, sfound) ==
  IF i > Len(sessions) THEN [s |-> sfound, amb |-> FALSE]
  ELSE LET s == sessions[i] IN
       IF s = NULL THEN LookupSessionFrom(name, i + 1, sfound)
       ELSE IF name = sess[s].name THEN [s |-> s, amb |-> FALSE]
       ELSE IF PatternMatch(name, sess[s].name)
            THEN IF sfound # NULL THEN [s |-> NULL, amb |-> TRUE]
                 ELSE LookupSessionFrom(name, i + 1, s)
            ELSE LookupSessionFrom(name, i + 1, sfound)
CmdLookupSession(name) == LookupSessionFrom(name, 1, NULL)

(* cmd_lookup_window: a valid index that has a winlink wins; then the
   exact names, then the pattern matches, each walked in index order
   (RB_FOREACH) returning ambiguous at a second match: a walk's result
   depends only on the set of winlinks that match. *)
WalkWinlinks(hits) ==
  CASE hits = {}             -> [wl |-> NoWinlink, amb |-> FALSE]
    [] Cardinality(hits) = 1 -> [wl |-> CHOOSE l \in hits : TRUE, amb |-> FALSE]
    [] OTHER                 -> [wl |-> NoWinlink, amb |-> TRUE]
CmdLookupWindow(s, name) ==
  LET num   == StrToNum(name)
      byIdx == {l \in sess[s].wls : l.idx = num}
      exact == WalkWinlinks({l \in sess[s].wls : wname[l.w] = name})
      pat   == WalkWinlinks({l \in sess[s].wls : PatternMatch(name, wname[l.w])})
  IN IF byIdx # {} THEN [wl |-> CHOOSE l \in byIdx : TRUE, amb |-> FALSE]
     ELSE IF exact.amb \/ exact.wl # NoWinlink THEN exact
     ELSE pat

(* cmd_newest_session: the first session with the greatest s->tv among the
   non-NULL entries of the array ss (timercmp >: the first wins a tie). *)
CmdNewestSession(ss) ==
  LET live == {i \in DOMAIN ss : ss[i] # NULL}
      best == {i \in live : \A j \in live :
                  sess[ss[j]].tv < sess[ss[i]].tv
                  \/ (sess[ss[j]].tv = sess[ss[i]].tv /\ i <= j)}
  IN IF live = {} THEN NULL ELSE ss[CHOOSE i \in best : TRUE]

(* The context of a command: the client it runs for (curclient: key
   bindings, choosers), the pane window of the command client's tty, and
   the pid and session index a command client took from $TMUX (pid "none"
   when $TMUX is unset). *)
Ctx == [curclient : ClientIds \cup {NULL}, tty : WindowIds \cup {NULL},
        pid : {"none", "ours", "other"}, idx : 0 .. MaxEnvIdx]

(* The sessions in the array that contain window w, in array order (the
   others as NULL holes, which cmd_newest_session skips). *)
SessionsWith(w) ==
  [i \in DOMAIN sessions |-> IF sessions[i] # NULL /\ HasWindow(sessions[i], w)
                             THEN sessions[i] ELSE NULL]

(* cmd_current_session(ctx): the set of sessions it can return.  With
   data->idx = ARRAY_LENGTH(&sessions) ARRAY_ITEM reads the slot just past
   the array: a session pointer left there by an earlier ARRAY_TRUNC, or
   memory never written. *)
CmdCurrentSession(ctx) ==
  IF ctx.curclient # NULL /\ cl[ctx.curclient].session # NULL
  THEN {cl[ctx.curclient].session}
  ELSE IF ctx.tty # NULL /\ CmdNewestSession(SessionsWith(ctx.tty)) # NULL
  THEN {CmdNewestSession(SessionsWith(ctx.tty))}
  ELSE IF ctx.pid # "none"
  THEN IF ctx.pid = "other" THEN {NULL}
       ELSE IF ctx.idx > Len(sessions) THEN {NULL}
       ELSE IF ctx.idx = Len(sessions) THEN {NULL, Garbage} \cup (Used \ Live)
       ELSE {sessions[ctx.idx + 1]}
  ELSE {CmdNewestSession(sessions)}

(* cmd_lookup_client: the first client whose tty path is name, or is
   "/dev/" followed by name. *)
CmdLookupClient(name) ==
  LET hits == {i \in DOMAIN clients :
                 clients[i] # NULL
                 /\ \/ ClientPath[clients[i]] = name
                    \/ ClientPath[clients[i]] = <<"/dev/">> \o name}
  IN IF hits = {} THEN NULL
     ELSE clients[CHOOSE i \in hits : \A j \in hits : i <= j]

(* Trim a single trailing colon. *)
TrimColon(arg) ==
  IF arg # <<>> /\ Last(arg) = ":" THEN Front(arg) ELSE arg

(* cmd_find_session(ctx, arg): arg NULL is the current session; otherwise
   the session of that name, or else the session of the client of that
   tty. *)
FindSessionNamed(arg) ==
  LET name == TrimColon(arg)
      s    == CmdLookupSession(name).s
      c    == CmdLookupClient(name)
  IN IF s = NULL /\ c # NULL THEN cl[c].session ELSE s
CmdFindSession(ctx, arg) ==
  IF arg = NULL THEN CmdCurrentSession(ctx) ELSE {FindSessionNamed(arg)}

(* A result of cmd_find_window: a session and one of its winlinks. *)
Found(s, wl) == [s |-> s, wl |-> wl]
NotFound == Found(NULL, NoWinlink)

ColonSplit(arg) ==
  LET colons == {i \in DOMAIN arg : arg[i] = ":"}
      k == IF colons = {} THEN 0 ELSE Min(colons)
  IN IF k = 0 THEN <<>> ELSE <<SubSeq(arg, 1, k - 1), SubSeq(arg, k + 1, Len(arg))>>

(* cmd_find_window with current session cur: the argument is split at
   its first colon into session and window parts; without a colon
   it is tried as a window of cur, then, unless that was ambiguous, as a
   session whose current window is taken. *)
FindWindowIn(cur, arg) ==
  IF cur \in {NULL, Garbage} THEN NotFound
  ELSE IF arg = NULL THEN Found(cur, sess[cur].curw)
  ELSE IF arg = <<>> THEN NotFound
  ELSE LET split == ColonSplit(arg) IN
       IF split = <<>>
       THEN LET r == CmdLookupWindow(cur, arg)
                t == CmdLookupSession(arg).s
            IN IF r.wl # NoWinlink THEN Found(cur, r.wl)
               ELSE IF r.amb \/ t = NULL THEN NotFound
               ELSE Found(t, sess[t].curw)
       ELSE LET sp == split[1]
                wp == split[2]
                s  == IF sp = <<>> THEN cur ELSE CmdLookupSession(sp).s
                wl == CmdLookupWindow(s, wp).wl
            IN IF s = NULL THEN NotFound
               ELSE IF wp = <<>> THEN Found(s, sess[s].curw)
               ELSE IF wl = NoWinlink THEN NotFound
               ELSE Found(s, wl)
CmdFindWindow(ctx, arg) == {FindWindowIn(cur, arg) : cur \in CmdCurrentSession(ctx)}

(* cmd_find_pane with current session cur: the argument is split at its
   last period (strrchr) into a window target and a pane index; without a
   period it is a pane index of the current window, else a window target
   whose active pane is taken (pane 0 here).  The pane is in the result. *)
FoundPane(f, p) == [s |-> f.s, wl |-> f.wl, pane |-> p]
NoPane == FoundPane(NotFound, -1)
FindPaneIn(cur, arg) ==
  IF cur \in {NULL, Garbage} THEN NoPane
  ELSE IF arg = NULL THEN FoundPane(Found(cur, sess[cur].curw), 0)
  ELSE LET dots == {i \in DOMAIN arg : arg[i] = "."}
           k  == IF dots = {} THEN 0 ELSE Max(dots)
           an == StrToNum(arg) IN
       IF k # 0
       THEN LET wp == SubSeq(arg, 1, k - 1)
                pp == SubSeq(arg, k + 1, Len(arg))
                pn == StrToNum(pp)
                f  == IF wp = <<>> THEN Found(cur, sess[cur].curw)
                      ELSE FindWindowIn(cur, wp)
            IN IF f = NotFound THEN NoPane
               ELSE IF pp = <<>> THEN FoundPane(f, 0)
               ELSE IF pn \in 0 .. PaneCount[f.wl.w] - 1
                    THEN FoundPane(f, pn)
               ELSE NoPane
       ELSE IF an \in 0 .. PaneCount[sess[cur].curw.w] - 1
            THEN FoundPane(Found(cur, sess[cur].curw), an)
       ELSE LET f == FindWindowIn(cur, arg)
            IN IF f = NotFound THEN NoPane ELSE FoundPane(f, 0)
CmdFindPane(ctx, arg) == {FindPaneIn(cur, arg) : cur \in CmdCurrentSession(ctx)}

(* Mutant: the number is tried before the names. *)
CmdLookupIndexNumberFirst(s, name) ==
  LET r == CmdLookupWindow(s, name) IN
  CASE StrToNum(name) # -1 -> [idx |-> StrToNum(name), amb |-> FALSE]
    [] r.wl # NoWinlink    -> [idx |-> r.wl.idx, amb |-> FALSE]
    [] OTHER               -> [idx |-> -1, amb |-> r.amb]

(* cmd_lookup_index: the index of the winlink cmd_lookup_window finds;
   failing that, unless the lookup was ambiguous, the number the name
   spells (an index no winlink has yet); else -1. *)
CmdLookupIndex(s, name) ==
  LET r == CmdLookupWindow(s, name) IN
  CASE r.wl # NoWinlink -> [idx |-> r.wl.idx, amb |-> FALSE]
    [] r.amb            -> [idx |-> -1, amb |-> TRUE]
    [] OTHER            -> [idx |-> StrToNum(name), amb |-> FALSE]

(* A result of cmd_find_index: the session left in *sp (NULL if none was
   set) and the index, -1 for "no window given", -2 for an error. *)
FoundIdx(s, i) == [s |-> s, idx |-> i]

(* cmd_find_index with current session cur: split as cmd_find_window does;
   an empty window part is -1; a window part that is neither a window nor
   a number is "invalid index".  Without a colon the argument is an index
   of cur, then, unless that lookup was ambiguous, a session (index -1). *)
FindIndexIn(cur, arg) ==
  IF cur \in {NULL, Garbage} THEN FoundIdx(NULL, -2)
  ELSE IF arg = NULL THEN FoundIdx(cur, -1)
  ELSE IF arg = <<>> THEN FoundIdx(NULL, -2)
  ELSE LET split == ColonSplit(arg) IN
       IF split = <<>>
       THEN LET r == CmdLookupIndex(cur, arg)
                t == CmdLookupSession(arg).s
            IN CASE r.idx # -1        -> FoundIdx(cur, r.idx)
                 [] r.amb \/ t = NULL -> FoundIdx(NULL, -2)
                 [] OTHER             -> FoundIdx(t, -1)
       ELSE LET sp == split[1]
                wp == split[2]
                s  == IF sp = <<>> THEN cur ELSE CmdLookupSession(sp).s
            IN CASE s = NULL  -> FoundIdx(NULL, -2)
                 [] wp = <<>> -> FoundIdx(s, -1)
                 [] OTHER     -> LET r == CmdLookupIndex(s, wp)
                                 IN FoundIdx(s, IF r.idx = -1 THEN -2 ELSE r.idx)
CmdFindIndex(ctx, arg) == {FindIndexIn(cur, arg) : cur \in CmdCurrentSession(ctx)}

(* cmd_list_windows_exec: the session cmd_find_session gives, then, in
   index order (RB_FOREACH), a line per winlink: its index, its window,
   and " (active)" for s->curw.  <<>> when no session is found. *)
ListWindowsOf(s) ==
  LET order == SetToSortSeq(sess[s].wls, LAMBDA a, b : a.idx < b.idx)
  IN [i \in DOMAIN order |-> [idx |-> order[i].idx, w |-> order[i].w,
                              active |-> order[i] = sess[s].curw]]
CmdListWindows(ctx, arg) ==
  {IF s = NULL THEN <<>> ELSE ListWindowsOf(s) : s \in CmdFindSession(ctx, arg)}

(* cmd_newest_client: the first attached client with the greatest c->tv. *)
CmdNewestClient ==
  LET att  == {i \in DOMAIN clients :
                 clients[i] # NULL /\ cl[clients[i]].session # NULL}
      best == {i \in att : \A j \in att :
                  cl[clients[j]].tv < cl[clients[i]].tv
                  \/ (cl[clients[j]].tv = cl[clients[i]].tv /\ i <= j)}
  IN IF att = {} THEN NULL ELSE clients[CHOOSE i \in best : TRUE]

(* The loop of cmd_find_client(ctx, NULL) over the clients array: the only
   client of session s, else the newest client.  It reads
   ARRAY_ITEM(&clients, i)->session without checking the slot for NULL. *)
RECURSIVE OnlyClientFrom(_, _, _)
OnlyClientFrom(s, i, c) ==
  IF i > Len(clients) THEN (IF c # NULL THEN c ELSE CmdNewestClient)
  ELSE IF clients[i] = NULL THEN Fault
  ELSE IF cl[clients[i]].session = s
       THEN IF c # NULL THEN CmdNewestClient
            ELSE OnlyClientFrom(s, i + 1, clients[i])
       ELSE OnlyClientFrom(s, i + 1, c)

(* cmd_find_client(ctx, arg): the set of clients it can return. *)
CmdFindClient(ctx, arg) ==
  IF arg # NULL THEN {CmdLookupClient(TrimColon(arg))}
  ELSE IF ctx.curclient # NULL THEN {ctx.curclient}
  ELSE {IF s = NULL THEN CmdNewestClient
        ELSE OnlyClientFrom(s, 1, NULL) : s \in CmdCurrentSession(ctx)}

(***************************************************************************)
(* Properties                                                              *)
(***************************************************************************)

CONSTANT Queries     \* the target arguments checked in every state

(* fnmatch as the spec of the pattern: cut[k] is where the part of s that
   pattern character k matches ends; * takes any part, ? and a plain
   character exactly one. *)
RefMatch(p, s) ==
  \E cut \in [0 .. Len(p) -> 0 .. Len(s)] :
    /\ cut[0] = 0 /\ cut[Len(p)] = Len(s)
    /\ \A k \in 1 .. Len(p) :
         /\ cut[k - 1] <= cut[k]
         /\ p[k] = "*" \/ (cut[k] = cut[k - 1] + 1 /\ p[k] \in {"?", s[cut[k]]})

(* Spec 4.2, window lookup: an index with a winlink wins; then exact names,
   then prefix or glob matches; two matches in a phase are ambiguous. *)
SpecLookupOne(S) ==
  IF Cardinality(S) > 1 THEN [wl |-> NoWinlink, amb |-> TRUE]
  ELSE IF S = {} THEN [wl |-> NoWinlink, amb |-> FALSE]
  ELSE [wl |-> CHOOSE l \in S : TRUE, amb |-> FALSE]
SpecLookupWindow(s, name) ==
  LET W == sess[s].wls
      I == {l \in W : l.idx = StrToNum(name)}
      E == {l \in W : wname[l.w] = name}
      P == {l \in W : IsPrefix(name, wname[l.w]) \/ RefMatch(name, wname[l.w])}
  IN IF I # {} THEN SpecLookupOne(I)
     ELSE IF E # {} THEN SpecLookupOne(E)
     ELSE SpecLookupOne(P)

(* Spec 4.2, session lookup: an exact name wins; otherwise one prefix or
   glob match is the session, two are ambiguous. *)
SpecLookupSession(name) ==
  LET E == {x \in Live : sess[x].name = name}
      P == {x \in Live : IsPrefix(name, sess[x].name) \/ RefMatch(name, sess[x].name)}
  IN IF E # {} THEN [s |-> CHOOSE x \in E : TRUE, amb |-> FALSE]
     ELSE IF Cardinality(P) > 1 THEN [s |-> NULL, amb |-> TRUE]
     ELSE IF P = {} THEN [s |-> NULL, amb |-> FALSE]
     ELSE [s |-> CHOOSE x \in P : TRUE, amb |-> FALSE]

(* cmd_lookup_session, walking the sessions array, resolves every argument
   as spec 4.2 says. *)
LookupSessionMatchesSpec ==
  \A q \in Queries : CmdLookupSession(q) = SpecLookupSession(q)

(* The contexts a command can run in now: curclient is a connected
   client. *)
CtxNow == {ctx \in Ctx : ctx.curclient \in Connected \cup {NULL}}

(* Those whose $TMUX session index, if any, is one cmd_current_session
   reads inside the array. *)
InArrayCtx == {ctx \in CtxNow : ctx.pid = "ours" => ctx.idx < Len(sessions)}

(* The current sessions cmd_current_session gives them. *)
CurrentSessions == UNION {CmdCurrentSession(ctx) : ctx \in InArrayCtx}

(* The winlink of session s at index i, as a set. *)
WinlinkAt(s, i) == {l \in sess[s].wls : l.idx = i}

(* cmd_find_index (new-window, move-window, link-window -t) and
   cmd_find_window (select-window, kill-window -t) agree on a target that
   exists: an error of the first is an error of the second, and an index
   the first returns that a winlink has is that winlink for the second.
   For a bare window argument the index is the one spec 4.2 and 8 give:
   an index that exists, else the window whose name matches. *)
FindIndexAgreesWithFindWindow ==
  \A cur \in CurrentSessions, q \in Queries \cup {NULL} :
    LET w == FindWindowIn(cur, q)
        i == FindIndexIn(cur, q)
        spec == SpecLookupWindow(cur, q)
    IN /\ i.idx = -2 => w = NotFound
       /\ i.idx >= 0 /\ WinlinkAt(i.s, i.idx) # {} =>
            w = Found(i.s, CHOOSE l \in WinlinkAt(i.s, i.idx) : TRUE)
       /\ cur \in Live /\ q # NULL /\ ":" \notin Range(q) /\ spec.wl # NoWinlink =>
            i = FoundIdx(cur, spec.wl.idx)

(* cmd_find_client(ctx, NULL) never dereferences an empty slot of the
   clients array, whatever clients have come and gone. *)
FindClientNoFault ==
  \A ctx \in InArrayCtx : Fault \notin CmdFindClient(ctx, NULL)

=============================================================================
