----------------------------- MODULE Sessions -----------------------------
(***************************************************************************)
(* The server's global tables and the operations of server-fn.c on them.  *)
(*                                                                         *)
(* sessions and clients are the ARRAYs of the server: a slot holds a       *)
(* session (client) or NULL, and destroyed entries leave holes.  A         *)
(* session has a name, a creation time (s->tv), its winlinks (an index     *)
(* and the window linked there) and the index of its current winlink.     *)
(* A window is shared by every winlink that links it and lives while one   *)
(* does.  A client is attached to a session or to none.                    *)
(*                                                                         *)
(* session.c, window.c and server.c are not among the sources: creating   *)
(* and destroying sessions, session_detach and the client lifecycle are   *)
(* modelled from the spec (3) and marked so in the map.                   *)
(***************************************************************************)
EXTENDS Integers, Sequences, SequencesExt, FiniteSets

CONSTANTS
  SessIds,       \* session objects the server may allocate
  WindowIds,     \* window objects the server may allocate
  ClientIds,     \* client objects the server may allocate
  NULL,          \* an empty array slot / no session
  SessionNames,  \* names new-session may be given
  WindowNames,   \* names a window may have
  Indices        \* window indices (base-index 0 and up)

VARIABLES
  sessions,      \* the sessions ARRAY: Seq(SessIds \cup {NULL})
  sess,          \* per session: name, tv, wls (winlinks), curw, lockLong
  wname,         \* window -> name
  wused,         \* windows ever allocated
  clients,       \* the clients ARRAY: Seq(ClientIds \cup {NULL})
  cl             \* per client: session (or NULL), suspended, used, tv

vars == <<sessions, sess, wname, wused, clients, cl>>

NoWinlink == [idx |-> -1, w |-> NULL]
NoSession == [name |-> <<>>, tv |-> 0, wls |-> {}, curw |-> NoWinlink,
              lockLong |-> FALSE]

(* The live sessions and clients: those in a slot of their array. *)
Live == {sessions[i] : i \in DOMAIN sessions} \ {NULL}
Connected == {clients[i] : i \in DOMAIN clients} \ {NULL}
Used == {s \in SessIds : sess[s] # NoSession}

(* The window at index idx of s, if any, as a set of at most one. *)
WinAt(s, idx) == {wl.w : wl \in {l \in sess[s].wls : l.idx = idx}}
FreeIdx(s) == {i \in Indices : WinAt(s, i) = {}}
HasWindow(s, w) == \E wl \in sess[s].wls : wl.w = w

(* winlink_find_by_window: the RB tree is ordered by index, so the first
   winlink of w is the one with the lowest index. *)
WinlinkFindByWindow(s, w) ==
  CHOOSE wl \in sess[s].wls :
    wl.w = w /\ \A o \in sess[s].wls : o.w = w => wl.idx <= o.idx

(* Put x in the first NULL slot of arr, or append it (session_create,
   server_create_client). *)
ArrayInsert(arr, x) ==
  LET holes == {i \in DOMAIN arr : arr[i] = NULL} IN
  IF holes # {}
  THEN ReplaceAt(arr, Min(holes), x)
  ELSE Append(arr, x)

(* NULL out the slots of the sessions in gone, then drop trailing NULLs
   (session_destroy). *)
RECURSIVE TrimNull(_)
TrimNull(arr) ==
  IF arr # <<>> /\ Last(arr) = NULL THEN TrimNull(Front(arr)) ELSE arr
ArrayRemoveNoTrim(arr, gone) ==
  [i \in DOMAIN arr |-> IF arr[i] \in gone THEN NULL ELSE arr[i]]
ArrayRemove(arr, gone) ==
  TrimNull([i \in DOMAIN arr |-> IF arr[i] \in gone THEN NULL ELSE arr[i]])

(* Mutant: the client loop skips suspended clients, as server_lock's does. *)
ServerDestroySessionsSkipSuspended(gone) ==
  [c \in ClientIds |->
     IF cl[c].session \in gone /\ c \in Connected /\ ~cl[c].suspended
     THEN [cl[c] EXCEPT !.session = NULL] ELSE cl[c]]

(* Mutant: the c->session != s test is dropped: every attached client is
   detached. *)
ServerDestroySessionsAll(gone) ==
  [c \in ClientIds |->
     IF cl[c].session # NULL /\ c \in Connected
     THEN [cl[c] EXCEPT !.session = NULL] ELSE cl[c]]

(* server_destroy_session for every session in gone: each client attached
   to one is detached (and sent MSG_EXIT). *)
ServerDestroySessions(gone) ==
  [c \in ClientIds |->
     IF cl[c].session \in gone /\ c \in Connected
     THEN [cl[c] EXCEPT !.session = NULL] ELSE cl[c]]

(* session_detach of the winlink at index idx: remove it, and if it was
   the current one (s->curw) make another current.  The caller destroys
   the session when no winlink is left. *)
Detach(rec, idx) ==
  LET rest == {wl \in rec.wls : wl.idx # idx}
  IN {[rec EXCEPT !.wls = rest, !.curw = c] :
        c \in IF rec.curw.idx = idx
              THEN (IF rest = {} THEN {NoWinlink} ELSE rest)
              ELSE {rec.curw}}

Init ==
  /\ sessions = <<>>
  /\ sess = [s \in SessIds |-> NoSession]
  /\ wname \in [WindowIds -> WindowNames]
  /\ wused = {}
  /\ clients = <<>>
  /\ cl = [c \in ClientIds |-> [session |-> NULL, suspended |-> FALSE,
                                 used |-> FALSE, tv |-> 0]]

(***************************************************************************)
(* Session and client lifecycle (session.c, server.c; from the spec).     *)
(***************************************************************************)

(* new-session: session_create puts the session in the first free slot,
   with one window at the base index; names are unique. *)
NewSession(s, n, w) ==
  /\ s \notin Used
  /\ w \notin wused
  /\ \A x \in Live : sess[x].name # n
  /\ sessions' = ArrayInsert(sessions, s)
  /\ sess' = [sess EXCEPT ![s] = [name |-> n, tv |-> Cardinality(Used) + 1,
                                  wls |-> {[idx |-> 0, w |-> w]},
                                  curw |-> [idx |-> 0, w |-> w],
                                  lockLong |-> FALSE]]
  /\ wused' = wused \cup {w}
  /\ UNCHANGED <<wname, clients, cl>>

(* new-window: a new window at a free index, made current unless -d. *)
NewWindow(s, w, idx) ==
  /\ s \in Live
  /\ w \notin wused
  /\ idx \in FreeIdx(s)
  /\ \E sel \in BOOLEAN :
       sess' = [sess EXCEPT ![s].wls = @ \cup {[idx |-> idx, w |-> w]},
                            ![s].curw = IF sel THEN [idx |-> idx, w |-> w]
                                        ELSE @]
  /\ wused' = wused \cup {w}
  /\ UNCHANGED <<sessions, wname, clients, cl>>

(* kill-session: server_destroy_session, then session_destroy. *)
KillSession(s) ==
  /\ s \in Live
  /\ sessions' = ArrayRemove(sessions, {s})
  /\ cl' = ServerDestroySessions({s})
  /\ UNCHANGED <<sess, wname, wused, clients>>

(* A client connects: server_create_client takes the first free slot. *)
ClientConnect(c) ==
  /\ ~cl[c].used
  /\ clients' = ArrayInsert(clients, c)
  /\ cl' = [cl EXCEPT ![c].used = TRUE,
                      ![c].tv = Cardinality({x \in ClientIds : cl[x].used}) + 1]
  /\ UNCHANGED <<sessions, sess, wname, wused>>

(* attach-session / switch-client: the client's session becomes s. *)
ClientAttach(c, s) ==
  /\ c \in Connected
  /\ s \in Live
  /\ cl' = [cl EXCEPT ![c].session = s]
  /\ UNCHANGED <<sessions, sess, wname, wused, clients>>

(* server_lost_client: the slot becomes NULL; the array is not trimmed. *)
ClientLost(c) ==
  /\ c \in Connected
  /\ clients' = [i \in DOMAIN clients |->
                   IF clients[i] = c THEN NULL ELSE clients[i]]
  /\ UNCHANGED <<sessions, sess, wname, wused, cl>>

(* The locked client has run lock-command and resumes (MSG_UNLOCK). *)
ClientResume(c) ==
  /\ c \in Connected
  /\ cl[c].suspended
  /\ cl' = [cl EXCEPT ![c].suspended = FALSE]
  /\ UNCHANGED <<sessions, sess, wname, wused, clients>>

(* set-option lock-command: lockLong is whether it fits lockdata.cmd. *)
SetLockCommand(s, long) ==
  /\ s \in Live
  /\ sess' = [sess EXCEPT ![s].lockLong = long]
  /\ UNCHANGED <<sessions, wname, wused, clients, cl>>

(***************************************************************************)
(* server-fn.c                                                             *)
(***************************************************************************)

(* Sessions emptied by a detach are destroyed (session_detach calls
   session_destroy) and server_destroy_session detaches their clients.
   new maps each detached session to its record after the detach. *)
ApplyDetaches(new) ==
  LET gone == {s \in DOMAIN new : new[s].wls = {}}
  IN /\ sess' = [s \in SessIds |-> IF s \in DOMAIN new THEN new[s] ELSE sess[s]]
     /\ sessions' = ArrayRemove(sessions, gone)
     /\ cl' = ServerDestroySessions(gone)

(* Mutant: -k replaces the current winlink without forcing selectflag. *)
ServerLinkWindowNoForceSelect(src, srcidx, dst, dstidx, killflag, selectflag) ==
  /\ src \in Live /\ dst \in Live
  /\ WinAt(src, srcidx) # {}
  /\ LET w    == CHOOSE x \in WinAt(src, srcidx) : TRUE
         old  == IF dstidx = -1 THEN {} ELSE WinAt(dst, dstidx)
         kept == IF old # {} THEN {l \in sess[dst].wls : l.idx # dstidx}
                 ELSE sess[dst].wls
         free == {i \in Indices : ~\E l \in kept : l.idx = i}
     IN /\ old # {w}
        /\ old = {} \/ killflag
        /\ dstidx = -1 => free # {}
        /\ LET idx == IF dstidx = -1 THEN CHOOSE i \in free :
                                            \A j \in free : i <= j
                      ELSE dstidx
           IN sess' = [sess EXCEPT
                         ![dst].wls  = kept \cup {[idx |-> idx, w |-> w]},
                         ![dst].curw = IF selectflag THEN [idx |-> idx, w |-> w]
                                       ELSE sess[dst].curw]
  /\ UNCHANGED <<sessions, wname, wused, clients, cl>>

(* server_link_window(srcwl, dst, dstidx, killflag, selectflag): link the
   window of srcwl into dst at dstidx (-1: the first free index from
   base-index).  An occupied dstidx holding another window is replaced
   with -k and makes the new winlink current if it was; without -k
   session_attach fails and nothing changes.  A dstidx already linking
   the same window returns at once. *)
ServerLinkWindow(src, srcidx, dst, dstidx, killflag, selectflag) ==
  /\ src \in Live /\ dst \in Live
  /\ WinAt(src, srcidx) # {}
  /\ LET w     == CHOOSE x \in WinAt(src, srcidx) : TRUE
         old   == IF dstidx = -1 THEN {} ELSE WinAt(dst, dstidx)
         kept  == IF old # {} THEN {l \in sess[dst].wls : l.idx # dstidx}
                  ELSE sess[dst].wls
         sel   == selectflag \/ (old # {} /\ sess[dst].curw.idx = dstidx)
         free  == {i \in Indices : ~\E l \in kept : l.idx = i}
     IN /\ old # {w}                          \* return (0)
        /\ old = {} \/ killflag               \* session_attach fails
        /\ dstidx = -1 => free # {}           \* within the modelled indices
        /\ LET idx == IF dstidx = -1 THEN CHOOSE i \in free :
                                            \A j \in free : i <= j
                      ELSE dstidx
           IN sess' = [sess EXCEPT
                         ![dst].wls  = kept \cup {[idx |-> idx, w |-> w]},
                         ![dst].curw = IF sel THEN [idx |-> idx, w |-> w]
                                       ELSE sess[dst].curw]
  /\ UNCHANGED <<sessions, wname, wused, clients, cl>>

(* server_unlink_window(s, wl): session_detach, and if that emptied the
   session, server_destroy_session.  unlink-window only unlinks a window
   that is linked more than once. *)
ServerUnlinkWindow(s, idx) ==
  /\ s \in Live
  /\ WinAt(s, idx) # {}
  /\ LET w == CHOOSE x \in WinAt(s, idx) : TRUE
     IN Cardinality({<<x, l>> \in Live \X UNION {sess[y].wls : y \in Live} :
                        l \in sess[x].wls /\ l.w = w}) > 1
  /\ \E rec \in Detach(sess[s], idx) : ApplyDetaches(s :> rec)
  /\ UNCHANGED <<wname, wused, clients>>

(* server_kill_window(w): in every session having w, detach the winlink
   winlink_find_by_window returns, destroying sessions left empty. *)
ServerKillWindow(w) ==
  LET has == {s \in Live : HasWindow(s, w)}
  IN /\ has # {}
     /\ \E new \in [has -> UNION {Detach(sess[s], WinlinkFindByWindow(s, w).idx)
                                     : s \in has}] :
          /\ \A s \in has :
               new[s] \in Detach(sess[s], WinlinkFindByWindow(s, w).idx)
          /\ ApplyDetaches(new)
     /\ UNCHANGED <<wname, wused, clients>>

(* server_lock(client, session): walk the clients array, suspending each
   attached, not yet suspended client that is the target (every client,
   the clients of session, or client); a lock-command too long for
   lockdata.cmd returns from the middle of the walk. *)
Targeted(i, client, session) ==
  LET c == clients[i] IN
  /\ c # NULL
  /\ cl[c].session # NULL
  /\ ~cl[c].suspended
  /\ client = NULL \/ client = c
  /\ session = NULL \/ cl[c].session = session
LockedBy(client, session) ==
  LET stop == {i \in DOMAIN clients :
                 Targeted(i, client, session) /\ sess[cl[clients[i]].session].lockLong}
      end  == IF stop = {} THEN Len(clients) + 1
              ELSE CHOOSE i \in stop : \A j \in stop : i <= j
  IN {clients[i] : i \in {j \in DOMAIN clients :
                            j < end /\ Targeted(j, client, session)}}
ServerLock(client, session) ==
  /\ cl' = [c \in ClientIds |->
              IF c \in LockedBy(client, session)
              THEN [cl[c] EXCEPT !.suspended = TRUE] ELSE cl[c]]
  /\ UNCHANGED <<sessions, sess, wname, wused, clients>>

(* cmd_lock_server_exec: lock-server locks every client, lock-session the
   clients of the target session, lock-client the target client. *)
CmdLockServer ==
  \/ ServerLock(NULL, NULL)
  \/ \E s \in Live : ServerLock(NULL, s)
  \/ \E c \in Connected : ServerLock(c, NULL)

(* The steps that change what exists: sessions, windows, winlinks and
   clients. *)
TableNext ==
  \/ \E s \in SessIds, n \in SessionNames, w \in WindowIds : NewSession(s, n, w)
  \/ \E s \in SessIds, w \in WindowIds, i \in Indices : NewWindow(s, w, i)
  \/ \E s \in SessIds : KillSession(s)
  \/ \E c \in ClientIds : ClientConnect(c) \/ ClientLost(c)
  \/ \E c \in ClientIds, s \in SessIds : ClientAttach(c, s)
  \/ \E src, dst \in SessIds, si \in Indices, di \in Indices \cup {-1},
        k, sel \in BOOLEAN : ServerLinkWindow(src, si, dst, di, k, sel)
  \/ \E s \in SessIds, i \in Indices : ServerUnlinkWindow(s, i)
  \/ \E w \in WindowIds : ServerKillWindow(w)

(* The lock commands and what they depend on. *)
LockNext ==
  \/ \E c \in ClientIds : ClientResume(c)
  \/ \E s \in SessIds, b \in BOOLEAN : SetLockCommand(s, b)
  \/ CmdLockServer

Next == TableNext \/ LockNext

Spec == Init /\ [][Next]_vars

TableSpec == Init /\ [][TableNext]_vars

(***************************************************************************)
(* Properties                                                              *)
(***************************************************************************)

Slot(S) == S \cup {NULL}

TypeOK ==
  /\ sessions \in Seq(Slot(SessIds))
  /\ clients \in Seq(Slot(ClientIds))
  /\ \A s \in SessIds :
       /\ sess[s].wls \subseteq [idx : Indices, w : wused]
       /\ sess[s].curw \in [idx : Indices, w : wused] \cup {NoWinlink}
  /\ \A c \in ClientIds : cl[c].session \in Slot(SessIds)
  /\ wused \subseteq WindowIds
  /\ sessions = <<>> \/ Last(sessions) # NULL

(* Every session in the sessions array has at least one winlink, one
   window per index, and its current winlink is one of them: the
   detaches of server_unlink_window and server_kill_window destroy a
   session they empty and move curw off a winlink they remove. *)
SessionsWellFormed ==
  \A s \in Live :
    /\ sess[s].wls # {}
    /\ \A l1, l2 \in sess[s].wls : l1.idx = l2.idx => l1 = l2
    /\ sess[s].curw \in sess[s].wls

(* A connected client is attached to no session or to a live one: every
   path that destroys a session (kill-session, server_unlink_window and
   server_kill_window emptying it) first detaches its clients through
   server_destroy_session. *)
AttachedSessionLive ==
  \A c \in Connected : cl[c].session \in Slot(Live)

(* The tables seen as ServerTables: the sessions in a slot of the
   sessions array, and the session of each client in a slot of the
   clients array. *)
Tables == INSTANCE ServerTables
            WITH live <- Live, attached <- [c \in Connected |-> cl[c].session]

(* The arrays with their NULL holes and trailing trim implement the
   tables: every step creates one session, destroys sessions together
   with the detaching of exactly their clients (kill-session, and
   server_unlink_window / server_kill_window emptying sessions, through
   server_destroy_session), connects, loses or attaches one client, or
   changes neither. *)
TablesRefined == Tables!TablesSpec

(* After kill-window (server_kill_window) no session links the window
   any more. *)
KilledWindowUnlinked ==
  [][\A w \in WindowIds :
       ServerKillWindow(w) => ~\E s \in Live' : w \in {l.w : l \in sess'[s].wls}
    ]_vars

(* lock-server (server_lock(NULL, NULL)) suspends every attached client
   whose own session's lock-command fits in lockdata.cmd. *)
LockServerLocksAll ==
  [][ServerLock(NULL, NULL) =>
       \A c \in Connected :
         (cl[c].session # NULL /\ ~sess[cl[c].session].lockLong)
           => cl'[c].suspended
    ]_vars

=============================================================================
