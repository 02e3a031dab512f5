---------------------------- MODULE ServerTables ----------------------------
(***************************************************************************)
(* What the server's session and client tables promise, without the       *)
(* arrays: a set of live sessions and, for every connected client, the    *)
(* session it is attached to or NULL (spec 3 and 9: "global mutable       *)
(* session/client tables").                                                *)
(*                                                                         *)
(* A session is created, or a set of sessions is destroyed in one step    *)
(* together with the detaching of exactly their clients; a client         *)
(* connects detached, is lost, or is attached to a live session.  Nothing *)
(* else changes which sessions exist or where a client is attached.       *)
(* Sessions refines this module (TablesRefined).                          *)
(***************************************************************************)
EXTENDS FiniteSets

CONSTANTS SessIds, ClientIds, NULL

VARIABLES
  live,       \* the sessions that exist
  attached    \* connected client -> its session, or NULL

tableVars == <<live, attached>>

TablesInit ==
  /\ live = {}
  /\ attached = [c \in {} |-> NULL]

Create(s) ==
  /\ s \notin live
  /\ live' = live \cup {s}
  /\ UNCHANGED attached

(* The sessions of gone go, and every client attached to one of them,
   and no other, is detached in the same step. *)
Destroy(gone) ==
  /\ gone # {}
  /\ gone \subseteq live
  /\ live' = live \ gone
  /\ attached' = [c \in DOMAIN attached |->
                    IF attached[c] \in gone THEN NULL ELSE attached[c]]

Connect(c) ==
  /\ c \notin DOMAIN attached
  /\ attached' = [x \in DOMAIN attached \cup {c} |->
                    IF x = c THEN NULL ELSE attached[x]]
  /\ UNCHANGED live

Lose(c) ==
  /\ c \in DOMAIN attached
  /\ attached' = [x \in DOMAIN attached \ {c} |-> attached[x]]
  /\ UNCHANGED live

Attach(c, s) ==
  /\ c \in DOMAIN attached
  /\ s \in live
  /\ attached' = [attached EXCEPT ![c] = s]
  /\ UNCHANGED live

TablesNext ==
  \/ \E s \in SessIds : Create(s)
  \/ \E gone \in SUBSET SessIds : Destroy(gone)
  \/ \E c \in ClientIds : Connect(c) \/ Lose(c)
  \/ \E c \in ClientIds, s \in SessIds : Attach(c, s)

TablesSpec == TablesInit /\ [][TablesNext]_tableVars

=============================================================================
