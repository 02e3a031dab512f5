---------------------------- MODULE MCSessions ----------------------------
(* Sessions and the choosers for TLC: two sessions, two windows, one client, two window
   indices.  The lock run has three clients and one index: server_lock
   only shows a partial walk when a client before the stopping one is
   locked.  Every ID set is symmetric: no definition tells two IDs of a
   set apart except by the state they are in. *)
EXTENDS Chooser, TLC

CONSTANTS s1, s2, s3, w1, w2, w3, c1, c2, c3

MCSessIds == {s1, s2}
MCWindowIds == {w1, w2}
MCThreeSessions == {s1, s2, s3}
MCThreeWindows == {w1, w2, w3}
MCClientIds == {c1}
MCThreeClients == {c1, c2, c3}
MCOneIndex == {0}
MCSessionNames == {<<"a">>, <<"b">>}
MCWindowNames == {<<"a">>}
MCIndices == 0 .. 1
(* switch-client -t '%%', the default, and -t %1: both spell the chosen
   name, one through the first %%, one through %1. *)
MCTemplates == {<<"%", "%">>, <<"%", "1">>}

(* At most MaxChoosers panes in choose mode at once: one chooser shows
   every reference-count path (exec, callback, cancel, window destroyed)
   and the stale slot of choose-session. *)
MaxChoosers == 1
ChooserBound == Cardinality({w \in WindowIds : mode[w] # NoMode}) <= MaxChoosers

(* The Sessions steps alone, no chooser ever opened: for the runs about
   server-fn.c that choosers do not touch. *)
SessionsOnlySpec == ChooserInit /\ [][Next /\ UNCHANGED chooserVars]_allVars

Symmetry == Permutations(MCSessIds) \cup Permutations(MCWindowIds)
              \cup Permutations(MCClientIds)
====
