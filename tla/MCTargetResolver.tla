------------------------- MODULE MCTargetResolver -------------------------
(* TargetResolver for TLC.  Session names "a" and "ab" (one a prefix of
   the other); window names "a:" (a name holding a colon) and "1" (a name that is
   also an index);
   two windows of two panes, two indices, one client whose tty is
   "/dev/" "a".  Sessions and windows are symmetric.  Only TableSpec
   runs: the lock commands change nothing a lookup reads.  The
   arguments cover plain, glob, numeric, colon and period forms.  The
   session-lookup run has three sessions (and windows) named "a", "aa" and
   "ab". *)
EXTENDS TargetResolver, TLC

CONSTANTS s1, s2, s3, w1, w2, w3, c1, c2

MCSessIds == {s1, s2}
MCThreeSessions == {s1, s2, s3}
MCWindowIds == {w1, w2}
MCThreeWindows == {w1, w2, w3}
MCClientIds == {c1}
MCTwoClients == {c1, c2}
MCSessionNames == {<<"a">>, <<"a", "b">>}
MCThreeNames == {<<"a">>, <<"a", "a">>, <<"a", "b">>}
MCWindowNames == {<<"a", ":">>, <<"1">>}
MCIndices == 0 .. 1
MCClientPath == [c \in MCTwoClients |-> <<"/dev/", "a">>]
MCPaneCount == [w \in MCThreeWindows |-> 2]

MCQueries ==
  { <<"a">>, <<"a", "b">>, <<"b">>, <<"*">>, <<"a", "*">>, <<"?">>,
    <<"1">>, <<"0">>, <<"2">>, <<"a", ":">>, <<":", "1">>, <<":", "2">>,
    <<":", "b">>, <<"a", ":", "a">>, <<"a", "b", ":", "0">>, <<"a", "b", ":">>,
    <<".", "1">>, <<"a", ".", "0">>, <<"1", ".">>, <<":", ".", "1">>,
    <<"/dev/", "a">> }
Symmetry == Permutations(MCSessIds) \cup Permutations(MCWindowIds)
====
