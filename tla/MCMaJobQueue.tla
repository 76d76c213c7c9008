---------------------------- MODULE MCMaJobQueue ----------------------------
(* Two job threads and two clients on a queue of three slots, one of which *)
(* is the dummy; the last bit of its second group stands for no slot.      *)
EXTENDS MaJobQueue

CONSTANTS j1, j2, j3

MCFollow == [j \in Job |-> CASE j = j1 -> j3 [] OTHER -> NoJob]
MCScripts ==
  {[c \in Client |-> IF c = Main THEN <<j1, j2, j2, QUIT>> ELSE <<>>],
   [c \in Client |-> IF c = Main THEN <<j1, QUIT>> ELSE <<j2>>]}

\* The queue may be full when QUIT is posted
MCFull == {[c \in Client |-> <<j1, j2, j3, QUIT>>]}
===========================================================================
