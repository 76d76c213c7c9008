----------------------------- MODULE RowOutput -----------------------------
(***************************************************************************)
(* What decoding a frame promises: rows go out one after the other, from   *)
(* the first, each of them once; it is a success only when all went out    *)
(* and none was refused, and nothing goes out after a refusal or the end.  *)
(***************************************************************************)
EXTENDS Naturals

VARIABLES
  rows,            \* rows to put out
  sent,            \* how many went out
  refused,         \* a row could not be put out, or its receiver asked to stop
  result           \* "running", "ok" or "failed"

Init == rows \in Nat /\ sent = 0 /\ refused = FALSE /\ result = "running"

Put ==
  /\ result = "running" /\ sent < rows /\ ~refused
  /\ \/ sent' = sent + 1 /\ refused' \in BOOLEAN
     \/ refused' = TRUE /\ UNCHANGED sent
  /\ UNCHANGED <<rows, result>>

End ==
  /\ result = "running"
  /\ result' \in IF sent = rows /\ ~refused THEN {"ok", "failed"} ELSE {"failed"}
  /\ UNCHANGED <<rows, sent, refused>>

Next == Put \/ End
Spec == Init /\ [][Next]_<<rows, sent, refused, result>>
===========================================================================
