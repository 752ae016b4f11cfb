---------------------------- MODULE ReplyPromise ----------------------------
(***************************************************************************)
(* What services::send_with_reply promises its caller: the callback runs   *)
(* exactly once, with the platform's answer or with nothing, and with      *)
(* nothing at the latest when the application is torn down.                *)
(***************************************************************************)
CONSTANT Calls

VARIABLES
  promise,   \* each call: not made, open, kept (called back)
  closing    \* the application is being torn down, or is gone

vars == <<promise, closing>>

Init ==
  /\ promise = [c \in Calls |-> "new"]
  /\ closing = FALSE

Make(c) ==
  /\ promise[c] = "new"
  /\ promise' = [promise EXCEPT ![c] = IF closing THEN "kept" ELSE "open"]
  /\ UNCHANGED closing

Keep(c) ==
  /\ promise[c] = "open"
  /\ promise' = [promise EXCEPT ![c] = "kept"]
  /\ UNCHANGED closing

Close == ~closing /\ closing' = TRUE /\ UNCHANGED promise

\* Another application comes up on this thread, with no promise left open.
Reopen ==
  /\ closing
  /\ \A c \in Calls : promise[c] # "open"
  /\ closing' = FALSE
  /\ UNCHANGED promise

Next == (\E c \in Calls : Make(c) \/ Keep(c)) \/ Close \/ Reopen

Spec == Init /\ [][Next]_vars

\* At teardown every open promise is kept.
Settles == \A c \in Calls : WF_vars(closing /\ Keep(c))

FairSpec == Spec /\ Settles
=============================================================================
