--------------------------- MODULE TunnelContract ---------------------------
(***************************************************************************)
(* What bringing one interface up and down promises to its caller,         *)
(* whatever files, processes and timeouts it takes:                        *)
(*                                                                         *)
(*  - the network changes of two helpers are never in place together;      *)
(*  - "up" succeeds only when the helper it launched has made its changes; *)
(*  - "down" succeeds only when no running helper has changes in place,    *)
(*    and never when a helper gave changes up unreverted during the call.  *)
(*                                                                         *)
(* The contract is void once a caller dies while a helper it launched is   *)
(* still starting: nothing on disk names that helper yet.                  *)
(***************************************************************************)
CONSTANTS Pids

VARIABLES
  tunnel,   \* running helpers whose network changes are in place
  call,     \* the operation in progress
  made,     \* helpers that made their changes since the "up" in progress began
  answer    \* the outcome of the last operation

vars == <<tunnel, call, made, answer>>

Calls == {"idle", "up", "down", "downlost", "void"}

Init == tunnel = {} /\ call = "idle" /\ made = {} /\ answer = "none"

Call(c) ==
  /\ call = "idle"
  /\ call' = c
  /\ answer' = "none"
  /\ UNCHANGED <<tunnel, made>>

\* A launched helper changes the network; no other helper's changes are there.
Establish(p) ==
  /\ call = "up"
  /\ tunnel = {}
  /\ tunnel' = {p}
  /\ made' = {p}
  /\ UNCHANGED <<call, answer>>

\* A helper reverts its changes, asked to or on its own.
Revert(p) ==
  /\ p \in tunnel
  /\ tunnel' = tunnel \ {p}
  /\ UNCHANGED <<call, made, answer>>

\* A helper ends with its changes unreverted: it crashed, or its cleanup failed.
Abandon(p) ==
  /\ p \in tunnel
  /\ tunnel' = tunnel \ {p}
  /\ call' = IF call = "down" THEN "downlost" ELSE call
  /\ UNCHANGED <<made, answer>>

Succeed ==
  /\ \/ call = "up" /\ made # {}
     \/ call = "down" /\ tunnel = {}
  /\ call' = "idle"
  /\ made' = {}
  /\ answer' = "ok"
  /\ UNCHANGED tunnel

\* The operation fails, or the service that runs it is killed.
Fail ==
  /\ call \in {"up", "down", "downlost"}
  /\ call' = "idle"
  /\ made' = {}
  /\ answer' \in {"error", "none"}
  /\ UNCHANGED tunnel

\* The service dies while the helper it launched has not reported yet.
Void ==
  /\ call = "up"
  /\ call' = "void"
  /\ tunnel' = {}
  /\ made' = {}
  /\ answer' = "none"

Next ==
  \/ \E c \in {"up", "down"} : Call(c)
  \/ \E p \in Pids : Establish(p) \/ Revert(p) \/ Abandon(p)
  \/ Succeed \/ Fail \/ Void

Spec == Init /\ [][Next]_vars
=============================================================================
