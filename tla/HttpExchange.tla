---------------------------- MODULE HttpExchange ----------------------------
(***************************************************************************)
(* What one HTTP connection of the file server promises its client: the   *)
(* responses reach the client's socket in the order of the requests, each  *)
(* whole, nothing else is written, and after a request asking to close the *)
(* connection the server closes its write half once that response is out. *)
(* Every request that was sent is eventually answered.                     *)
(*                                                                         *)
(* The client may send a request before the previous response is whole   *)
(* (pipelining); it sends nothing after asking the server to close.  It   *)
(* may hang up, after which the server may drop the connection with       *)
(* responses unsent.                                                       *)
(***************************************************************************)
EXTENDS Integers, Sequences, SequencesExt

CONSTANTS
  Reqs,       \* the requests the client will send, in order
  Response(_) \* Response(i): the sequence of tokens answering request i

VARIABLES
  asked,      \* number of requests the client has sent
  wire,       \* the tokens the client has received
  closed,     \* the server has closed the connection
  hungUp      \* the client has closed its side

vars == <<asked, wire, closed, hungUp>>

(* The tokens answering requests 1..n, in order.                          *)
Expected(n) == FlattenSeq([i \in 1..n |-> Response(i)])

(* The last request sent asked the server to close the connection.        *)
CloseAsked == asked > 0 /\ Reqs[asked].close

Init ==
  /\ asked = 0
  /\ wire = <<>>
  /\ closed = FALSE
  /\ hungUp = FALSE

(* The client sends its next request unless it asked to close.            *)
Ask ==
  /\ asked < Len(Reqs)
  /\ ~CloseAsked /\ ~hungUp
  /\ asked' = asked + 1
  /\ UNCHANGED <<wire, closed, hungUp>>

(* The client closes its side of the connection.                          *)
Hangup ==
  /\ ~hungUp
  /\ hungUp' = TRUE
  /\ UNCHANGED <<asked, wire, closed>>

(* More of the pending responses reaches the client; once every response  *)
(* is out, the server may close if it was asked to.                        *)
Deliver ==
  /\ ~closed
  /\ \E n \in Len(wire)..Len(Expected(asked)) :
       wire' = SubSeq(Expected(asked), 1, n)
  /\ closed' \in IF wire' = Expected(asked) /\ CloseAsked THEN {closed, TRUE} ELSE {closed}
  /\ UNCHANGED <<asked, hungUp>>

(* After the client hung up the server may drop the connection.          *)
Abort ==
  /\ hungUp /\ ~closed
  /\ closed' = TRUE
  /\ UNCHANGED <<asked, wire, hungUp>>

Next == Ask \/ Hangup \/ Deliver \/ Abort

(* Responses keep coming, and a hung-up connection is eventually dropped *)
(* unless it was closed anyway.                                            *)
Spec == Init /\ [][Next]_vars /\ WF_vars(Deliver) /\ WF_vars(Abort)
=============================================================================
