--------------------------- MODULE VisitorAnswer ---------------------------
(***************************************************************************)
(* What a visitor may observe of a request to an HTTP tunnel: at most one  *)
(* answer; an error answer is final and carries nothing of the tunnel; a   *)
(* successful answer is a head, then the chunks the client sent, in order, *)
(* with none left out, then an end, and the end not before the last of the *)
(* chunks.  Module HttpStreams implements it.                              *)
(***************************************************************************)
EXTENDS Naturals

CONSTANTS Visitors, MaxChunks

VARIABLES phase,     \* what each visitor has observed so far
          produced,  \* chunks the client has sent of each answer
          delivered  \* number of the last chunk each visitor was given

Init ==
  /\ phase = [v \in Visitors |-> "silent"]
  /\ produced = [v \in Visitors |-> 0]
  /\ delivered = [v \in Visitors |-> 0]

Moves(v, from, to) ==
  /\ phase[v] = from
  /\ phase' = [phase EXCEPT ![v] = to]
  /\ UNCHANGED <<produced, delivered>>

Refuse(v)  == Moves(v, "silent", "refused")  \* 404, 413, 429: never forwarded
Forward(v) == Moves(v, "silent", "waiting")
Fail(v)    == Moves(v, "waiting", "failed")  \* 502, 504
Answer(v)  == Moves(v, "waiting", "body")
Finish(v)  == delivered[v] = produced[v] /\ Moves(v, "body", "finished")
Leave(v)   == \E from \in {"silent", "waiting", "body"} : Moves(v, from, "left")

\* The tunnel goes on with its answer, whether or not the visitor still listens,
\* but not behind the end the visitor has seen.
Produce(v) ==
  /\ phase[v] # "finished" /\ produced[v] < MaxChunks
  /\ produced' = [produced EXCEPT ![v] = @ + 1]
  /\ UNCHANGED <<phase, delivered>>

Deliver(v) ==
  /\ phase[v] = "body" /\ delivered[v] < produced[v]
  /\ delivered' = [delivered EXCEPT ![v] = @ + 1]
  /\ UNCHANGED <<phase, produced>>

Next == \E v \in Visitors :
  \/ Refuse(v) \/ Forward(v) \/ Fail(v) \/ Answer(v)
  \/ Produce(v) \/ Deliver(v) \/ Finish(v) \/ Leave(v)

Spec == Init /\ [][Next]_<<phase, produced, delivered>>
=============================================================================
