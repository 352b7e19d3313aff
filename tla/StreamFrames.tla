---------------------------- MODULE StreamFrames ----------------------------
(***************************************************************************)
(* What a client puts on the control channel for one HTTP stream: one      *)
(* head, then chunks, then one End; or one Abort and nothing else.  This   *)
(* is what module HttpStreams assumes of a client.  Module LocalPool       *)
(* implements it.                                                          *)
(***************************************************************************)
EXTENDS Naturals

CONSTANT Reqs

VARIABLES phase,  \* silent, head, ended or aborted
          chunks  \* number of chunks sent

Init ==
  /\ phase = [r \in Reqs |-> "silent"]
  /\ chunks = [r \in Reqs |-> 0]

Moves(r, from, to) ==
  /\ phase[r] = from
  /\ phase' = [phase EXCEPT ![r] = to]
  /\ UNCHANGED chunks

Answer(r) == Moves(r, "silent", "head")
End(r)    == Moves(r, "head", "ended")
Abort(r)  == Moves(r, "silent", "aborted")

Chunk(r) ==
  /\ phase[r] = "head"
  /\ chunks' = [chunks EXCEPT ![r] = @ + 1]
  /\ UNCHANGED phase

Next == \E r \in Reqs : Answer(r) \/ Chunk(r) \/ End(r) \/ Abort(r)

Spec == Init /\ [][Next]_<<phase, chunks>>
=============================================================================
