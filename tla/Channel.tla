------------------------------ MODULE Channel ------------------------------
(***************************************************************************)
(* What a direction of postMessage promises, whatever carries it: messages *)
(* are handed over in the order they were posted, each at most once; the   *)
(* oldest may be lost, and then they never arrive late.  Messages are      *)
(* numbered as they are posted, so those under way are a set: the oldest   *)
(* is the least.                                                           *)
(***************************************************************************)
EXTENDS Naturals, Sequences

VARIABLES
  sent,      \* number of messages posted
  pipe,      \* messages under way
  delivered  \* messages handed over

channelVars == <<sent, pipe, delivered>>

ChannelInit == sent = 0 /\ pipe = {} /\ delivered = <<>>

Send ==
  /\ sent' = sent + 1
  /\ pipe' = pipe \cup {sent + 1}
  /\ UNCHANGED delivered

Deliver ==
  /\ \E m \in pipe :
       /\ \A n \in pipe : m <= n
       /\ delivered' = Append(delivered, m)
       /\ pipe' = pipe \ {m}
  /\ UNCHANGED sent

Lose ==
  /\ \E m \in pipe : pipe' = {n \in pipe : n > m}
  /\ UNCHANGED <<sent, delivered>>

ChannelNext == Send \/ Deliver \/ Lose

ChannelSpec == ChannelInit /\ [][ChannelNext]_channelVars
=============================================================================
