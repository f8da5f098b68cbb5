--------------------------- MODULE PacketChannel ---------------------------
(***************************************************************************)
(* What the packet layer promises the two ends: a first-in first-out       *)
(* channel of whole payloads that loses, repeats and invents nothing.      *)
(***************************************************************************)
EXTENDS Naturals, Sequences

CONSTANT Payloads

VARIABLES sent, published

channelVars == <<sent, published>>

Init == sent = << >> /\ published = << >>

Send(p) == sent' = Append(sent, p) /\ UNCHANGED published

Deliver ==
  /\ Len(published) < Len(sent)
  /\ published' = Append(published, sent[Len(published) + 1])
  /\ UNCHANGED sent

Next == (\E p \in Payloads : Send(p)) \/ Deliver

Spec == Init /\ [][Next]_channelVars /\ WF_channelVars(Deliver)
=============================================================================
