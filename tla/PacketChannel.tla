--------------------------- MODULE PacketChannel ----------------------------
(***************************************************************************)
(* What the receive loops promise, without bytes: packets come out in the  *)
(* order in which they went in, none is lost, doubled or made up on the    *)
(* way; each is what its fields are reduced to in transit (Image).  The    *)
(* channel may break, and delivers nothing from then on.                   *)
(***************************************************************************)
EXTENDS Naturals, Sequences

CONSTANTS Items, Image(_)

VARIABLES sent, delivered, broken

channelVars == <<sent, delivered, broken>>

ChannelInit == sent = <<>> /\ delivered = <<>> /\ broken = FALSE

Put ==
    /\ \E p \in Items : sent' = Append(sent, p)
    /\ UNCHANGED <<delivered, broken>>

Deliver ==
    /\ Len(delivered) < Len(sent) /\ ~broken
    /\ delivered' = Append(delivered, Image(sent[Len(delivered) + 1]))
    /\ broken' \in BOOLEAN
    /\ UNCHANGED sent

Break == ~broken /\ broken' = TRUE /\ UNCHANGED <<sent, delivered>>

ChannelSpec == ChannelInit /\ [][Put \/ Deliver \/ Break]_channelVars
=============================================================================
