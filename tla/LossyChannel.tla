---------------------------- MODULE LossyChannel ----------------------------
(***************************************************************************)
(* What the link layer promises two hosts: a first-in first-out channel    *)
(* that may lose messages, but neither repeats nor reorders nor invents    *)
(* any.                                                                    *)
(***************************************************************************)
EXTENDS Naturals, Sequences, SequencesExt

CONSTANT Messages

VARIABLES channel,  \* the messages on their way
          received  \* the messages handed over

Init == channel = <<>> /\ received = <<>>

Send(m) == channel' = Append(channel, m) /\ UNCHANGED received

Deliver ==
  /\ channel # <<>>
  /\ received' = Append(received, Head(channel))
  /\ channel' = Tail(channel)

Lose(i) == channel' = RemoveAt(channel, i) /\ UNCHANGED received

Next == (\E m \in Messages : Send(m)) \/ Deliver \/ (\E i \in DOMAIN channel : Lose(i))

vars == <<channel, received>>

Spec == Init /\ [][Next]_vars
=============================================================================
