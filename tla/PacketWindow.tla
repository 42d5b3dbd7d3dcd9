----------------------------- MODULE PacketWindow -----------------------------
(***************************************************************************)
(* What a packet buffer promises: it holds the last packets pushed, oldest *)
(* first, at most Capacity of them, and gives up the oldest one first.     *)
(***************************************************************************)
EXTENDS Naturals, Sequences

CONSTANTS Capacity, Packets

VARIABLE window

WindowInit == window = << >>

WindowPush(p) ==
  window' = Append(IF Len(window) = Capacity THEN Tail(window) ELSE window, p)

WindowPop == window # << >> /\ window' = Tail(window)

WindowClear == window' = << >>

WindowNext == WindowPop \/ WindowClear \/ \E p \in Packets : WindowPush(p)

WindowSpec == WindowInit /\ [][WindowNext]_window
=============================================================================
