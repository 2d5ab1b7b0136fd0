----------------------------- MODULE CoinBook -----------------------------
(***************************************************************************)
(* What both generators promise of the outputs they spend: an output can   *)
(* be spent from the moment it is created, leaves the book once, and never *)
(* comes back.                                                             *)
(***************************************************************************)
CONSTANT Keys    \* the names of outputs

VARIABLES
  unspent,  \* the outputs that can be spent
  gone      \* those that were spent, or given up

Init == unspent \subseteq Keys /\ gone = {}

(* Some outputs appear and some are gone; nothing else is forgotten. *)
Move ==
  /\ unspent' \subseteq Keys /\ gone' \subseteq Keys
  /\ gone \subseteq gone'
  /\ unspent \subseteq unspent' \cup gone'
  /\ unspent' \cap gone' = {}

Spec == Init /\ [][Move]_<<unspent, gone>>
============================================================================
