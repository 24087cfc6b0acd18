----------------------------- MODULE MCFillWal -----------------------------
(***************************************************************************)
(* Instances of FillWal for TLC.                                           *)
(***************************************************************************)
EXTENDS FillWalRefinement, TLC

CONSTANTS buyX, sellX, sellY, pyrY, x, y

(* buyX opens position x, sellX closes it, sellY closes the initial        *)
(* position y, pyrY completes it when it is partial.                       *)
MCTickerOf == [o \in Order |-> IF o \in {sellY, pyrY} THEN y ELSE x]
MCActionOf == [o \in Order |-> CASE o = buyX -> "BUY"
                                [] o = pyrY -> "PYRAMID_FILL"
                                [] OTHER -> "SELL"]
MCSessionOf == [o \in Order |-> 1]
=============================================================================
