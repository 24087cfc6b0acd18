------------------------------ MODULE SendSlot ------------------------------
(***************************************************************************)
(* What the report outbox promises of sending: one claim at a time holds   *)
(* the slot, it ends confirmed or given up and never both, a message is    *)
(* sent only under a claim that is held or given up, and a confirmed       *)
(* report is never claimed again.                                          *)
(***************************************************************************)
VARIABLES held,       \* the claim that holds the slot, if any
          givenUp,    \* claims nobody knows the outcome of
          confirmed,  \* the claim whose message was delivered, if any
          sent        \* claims whose message has reached Telegram

Init == held = {} /\ givenUp = {} /\ confirmed = {} /\ sent = {}

Take ==
    /\ held = {} /\ confirmed = {}
    /\ \E c \in held' \ (givenUp \union sent) : held' = {c}
    /\ UNCHANGED <<givenUp, confirmed, sent>>

GiveUp ==
    /\ \E c \in held : held' = held \ {c} /\ givenUp' = givenUp \union {c}
    /\ UNCHANGED <<confirmed, sent>>

Confirm ==
    /\ \E c \in held : held' = held \ {c} /\ confirmed' = {c}
    /\ UNCHANGED <<givenUp, sent>>

Deliver ==
    /\ \E c \in held \union givenUp : sent' = sent \union {c}
    /\ UNCHANGED <<held, givenUp, confirmed>>

Next == Take \/ GiveUp \/ Confirm \/ Deliver

Spec == Init /\ [][Next]_<<held, givenUp, confirmed, sent>>
=============================================================================
