------------------------- MODULE ObservationMachine -------------------------
(***************************************************************************)
(* What the V2B ledger promises of its observations: each is created once, *)
(* goes through the states of the collector one transition at a time, and  *)
(* is refused only while nobody has begun to collect it, over a content    *)
(* other than its own.                                                     *)
(***************************************************************************)
CONSTANTS Key, Content, None

VARIABLES state,    \* of each observation
          contents  \* those it was created with and refused over

Init ==
    /\ state = [k \in Key |-> None]
    /\ contents = [k \in Key |-> {}]

Enter(k, s) == state' = [state EXCEPT ![k] = s]
Record(k, c) == contents' = [contents EXCEPT ![k] = @ \union {c}]

Create(k) ==
    /\ state[k] = None /\ Enter(k, "CREATED")
    /\ \E c \in Content : Record(k, c)

Refuse(k) ==
    /\ state[k] = "CREATED" /\ Enter(k, "CONFLICT")
    /\ \E c \in Content \ contents[k] : Record(k, c)

Collect(k) ==
    /\ state[k] = "CREATED" /\ Enter(k, "COLLECTING")
    /\ UNCHANGED contents

End(k) ==
    /\ state[k] = "COLLECTING"
    /\ \E s \in {"COMPLETED", "FAILED_VALIDATION"} : Enter(k, s)
    /\ UNCHANGED contents

Next == \E k \in Key : Create(k) \/ Refuse(k) \/ Collect(k) \/ End(k)

Spec == Init /\ [][Next]_<<state, contents>>
=============================================================================
