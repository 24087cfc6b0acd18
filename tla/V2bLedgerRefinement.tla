------------------------ MODULE V2bLedgerRefinement -------------------------
(***************************************************************************)
(* V2bLedger implements ObservationMachine: the state of an observation is *)
(* the status a reader derives from its events, and it changes when the    *)
(* line of an event is in the file.                                        *)
(***************************************************************************)
EXTENDS V2bLedgerInvariant

ContentsOf(k) == {e.content : e \in {d \in EventsOf(k) : d.content # None}}

Machine == INSTANCE ObservationMachine
           WITH state <- [k \in Key |-> Status(EventsOf(k))],
                contents <- [k \in Key |-> ContentsOf(k)]

(* Collectors that overlap, stop and finish each other's work act on every *)
(* observation as one state machine, whose transitions are atomic          *)
(* (transition_observation, create_observation).                           *)
ImplementsMachine == Machine!Spec
=============================================================================
