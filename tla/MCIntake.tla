------------------------------ MODULE MCIntake ------------------------------
(* Small spools for TLC: one poison record, or two, beside records that    *)
(* decode to nothing, that are not valid, and that are ordinary events.    *)
EXTENDS Intake

MCKinds == {<<"event", "poison", "ignored", "event">>,
            <<"poison", "event", "invalid", "event">>,
            <<"event", "ignored", "event", "event">>,
            <<"invalid", "event", "poison", "poison">>}
MCAll == [Seqs -> Kinds]
MCShort == {<<"event", "event", "event">>, <<"event", "invalid", "event">>}

(* A fault that finds an empty spool leaves a state reached without it,    *)
(* but for the count of faults: it is left out where every spool of the    *)
(* length is tried.                                                        *)
WrittenFirst == Next /\ (head = 0 => faults' = faults)
IntakeFairSpec == Init /\ [][WrittenFirst]_vars /\ Fairness
=============================================================================
