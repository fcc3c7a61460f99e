-------------------------------- MODULE Ledger --------------------------------
(***************************************************************************)
(* What a ledger of reservations accepts (quota/ledger.go): a reservation  *)
(* enters it reserved, and moves on by the transitions it allows.  Putting *)
(* a reservation that is refused changes nothing.                          *)
(***************************************************************************)
CONSTANTS Holder, Bytes

VARIABLE reservations

Unkept == [bytes |-> 0, state |-> "none"]

Init == reservations = [h \in Holder |-> Unkept]

CanTransition(from, to) ==
  <<from, to>> \in {<<"reserved", "committed">>, <<"reserved", "released">>,
                    <<"committed", "released">>}

Put(h, r) ==
  /\ IF reservations[h] = Unkept THEN r.state = "reserved"
     ELSE CanTransition(reservations[h].state, r.state)
  /\ reservations' = [reservations EXCEPT ![h] = r]

Next ==
  \E h \in Holder, n \in Bytes, state \in {"reserved", "committed", "released"} :
    Put(h, [bytes |-> n, state |-> state])

Spec == Init /\ [][Next]_reservations
=============================================================================
