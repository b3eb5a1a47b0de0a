------------------------------ MODULE MCPorts ------------------------------
(***************************************************************************)
(* Two connections for Ports: a queueing one, whose IN port is smaller     *)
(* than its OUT port, and a sampling one, with a thread at each end.       *)
(***************************************************************************)
EXTENDS Ports, TLC

MCPort == {"out", "in", "from", "to"}
MCDirection == "out" :> "OUT" @@ "in" :> "IN" @@ "from" :> "OUT" @@ "to" :> "IN"
MCKind == "out" :> "QUEUEING" @@ "in" :> "QUEUEING" @@ "from" :> "SAMPLING" @@ "to" :> "SAMPLING"
MCSize == "out" :> 3 @@ "in" :> 2 @@ "from" :> 1 @@ "to" :> 1
MCDestinations == "out" :> <<"in">> @@ "in" :> <<>> @@ "from" :> <<"to">> @@ "to" :> <<>>
MCFlushOrders == {<<"out", "in", "from", "to">>, <<"out">>}
MCRefresh == [p \in MCPort |-> 1]
MCThread == MCPort
MCPortOf == [t \in MCThread |-> t]

\* A behaviour that uses both connections sends little.
MCNext ==
  /\ Next
  /\ \/ \A p \in Port : ready'[p] => Kind[p] = "QUEUEING"
     \/ \A p \in Port : ready'[p] => Kind[p] = "SAMPLING"
     \/ sent'["out"] + sent'["from"] <= 2

MCSpec == Init /\ [][MCNext]_vars
=============================================================================
