----------------------------- MODULE MCPipeline -----------------------------
(***************************************************************************)
(* Programs with what the properties are about: an identity sent again with *)
(* another type, a batch with an invalid event, an empty and a too long     *)
(* batch, an event that Postgres cannot store before one that it can.       *)
(***************************************************************************)
EXTENDS Pipeline

E(id, type) == [id |-> id, type |-> type, valid |-> TRUE, storable |-> TRUE]
Invalid == [E("x", "view") EXCEPT !.valid = FALSE]
Unstorable == [E("p", "view") EXCEPT !.storable = FALSE]

MCEvents ==
    {E("a", "view"), E("b", "view"), E("a", "sale"), Invalid, Unstorable}

MCPrograms ==
    { << <<E("a", "view"), E("b", "view")>>, <<E("a", "sale")>> >>,
      << <<E("a", "view"), Invalid>>, <<E("b", "view")>> >>,
      << <<>>, <<E("a", "view"), E("b", "view"), E("a", "sale")>>, <<E("b", "view")>> >>,
      << <<Unstorable>>, <<E("b", "view")>> >> }
=============================================================================
