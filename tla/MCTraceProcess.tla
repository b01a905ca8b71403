--------------------------- MODULE MCTraceProcess ---------------------------
(***************************************************************************)
(* One router and the target, for whole runs of the program: a batch over  *)
(* both hops and one on another flow.                                      *)
(***************************************************************************)
EXTENDS TraceProcess

CONSTANTS A, D               \* a router and the target

MCAddresses == {A, D}

MCNetwork == <<{[how |-> "expired", who |-> A]},
               {[how |-> "port", who |-> D], [how |-> "direct", who |-> D],
                [how |-> "filtered", who |-> D]}>>

MCRewritings == {{}, {"ipid"}}
MCQuotations == {"minimum", "full"}

Hop(t, proto, port) == [ttl |-> t, flow |-> [proto |-> proto, port |-> port]]

MCBatches ==
  UNION {{<<Hop(1, p, "main"), Hop(2, p, "main")>>, <<Hop(2, p, "other")>>} : p \in Protocols}

MCSession == <<1, 3>>
MCStrangers == {Probe(<<2, 3>>, 0, 2, Hop(2, p, "main")) : p \in Protocols}
=============================================================================
