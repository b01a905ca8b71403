---------------------------- MODULE MCRawBackend ----------------------------
(***************************************************************************)
(* A two-hop path for the raw backend, probed under ids that wrap after    *)
(* three: the last batch meets replies to the first.                       *)
(***************************************************************************)
EXTENDS RawBackend

CONSTANTS A, B, D            \* two routers and the target

MCAddresses == {A, B, D}

(* The first hop expires probes; behind it a filter that also faults       *)
(* headers, and the target.                                                *)
MCNetwork == <<{[how |-> "expired", who |-> A]},
               {[how |-> "port", who |-> D], [how |-> "direct", who |-> D],
                [how |-> "rst", who |-> D],
                [how |-> "filtered", who |-> B], [how |-> "problem", who |-> B]}>>

(* Headers untouched, translated, or renumbered.                           *)
MCRewritings == {{}, {"dst", "dport"}, {"ipid"}, {"seq", "port"}}
MCQuotations == {"bare", "minimum", "full"}

Hop(t, proto, port) == [ttl |-> t, flow |-> [proto |-> proto, port |-> port]]

(* A sweep over both hops, one hop on another flow, one hop on two flows.  *)
MCBatches ==
  UNION {{<<Hop(1, p, "main"), Hop(2, p, "main")>>, <<Hop(2, p, "other")>>,
          <<Hop(1, p, "main"), Hop(1, p, "other")>>} : p \in Protocols}

(* The session ends in the largest 16-bit value, so that acknowledgements  *)
(* wrap.  One stranger shares its lower half, one does not.                *)
MCSession == <<1, 3>>
MCStrangers ==
  {Probe(s, 0, 2, Hop(1, p, "main")) : s \in {<<2, 3>>, <<1, 2>>}, p \in Protocols}
=============================================================================
