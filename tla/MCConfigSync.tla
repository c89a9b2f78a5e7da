------------------------------ MODULE MCConfigSync ------------------------------
(* Small instances of ConfigSync: an xray and an AWG inbound and one edge hop.  *)
(* The panel is at first without a chain; it turns an inbound and the override  *)
(* off, takes the inbound away, and gets a chain.                               *)
EXTENDS ConfigSync

CONSTANTS x1, a1   \* the inbounds

Both(x, a, hops, override, peers) ==
    [inb |-> [i \in Inbounds |-> IF i = x1 THEN x ELSE a], hops |-> hops,
     override |-> override, peers |-> {a1} \X peers]

MCBroken       == {<<x1, "direct">>}
MCVocabularies == {{"direct", "hops"}, {"edge"}}
MCStart        == Both("on", "on", {}, TRUE, {"direct", "proxy"})
MCContents     == {MCStart,
                   Both("off", "on", {}, FALSE, {"direct"}),
                   Both("gone", "on", {}, TRUE, {"direct"}),
                   Both("on", "off", {"edge"}, TRUE, {"direct", "edge"})}
===============================================================================
