----------------------------- MODULE MCSrRouter -----------------------------
(***************************************************************************)
(* An instance of SrRouter: two interfaces, one next hop behind each, and  *)
(* packets for the router, for one of the hops and for nobody.             *)
(***************************************************************************)
EXTENDS SrRouter

MCRouteOf == [d \in {"net1", "net2"} |->
                IF d = "net1" THEN [hop |-> "h1", iface |-> "e1"]
                ELSE [hop |-> "h2", iface |-> "e2"]]

To(dst, ttl, proto) == [in |-> "e2", src |-> "m2", dst |-> dst, ttl |-> ttl, proto |-> proto]

\* ICMP for the router, another protocol for it, no route, and two packets for the
\* same next hop.
MCHeader == <<To("own", 64, "icmp"), To("own", 64, "other"), To("unknown", 64, "other"),
              To("net1", 2, "other"), To("net1", 64, "other")>>
=============================================================================
