------------------------------- MODULE MCRouters -------------------------------
(***************************************************************************)
(* Routers for TLC: the service web of a project demo in two replicas, a    *)
(* standalone container named web-demo, the service web of a project        *)
(* demo-http, one of another project, and one that Render refuses.          *)
(***************************************************************************)
EXTENDS Routers

MCContainer(words, dots, id) == [words |-> words, dots |-> dots, id |-> id]

(* 1 demo, 2 http, 3 shop, 4 web, 5 db *)
Service == MCContainer(<<4, 1>>, {1}, 1)
Replica == MCContainer(<<4, 1>>, {1}, 2)
Standalone == MCContainer(<<4, 1>>, {}, 1)
OfTwin == MCContainer(<<4, 1, 2>>, {1}, 1)
Other == MCContainer(<<4, 3>>, {1}, 1)
Refused == MCContainer(<<5>>, {}, 1)

MCContainers == {Service, Replica, Standalone, OfTwin, Other, Refused}
MCUnsafe == {Refused}
=============================================================================
