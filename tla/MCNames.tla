-------------------------------- MODULE MCNames --------------------------------
(***************************************************************************)
(* Names for TLC: two suffixes, one of two labels, and a tailnet; a service *)
(* of a project of two labels exposed on two ports, one spelled with a      *)
(* capital, a standalone container, one with a character Render refuses,    *)
(* and a labeled one that names its own network.                            *)
(***************************************************************************)
EXTENDS Names

MCClean == {"web", "api", "db", "tool", "shop", "demo", "x-", "docker", "localhost", "orb",
            "mbp", "ts", "w", "v", "t"}
MCLabels == MCClean \cup {"Api", "api_v2", "Tool"}
MCLower == [l \in MCLabels |-> CASE l = "Tool" -> "tool" [] l = "Api" -> "api" [] OTHER -> l]

MCSuffixes == {<<"docker", "localhost">>, <<"orb">>}
MCMachine == <<"mbp">>
MCTailnet == <<"ts">>

CONSTANTS Mesh, Own

MCContainer(project, service, name, labeled, exposed, places) ==
    [project |-> project, service |-> service, name |-> name, labeled |-> labeled,
     override |-> IF labeled THEN Own ELSE Off, portLabel |-> 0, exposed |-> exposed,
     places |-> places]

MCContainers ==
    {MCContainer(<<"shop", "demo">>, <<"Api">>, <<"w">>, FALSE,
                 {<<80, "tcp">>, <<443, "tcp">>}, {{Mesh}, {Own}}),
     MCContainer(<<>>, <<>>, <<"db">>, FALSE, {<<5432, "tcp">>}, {{Mesh}}),
     MCContainer(<<>>, <<>>, <<"api_v2">>, FALSE, {<<8080, "tcp">>}, {{Mesh}}),
     MCContainer(<<"x-">>, <<"web">>, <<"v">>, FALSE,
                 {<<53, "tcp">>, <<53, "udp">>}, {{Mesh}}),
     MCContainer(<<"shop">>, <<"Tool">>, <<"t">>, TRUE, {<<80, "tcp">>}, SUBSET {Mesh, Own})}
=============================================================================
