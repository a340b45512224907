--------------------------------- MODULE Edge ---------------------------------
(***************************************************************************)
(* Mesh with Traefik, which is external to the repository: its file        *)
(* provider reads the files of traefik/dynamic in the order of their       *)
(* names, auto.yml with the routes first and then cert.yml, with the       *)
(* certificate and the key it names; when one of them changes and when it  *)
(* starts.  A pair that does not match is no certificate: "without a       *)
(* default cert, Traefik would fall back to its self-signed" one           *)
(* (cert.yml:2-3).                                                         *)
(***************************************************************************)
EXTENDS Mesh

CONSTANT Fallback   \* Traefik's own certificate, for none of the hostnames

ASSUME EdgeAssumption == Fallback # NoCert /\ \A p \in SUBSET Projects : Fallback # p

VARIABLES
    routes,   \* the containers Traefik routes
    cover,    \* the projects of the certificate Traefik presents
    reading   \* Traefik has read auto.yml and not yet the certificate

traefik == <<routes, cover, reading>>
edgeVars == <<meshVars, traefik>>

EdgeInit ==
    /\ MeshInit
    /\ routes = {}
    /\ cover = NoCert
    /\ reading = FALSE

ReadRoutes ==
    /\ ~reading
    /\ routes' = auto
    /\ reading' = TRUE
    /\ UNCHANGED <<meshVars, cover>>

(* The pair is read as it is, or torn: certgen may rename a key after the   *)
(* certificate was read and before the key is.                              *)
ReadCert ==
    /\ reading
    /\ cover' = Fallback \/ (~split /\ cover' = served)
    /\ reading' = FALSE
    /\ UNCHANGED <<meshVars, routes>>

EdgeNext ==
    \/ MeshNext /\ UNCHANGED traefik
    \/ ReadRoutes
    \/ ReadCert

EdgeSpec == EdgeInit /\ [][EdgeNext]_edgeVars

-----------------------------------------------------------------------------
(* "Traefik never sees a hostname the cert doesn't cover"                   *)
(* (docs/architecture.md:36): of what Traefik has read, the certificate     *)
(* that certgen issued covers every route.  "key -> cert -> auto.yml in     *)
(* order" ensures it as long as no container goes and none fails its        *)
(* inspection, whatever else fails: the order of the writes and the order   *)
(* of the reads are opposite.  It is not said of a pair that Traefik cannot *)
(* load, because a commit was between its two renames or its second rename  *)
(* failed: then Traefik has no certificate of certgen's at all.             *)
TraefikCovered ==
    (~reading /\ routes # {} /\ cover # Fallback) =>
        cover # NoCert /\ {ProjectOf[c] : c \in routes} \ {Standalone} \subseteq cover
=============================================================================
