------------------------------- MODULE Login --------------------------------
(***************************************************************************)
(* OpenStack consoles: HandleWsgateRequest with a token (wsgateEHS.cpp)    *)
(* and get_console_info (nova_token_auth.cpp).  Keystone answers with a    *)
(* token and a catalog of services, Nova's endpoint in it is asked for the *)
(* console; every failure is an exception and makes the answer 400.        *)
(*                                                                         *)
(* Keystone and Nova are external: they answer with an error, or with a    *)
(* catalog.  An endpoint's URL is its place in the catalog; "v2" catalogs  *)
(* have an adminURL for each endpoint, "v3" ones an endpoint for each      *)
(* interface.  What the requests' bodies say is left out.                  *)
(***************************************************************************)
EXTENDS Naturals, Sequences

CONSTANTS
    Regions,        \* regions of the cloud, names
    MaxServices,    \* bound: services of a catalog
    MaxEndpoints    \* bound: endpoints of a service

NoRegion == ""     \* openstack.region is not configured

ASSUME LoginAssumption == NoRegion \notin Regions /\ MaxServices \in Nat /\ MaxEndpoints \in Nat

VARIABLES
    osRegion,           \* the configured region, or NoRegion
    keystoneVersion,    \* the configured version
    login               \* the login: step, catalog, Nova's URL, status of the answer

loginVars == <<osRegion, keystoneVersion, login>>

NoUrl == <<0, 0>>

Endpoints == [region : Regions, interface : {"admin", "public"}]
Lists(S, most) == UNION {[1..n -> S] : n \in 0..most}
Services == [name : {"nova", "glance"}, endpoints : Lists(Endpoints, MaxEndpoints)]
Catalogs == Lists(Services, MaxServices)

LoginInit ==
    /\ osRegion \in Regions \union {NoRegion}
    /\ keystoneVersion \in {"v2", "v3", "v4"}
    /\ login = [pc |-> "start", catalog |-> <<>>, novaUrl |-> NoUrl, status |-> 0]

\* get_console_info: a version it does not know is an exception.
AskKeystone ==
    /\ login.pc = "start"
    /\ login' = IF keystoneVersion \in {"v2", "v3"} THEN [login EXCEPT !.pc = "keystone"]
                ELSE [login EXCEPT !.pc = "done", !.status = 400]
    /\ UNCHANGED <<osRegion, keystoneVersion>>

\* Any answer with a status of 400 or more, or without what is looked for in it.
Refused(step) ==
    /\ login.pc = step
    /\ login' = [login EXCEPT !.pc = "done", !.status = 400]
    /\ UNCHANGED <<osRegion, keystoneVersion>>

\* The places of Nova's endpoints, in the order of the loops.
Places(catalog) ==
    {p \in (1..MaxServices) \X (1..MaxEndpoints) :
        /\ p[1] \in DOMAIN catalog /\ catalog[p[1]].name = "nova"
        /\ p[2] \in DOMAIN catalog[p[1]].endpoints}

Endpoint(catalog, p) == catalog[p[1]].endpoints[p[2]]

\* The loops overwrite the URL at each match.
LastPlace(S) == IF S = {} THEN NoUrl
                ELSE CHOOSE p \in S : \A q \in S : q[1] < p[1] \/ (q[1] = p[1] /\ q[2] <= p[2])

\* get_auth_token_data_v2: without a region the first endpoint of the last service.
NovaUrlV2(catalog) ==
    LastPlace({p \in Places(catalog) :
        IF osRegion = NoRegion THEN p[2] = 1 ELSE Endpoint(catalog, p).region = osRegion})

\* The region is not looked at.
NovaUrlV3_AnyRegion(catalog) ==
    LastPlace({p \in Places(catalog) : Endpoint(catalog, p).interface = "admin"})

\* get_auth_token_data_v3.
NovaUrlV3(catalog) ==
    LastPlace({p \in Places(catalog) :
        /\ Endpoint(catalog, p).interface = "admin"
        /\ osRegion \in {NoRegion, Endpoint(catalog, p).region}})

\* Element 0 of an empty array, which v2 takes without a region, is an exception.
CatalogBad(catalog) ==
    /\ keystoneVersion = "v2" /\ osRegion = NoRegion
    /\ \E s \in DOMAIN catalog : catalog[s].name = "nova" /\ catalog[s].endpoints = <<>>

KeystoneAnswers(catalog) ==
    /\ login.pc = "keystone"
    /\ login' = IF CatalogBad(catalog) THEN [login EXCEPT !.pc = "done", !.status = 400]
                ELSE [login EXCEPT !.pc = "nova", !.catalog = catalog,
                        !.novaUrl = IF keystoneVersion = "v2" THEN NovaUrlV2(catalog) ELSE NovaUrlV3(catalog)]
    /\ UNCHANGED <<osRegion, keystoneVersion>>

\* get_console_token_data: no URL is an exception of the HTTP client; otherwise the
\* console's host, port and path become the session's.
NovaAnswers ==
    /\ login.pc = "nova"
    /\ login' = [login EXCEPT !.pc = "done", !.status = IF login.novaUrl = NoUrl THEN 400 ELSE 101]
    /\ UNCHANGED <<osRegion, keystoneVersion>>

LoginNext ==
    \/ AskKeystone \/ NovaAnswers
    \/ Refused("keystone") \/ Refused("nova")
    \/ \E catalog \in Catalogs : KeystoneAnswers(catalog)

LoginSpec == LoginInit /\ [][LoginNext]_loginVars

-----------------------------------------------------------------------------
\* Endpoints of Nova that the configuration means.
Usable(catalog) ==
    {p \in Places(catalog) :
        /\ osRegion \in {NoRegion, Endpoint(catalog, p).region}
        /\ keystoneVersion = "v3" => Endpoint(catalog, p).interface = "admin"}

(* Whatever the catalog lists, in whatever order: Nova's URL is that of an  *)
(* endpoint in the region the configuration names, an administrative one if *)
(* the version tells them apart, and one is found if there is one; a login  *)
(* that gets through has asked such an endpoint (nova_token_auth.cpp:129-   *)
(* 147, 220-229).                                                           *)
LoginInRegion ==
    /\ login.pc = "nova" /\ Usable(login.catalog) # {} => login.novaUrl \in Usable(login.catalog)
    /\ login.status = 101 => login.novaUrl \in Usable(login.catalog)
=============================================================================
