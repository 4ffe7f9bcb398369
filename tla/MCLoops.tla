------------------------------ MODULE MCLoops ------------------------------
(***************************************************************************)
(* One run for small modules with liveness: RunGate (the instance of       *)
(* MCRunGate), Health, TlsCert and a second instance of Gateway.  As in    *)
(* MCPeople a behaviour picks one module when it begins and the others     *)
(* stay as they are.                                                       *)
(***************************************************************************)
EXTENDS MCRunGate

CONSTANTS
    address, pack,  \* an application behind an address, a persistent package
    h1, h2,         \* rounds of the health loop that overlap
    Pairs,          \* pairs of certificate and key
    Crashes,
    None, Torn,
    app, behind, visitor, port1, port2, visit   \* Gateway: apps, a user, ports, a request

VARIABLES
    focus,
    enabled, world, health, round,                                              \* Health
    cert, key, due, acme, up, served, secure, hsts, issue, tBound, crashes,     \* TlsCert
    row, login, edits, entry, bound, again, call, held, signers, since, charged \* Gateway

He == INSTANCE Health WITH
    Order <- <<address, pack>>, Upstream <- {address}, Rounds <- {h1, h2}

\* Three pairs and two crashes, so that the one who repairs may be cut short
\* as well.
Tls == INSTANCE TlsCert WITH bound <- tBound

\* A package and an application behind an address, two ports; one login, or one
\* change of a row or of the secret, while somebody waits.
Gw == INSTANCE Gateway WITH
    Apps <- {app, behind}, Users <- {visitor}, Ports <- {port1, port2}, Calls <- {visit},
    Upstream <- {behind}, Invoked <- {}, PassUser <- {},
    Lacking <- {}, Ttl <- 0, QueueWait <- 1, MaxPersistent <- 1, MaxEdits <- 1

ASSUME He!HealthAssumption /\ Tls!TlsAssumption

probes == <<enabled, world, health, round>>
https == <<cert, key, due, acme, up, served, secure, hsts, issue, tBound, crashes>>
gateway == <<row, login, edits, entry, bound, again, call, held, signers, since, charged>>
mcVars == <<focus, vars, probes, https, gateway>>

MCInit ==
    /\ focus \in {"gate", "health", "tls", "gateway"}
    /\ Init /\ (focus # "gate" => limit = 1)
    /\ He!Init /\ Tls!Init /\ Gw!Init

MCNext ==
    /\ UNCHANGED focus
    /\ \/ focus = "gate" /\ Next /\ UNCHANGED <<probes, https, gateway>>
       \/ focus = "health" /\ He!Next /\ UNCHANGED <<vars, https, gateway>>
       \/ focus = "tls" /\ Tls!Next /\ UNCHANGED <<vars, probes, gateway>>
       \/ focus = "gateway" /\ Gw!Next /\ UNCHANGED <<vars, probes, https>>

\* Runs end; rounds go on, for each probe has a timer; the process is started
\* again, the renewal loop comes round, and the authority, asked again and
\* again, answers and issues once.  A port is found although the limit is
\* reached and eased again and again; a wait for a package ends by its port or
\* its timer, that for an address by its timer; stopped processes end.
MCFairSpec ==
    /\ MCInit /\ [][MCNext]_mcVars
    /\ \A r \in Runs : WF_vars(focus = "gate" /\ End(r))
    /\ \A h \in {h1, h2} : WF_probes(focus = "health" /\ He!Step(h))
    /\ WF_https(focus = "tls" /\ Tls!Start)
    /\ WF_https(focus = "tls" /\ Tls!Renew)
    /\ SF_https(focus = "tls" /\ Tls!Challenged)
    /\ SF_https(focus = "tls" /\ \E k \in Pairs : Tls!Issued(k))
    /\ SF_gateway(focus = "gateway" /\ (Gw!PortRaced(visit) \/ \E x \in {port1, port2} : Gw!PortFound(visit, x)))
    /\ WF_gateway(focus = "gateway" /\ (Gw!PortReady(visit) \/ Gw!GiveUp(visit)))
    /\ WF_gateway(focus = "gateway" /\ Gw!TimesOut(visit))
    /\ \A x \in {port1, port2} : WF_gateway(focus = "gateway" /\ Gw!Dies(x))

-----------------------------------------------------------------------------
(* The properties of the instances *)

\* Health: what is shown of an application that stops changing comes true.
HealthConverges == focus = "health" => He!HealthConverges

\* TlsCert: what is served is what a restart restores, with its cookies.
HttpsIsConsistent == Tls!HttpsIsConsistent

\* TlsCert: with a domain, a spoilt certificate is replaced.
RenewalHeals == Tls!RenewalHeals

\* Gateway: a request that waits for a port or an address does not for ever.
WaitsEnd == Gw!WaitsEnd
=============================================================================
