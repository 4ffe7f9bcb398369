------------------------------- MODULE Egress -------------------------------
(***************************************************************************)
(* The one way of a package to the network (routes/aap.ts, POST            *)
(* /api/aap/egress): each hop of a chain of redirects is admitted anew, by *)
(* its name and by the addresses its name has, and then fetched.           *)
(*                                                                         *)
(* Addresses are numbers of Width bits.  A hop names either an address or  *)
(* a host.  The manifest and the setting are read when the request begins. *)
(* The name is looked up once by the portal and once more by the fetch;    *)
(* names change their addresses at all times, between these two as well.   *)
(***************************************************************************)
EXTENDS Integers, FiniteSets

CONSTANTS
    Width,
    Private,    \* isPrivateIp
    LinkLocal,  \* 169.254/16, fe80
    Names,      \* host names
    Inside,     \* SUBSET Names: localhost, .local, .internal
    Manifests,  \* the sets of names a manifest may declare
    AllowLists, \* values of EGRESS_INTRANET_ALLOWLIST, as parsed: exact hosts,
                \* which are names or addresses, and cidrs
    None,
    MaxHops     \* MAX_EGRESS_HOPS

Addrs == 0 .. 2 ^ Width - 1
Hosts == [name : Names] \cup [addr : Addrs]
IsIp(h) == "addr" \in DOMAIN h

EgressAssumption ==
    /\ Width \in Nat \ {0} /\ LinkLocal \subseteq Private /\ Private \subseteq Addrs
    /\ Inside \subseteq Names /\ None \notin Names
    /\ \A m \in Manifests : m \subseteq Names
    /\ \A l \in AllowLists :
        /\ l.hosts \subseteq Hosts
        /\ \A c \in l.cidrs : c.net \in Addrs /\ c.prefix \in 0 .. Width
    /\ MaxHops \in Nat

VARIABLES
    manifest, allowed,  \* in the database
    dns,                \* the addresses a name has now, {} when none
    pc,
    host,               \* of the current hop: a name or an address
    hop,
    network, allow,     \* what the request has read
    found,              \* what the portal looked up
    reached             \* the hops that were fetched: host, address, and what
                        \* the portal had looked up for the host

vars == <<manifest, allowed, dns, pc, host, hop, network, allow, found, reached>>

TypeOK ==
    /\ manifest \in Manifests /\ network \in Manifests
    /\ allowed \in AllowLists /\ allow \in AllowLists
    /\ dns \in [Names -> SUBSET Addrs]
    /\ pc \in {"idle", "hop", "lookup", "fetch"}
    /\ host \in Hosts \cup {None}
    /\ hop \in 0 .. MaxHops + 1
    /\ found \subseteq Addrs
    /\ reached \subseteq Hosts \X Addrs \X SUBSET Addrs

Init ==
    /\ manifest \in Manifests /\ allowed \in AllowLists
    /\ dns \in [Names -> {{x} : x \in Addrs} \cup {{}, {0, 1}}]
    /\ pc = "idle" /\ host = None /\ hop = 0
    /\ network = manifest /\ allow = allowed
    /\ found = {} /\ reached = {}

-----------------------------------------------------------------------------
(* The gate of a hop *)

\* ipInAllowCidr: the first bits agree; a prefix of no bits covers all.
InCidr(cidrs, x) ==
    \E c \in cidrs :
        c.prefix = 0 \/ c.net \div 2 ^ (Width - c.prefix) = x \div 2 ^ (Width - c.prefix)

\* egressHostGate: what the administrator vouches for; no other address, no
\* other inside name; else what the manifest declares.
Vouched(h) == h \in allow.hosts \/ (IsIp(h) /\ InCidr(allow.cidrs, h.addr))
HostGate(h) == Vouched(h) \/ (~ IsIp(h) /\ h.name \notin Inside /\ h.name \in network)

\* The addresses of a name: no link-local one, and no private one that the
\* administrator has not covered by a range; an exact entry is for the host.
\* Fault: one address that will do is enough.
AddressGateAny(h, xs) ==
    /\ xs # {}
    /\ xs \cap LinkLocal = {}
    /\ h \in allow.hosts \/ \E x \in xs : x \notin Private \/ InCidr(allow.cidrs, x)

AddressGate(h, xs) ==
    /\ xs # {}
    /\ xs \cap LinkLocal = {}
    /\ h \in allow.hosts \/ \A x \in xs : x \notin Private \/ InCidr(allow.cidrs, x)

-----------------------------------------------------------------------------
(* A request *)

End == pc' = "idle" /\ host' = None /\ found' = {}

Begin(h) ==
    /\ pc = "idle"
    /\ pc' = "hop" /\ host' = h /\ hop' = 0
    /\ network' = manifest /\ allow' = allowed
    /\ reached' = {}
    /\ UNCHANGED <<manifest, allowed, dns, found>>

\* The head of the loop, up to the lookup or, for an address, the fetch.
Admit ==
    /\ pc = "hop" /\ hop <= MaxHops /\ HostGate(host)
    /\ pc' = IF IsIp(host) THEN "fetch" ELSE "lookup"
    /\ UNCHANGED <<manifest, allowed, dns, host, hop, network, allow, found, reached>>

Refuse ==
    /\ pc = "hop" /\ (hop > MaxHops \/ ~ HostGate(host))
    /\ End
    /\ UNCHANGED <<manifest, allowed, dns, hop, network, allow, reached>>

\* resolveHostIps
LookUp ==
    /\ pc = "lookup"
    /\ \/ /\ AddressGate(host, dns[host.name])
          /\ pc' = "fetch" /\ found' = dns[host.name]
          /\ UNCHANGED host
       \/ /\ ~ AddressGate(host, dns[host.name])
          /\ End
    /\ UNCHANGED <<manifest, allowed, dns, hop, network, allow, reached>>

\* Where the fetch connects to: it looks the name up for itself.
Targets == IF IsIp(host) THEN {host.addr} ELSE dns[host.name]
Fetched(x) == x \in Targets /\ reached' = reached \cup {<<host, x, found>>}

\* The answer is no redirect, or there is none.
Fetch(x) ==
    /\ pc = "fetch" /\ Fetched(x)
    /\ End
    /\ UNCHANGED <<manifest, allowed, dns, hop, network, allow>>

\* A redirect: the next hop.
Follow(x, h) ==
    /\ pc = "fetch" /\ Fetched(x)
    /\ pc' = "hop" /\ host' = h /\ hop' = hop + 1 /\ found' = {}
    /\ UNCHANGED <<manifest, allowed, dns, network, allow>>

\* The timer of fifteen seconds, a connection that fails.
Fails ==
    /\ pc = "fetch"
    /\ End
    /\ UNCHANGED <<manifest, allowed, dns, hop, network, allow, reached>>

-----------------------------------------------------------------------------
\* An update of the package, a save of the setting.
Edit(m, l) ==
    /\ <<m, l>> # <<manifest, allowed>>
    /\ manifest' = m /\ allowed' = l
    /\ UNCHANGED <<dns, pc, host, hop, network, allow, found, reached>>

Moved(n, x) ==
    /\ dns[n] # {x}
    /\ dns' = [dns EXCEPT ![n] = {x}]
    /\ UNCHANGED <<manifest, allowed, pc, host, hop, network, allow, found, reached>>

Next ==
    \/ \E h \in Hosts : Begin(h)
    \/ Admit \/ Refuse \/ LookUp \/ Fails
    \/ \E x \in Addrs : Fetch(x)
    \/ \E x \in Addrs, h \in Hosts : Follow(x, h)
    \/ \E m \in Manifests, l \in AllowLists : Edit(m, l)
    \/ \E n \in Names, x \in Addrs : Moved(n, x)

Spec == Init /\ [][Next]_vars

-----------------------------------------------------------------------------
(* Properties *)

\* The range of a CIDR entry, as one reads it.
RangeOf(c) == LET size == 2 ^ (Width - c.prefix)
                low == (c.net \div size) * size
            IN  low .. low + size - 1

\* The administrator's list, as it was when the request began, has x in a range.
Covered(x) == \E c \in allow.cidrs : x \in RangeOf(c)

\* Whatever a chain of redirects names: an address is fetched when the list has
\* it, exactly or in a range; a name when the list has it or the manifest
\* declares it, and when none of the addresses it was looked up with was
\* link-local, nor private and neither in a range nor of a name that the list
\* has (aap.ts:259-277, 338-356).
ReachedIsAdmitted ==
    \A r \in reached :
        LET h == r[1]  looked == r[3]
        IN  /\ IsIp(h) => r[2] = h.addr /\ (h \in allow.hosts \/ Covered(h.addr))
            /\ ~ IsIp(h) =>
                  /\ h \in allow.hosts \/ h.name \in network \ Inside
                  /\ looked # {} /\ looked \cap LinkLocal = {}
                  /\ \A x \in looked \cap Private : Covered(x) \/ h \in allow.hosts

\* What is fetched is what was looked up (aap.ts:6, against DNS rebinding).
\* Refuted: the fetch looks the name up for itself, later.
FetchedWasLookedUp == \A r \in reached : ~ IsIp(r[1]) => r[2] \in r[3]

\* Link-local addresses are refused without condition (aap.ts:340-341).
\* Refuted: that is asked of what a name was looked up with only, not of an
\* address, and not of what the fetch finds.
LinkLocalNever == \A r \in reached : r[2] \notin LinkLocal
=============================================================================
