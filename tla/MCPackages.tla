----------------------------- MODULE MCPackages -----------------------------
(***************************************************************************)
(* One run for the modules about what packages may do: Gateway (the        *)
(* instance of MCGateway), AppReview, Package, AppEnv, Egress and          *)
(* AppTokens.  As in MCPeople a behaviour picks one module when it begins. *)
(* Where a module has several initial states the others see one of them.   *)
(***************************************************************************)
EXTENDS MCGateway

CONSTANTS
    owner, other, Admin,
    v1, v2, v3,     \* versions, v3 with a trusted signature
    upload1,        \* an upload of the admin
    name1, name2,   \* names: variables of a package, hosts
    Authors, RvVersions, RvSigned, RvUploads, Crashes,                      \* AppReview
    Senders, MaxEntries, MaxBytes,                                          \* Package
    EnvNames, EnvVersions, Required, Secret, Declared, MaxSaves, MaxKeys,   \* AppEnv
    Width, Private, LinkLocal, HostNames, Inside, Manifests, AllowLists, MaxHops,   \* Egress
    Limits, Minute, MaxTokens                                               \* AppTokens

VARIABLES
    focus,
    rvRow, files, rvProc, starting, upload, used, seen, cleared, slipped, taken, mixed, \* AppReview
    pReq, count, bytes, dir, entries, manifest, signature, site, pRow,           \* Package
    ver, store, sign, file, mem, keys, saves, start, proc, lost,            \* AppEnv
    eManifest, allowed, dns, pc, host, hop, network, allow, found, reached, \* Egress
    aRow, issued, last, perMinute, window, served, orphaned                 \* AppTokens

\* Two owners, three versions, an upload, crashes.
Rv == INSTANCE AppReview WITH
    Users <- Authors, Versions <- RvVersions, Signed <- RvSigned, Uploads <- RvUploads,
    row <- rvRow, proc <- rvProc

\* Zips of four entries, of which one may be too large.
Pk == INSTANCE Package WITH
    Users <- Senders, req <- pReq, n <- count, row <- pRow

\* A version that requires the variable that the other one declares secret,
\* three saves and a key that is lost.
MCRequired == [v \in {v1, v2} |-> IF v = v1 THEN {name1} ELSE {name2}]
MCSecret == [v \in {v1, v2} |-> IF v = v1 THEN {name2} ELSE {}]
MCDeclared == [v \in {v1, v2} |-> {name1, name2}]

Env == INSTANCE AppEnv WITH Names <- EnvNames, Versions <- EnvVersions

\* Addresses 0 to 3, of which 1 and 2 are private and 2 is link-local; an
\* inside name; lists with nothing, and with a name, an address and a range.
MCManifests == {{name1, name2}}
MCAllowLists == {[hosts |-> {}, cidrs |-> {}],
                 [hosts |-> {[name |-> name2], [addr |-> 2]}, cidrs |-> {[net |-> 1, prefix |-> 1]}]}

Eg == INSTANCE Egress WITH Names <- HostNames, manifest <- eManifest

\* Two tokens, one perhaps by hand, two limits, a window of two ticks.
At == INSTANCE AppTokens WITH row <- aRow, tokens <- issued

ASSUME Rv!ReviewAssumption /\ Pk!PackageAssumption /\ Env!AppEnvAssumption /\ Eg!EgressAssumption /\ At!TokensAssumption

review == <<rvRow, files, rvProc, starting, upload, used, seen, cleared, slipped, taken, mixed>>
package == <<pReq, count, bytes, dir, entries, manifest, signature, site, pRow>>
environment == <<ver, store, sign, file, mem, keys, saves, start, proc, lost>>
egress == <<eManifest, allowed, dns, pc, host, hop, network, allow, found, reached>>
appTokens == <<aRow, issued, last, perMinute, window, served, orphaned>>
mcVars == <<focus, vars, review, package, environment, egress, appTokens>>

MCInit ==
    /\ focus \in {"gateway", "review", "package", "env", "egress", "tokens"}
    /\ Init /\ Rv!Init /\ Pk!Init
    /\ Env!Init /\ (focus # "env" => ver = v1)
    /\ Eg!Init /\ At!Init
    /\ focus # "egress" => /\ allowed = [hosts |-> {}, cidrs |-> {}]
                           /\ \A h \in HostNames : dns[h] = {}

MCNext ==
    /\ UNCHANGED focus
    /\ \/ /\ focus = "gateway" /\ Next
          /\ UNCHANGED <<review, package, environment, egress, appTokens>>
       \/ /\ focus = "review" /\ Rv!Next
          /\ UNCHANGED <<vars, package, environment, egress, appTokens>>
       \/ /\ focus = "package" /\ Pk!Next
          /\ UNCHANGED <<vars, review, environment, egress, appTokens>>
       \/ /\ focus = "env" /\ Env!Next
          /\ UNCHANGED <<vars, review, package, egress, appTokens>>
       \/ /\ focus = "egress" /\ Eg!Next
          /\ UNCHANGED <<vars, review, package, environment, appTokens>>
       \/ /\ focus = "tokens" /\ At!Next
          /\ UNCHANGED <<vars, review, package, environment, egress>>

MCSpec == MCInit /\ [][MCNext]_mcVars

-----------------------------------------------------------------------------
(* The properties of the instances *)

\* AppReview: what strangers get, manifest, files and process, was vouched for
\* or has slipped through in a way that is named; the row is that of the files
\* next to it.
OpenIsVouched == Rv!OpenIsVouched

\* Package: signatures, limits and owners hold whatever is in the zip.
UploadsAreContained == Pk!UploadsAreContained

\* AppEnv: what is configured is what a package runs with.
ConfiguredIsUsed == Env!ConfiguredIsUsed

\* Egress: whatever redirects name, only what was admitted is fetched.
ReachedIsAdmitted == Eg!ReachedIsAdmitted

\* AppTokens: tokens spend for declared packages, below their limits.
TokensAreContained == At!TokensAreContained
=============================================================================
