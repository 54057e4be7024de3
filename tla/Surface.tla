------------------------------- MODULE Surface -------------------------------
(***************************************************************************)
(* What is injected into a release of claude: the profile picked for its   *)
(* version (src/injector/profiles.ts), the gates of that profile and the   *)
(* locators that find them in the release's bundle (anchors.ts).           *)
(*                                                                         *)
(* A bundle is external, and is what the locators can see of it: the       *)
(* strings and code shapes it has, and the minified name it gives to each  *)
(* function it exports, which every release draws anew.  A gate's          *)
(* breakpoint is the shape it is at, with the names in it.  Left out:      *)
(* offsets and windows, the text of the rebinds, versions but for their    *)
(* patch number (2.1 throughout), printing.                                *)
(***************************************************************************)
EXTENDS Naturals, Sequences, SequencesExt, FiniteSets

CONSTANTS
    Patches,  \* external: patch numbers of the releases of 2.1
    Names,    \* external: minified names
    MaxDrift  \* bound: strings and shapes a release has lost

VARIABLES
    patch,    \* external: the installed release
    facts,    \* external: the strings and shapes of its bundle
    name,     \* external: the minified name of each export
    version,  \* what --version answered, or 0
    profile,  \* the profile picked, or Null
    note,     \* how sure the choice is
    found     \* the report of the locator: of each gate an error, or "" and its names

vars == <<patch, facts, name, version, profile, note, found>>

-----------------------------------------------------------------------------
(* anchors.ts: the gates.                                                  *)

Gate(id, anchor, aliases, bp) == [id |-> id, anchor |-> anchor, aliases |-> aliases, bp |-> bp]

DispatchOauth == Gate("dispatch.oauth", "cli_bridge_path",
    {"hasStoredOAuthToken", "getBridgeDisabledReason", "checkBridgeMinVersion"}, "if !hasStoredOAuthToken")
DispatchPolicy == Gate("dispatch.policy", "cli_bridge_path", {"isPolicyAllowed"}, "!isPolicyAllowed")
DispatchTrustLegacy == Gate("dispatch.trust", "cli_bridge_path",
    {"enrollTrustedDeviceIfNeeded", "getTrustedDeviceUnenrolledReason"}, "await enroll")
DispatchTrustPreflight == Gate("dispatch.trust", "cli_bridge_path",
    {"preflightTrustedDeviceBlocking"}, "await preflight")
BridgeMainTrust == Gate("bridgeMain.trust", "base URL uses HTTP", {"checkHasTrustDialogAccepted"}, "!checkTrust")
BridgeMainTokenUrl == Gate("bridgeMain.tokenurl", "base URL uses HTTP",
    {"getBridgeAccessToken", "getBridgeBaseUrl"}, "if !getBridgeAccessToken")
BridgeMainHttpScheme == Gate("bridgeMain.httpscheme", "Error: base URL uses HTTP",
    {"baseUrl"}, "if startsWith http")
SpawnerSpawn == Gate("spawner.spawn", "--replay-user-messages", {"env"}, "Spawning sessionId")

headlessGates(trust) ==
    {DispatchOauth, DispatchPolicy, trust, BridgeMainTrust, BridgeMainTokenUrl, BridgeMainHttpScheme, SpawnerSpawn}

\* A gate of /rc is found by an export or by a string inside its function.
InteractiveGate(id, export, anchor, bp) == [id |-> id, export |-> export, anchor |-> anchor, bp |-> bp]
InteractiveGates == {
    InteractiveGate("int.enabled", "isBridgeEnabled", "", "if killSwitch"),
    InteractiveGate("int.baseurl", "getBridgeBaseUrl", "", "return override"),
    InteractiveGate("int.token", "getBridgeAccessToken", "", "let override"),
    InteractiveGate("int.preflight", "", "Prerequisites passed", "disabled reasons"),
    InteractiveGate("int.replinit", "", "bridge_connect_no_token", "if no token"),
    InteractiveGate("int.orguuid", "", "no org UUID", "if no org"),
    InteractiveGate("int.httpscheme", "", "quoted base URL uses HTTP", "if startsWith http")}

Located(error, names) == [error |-> error, names |-> names]

\* Mutant of locate: a name that is not found is left as the last release had it.
locateAnyway(g) ==
    IF g.anchor \notin facts THEN Located("anchor-not-found", {}) ELSE Located("", {name[e] : e \in g.aliases})
\* buildLocatorExpr: the window, the names, the breakpoint.
locate(g) ==
    IF g.anchor \notin facts THEN Located("anchor-not-found", {})
    ELSE IF ~(g.aliases \subseteq facts) THEN Located("alias-not-found", {})
    ELSE IF g.bp \notin facts THEN Located("bp-substr-not-found", {})
    ELSE Located("", {name[e] : e \in g.aliases})

\* buildInteractiveLocatorExpr: the function, then what is rebound in it.
locateInteractive(g) ==
    IF g.export # "" /\ g.export \notin facts THEN Located("export-not-found", {})
    ELSE IF g.export = "" /\ g.anchor \notin facts THEN Located("anchor-not-found", {})
    ELSE IF g.bp \notin facts THEN Located("rebind-re-not-found", {})
    ELSE Located("", IF g.export = "" THEN {} ELSE {name[g.export]})

-----------------------------------------------------------------------------
(* profiles.ts                                                             *)

Profile(id, since, verified, gates) ==
    [id |-> id, since |-> since, verifiedThrough |-> verified, gates |-> gates]
Profiles == {Profile("legacy", 229, 237, headlessGates(DispatchTrustLegacy)),
             Profile("preflight", 238, 238, headlessGates(DispatchTrustPreflight))}

None == [id |-> "none"]

\* Mutant of newestProfile: no profile for a version that is not known.
noProfile == None
newestProfile == CHOOSE p \in Profiles : \A q \in Profiles : q.since <= p.since
oldestProfile == CHOOSE p \in Profiles : \A q \in Profiles : p.since <= q.since

\* Mutant of atLeast: past a profile's first version.
after(v, p) == v > p.since
\* compareVersion, of two versions of 2.1.
atLeast(v, p) == v >= p.since

selectProfile(v) ==
    LET reached == {p \in Profiles : atLeast(v, p)}
    IN  IF reached = {} THEN oldestProfile ELSE CHOOSE p \in reached : \A q \in reached : q.since <= p.since

selectNote(v, p) ==
    IF v < p.since THEN "optimistic-older" ELSE IF v > p.verifiedThrough THEN "optimistic-newer" ELSE "exact"

-----------------------------------------------------------------------------
(* A launch.                                                               *)

\* External: what every release so far has had, and what its own shape adds.
Exports == UNION {g.aliases : g \in UNION {p.gates : p \in Profiles}}
           \cup ({g.export : g \in InteractiveGates} \ {""})
FactsOf(gates) == UNION {{g.anchor, g.bp} \cup g.aliases : g \in gates}
Shape(n) == FactsOf(headlessGates(IF n <= 237 THEN DispatchTrustLegacy ELSE DispatchTrustPreflight))
            \cup (UNION {{g.export, g.anchor, g.bp} : g \in InteractiveGates} \ {""})

AllGates(p) == p.gates \cup InteractiveGates

Init ==
    /\ patch \in Patches /\ facts = Shape(patch) /\ name \in [Exports -> {CHOOSE n \in Names : TRUE}]
    /\ version = 0 /\ profile = None /\ note = "" /\ found = <<>>

\* External: another release is installed; it may have drifted where none has
\* been measured.
Install(n, lost) ==
    /\ n # patch /\ Cardinality(lost) <= MaxDrift /\ (n \in 229..238 => lost = {})
    /\ patch' = n /\ facts' = Shape(n) \ lost
    /\ \E m \in Names : name' = [e \in Exports |-> m]
    /\ version' = 0 /\ profile' = None /\ note' = "" /\ found' = <<>>

\* resolveProfile: a probe that fails is no reason not to try.
resolveProfile ==
    /\ profile = None
    /\ \/ /\ version' = patch /\ profile' = selectProfile(patch) /\ note' = selectNote(patch, selectProfile(patch))
       \/ /\ version' = 0 /\ profile' = newestProfile /\ note' = "undetected"
    /\ UNCHANGED <<patch, facts, name, found>>

Locate ==
    /\ profile # None /\ found = <<>>
    /\ found' = [g \in AllGates(profile) |-> IF g \in InteractiveGates THEN locateInteractive(g) ELSE locate(g)]
    /\ UNCHANGED <<patch, facts, name, version, profile, note>>

Next ==
    \/ \E n \in Patches : \E lost \in {{}} \cup {{f} : f \in Shape(n)} : Install(n, lost)
    \/ resolveProfile \/ Locate

Spec == Init /\ [][Next]_vars

-----------------------------------------------------------------------------
(* Properties.                                                             *)

TypeOK ==
    /\ patch \in Patches /\ version \in {0, patch} /\ profile \in Profiles \cup {None}
    /\ note \in {"", "exact", "optimistic-newer", "optimistic-older", "undetected"}
    /\ (profile = None) = (note = "") /\ (note = "undetected" => version = 0)
    /\ found # <<>> => DOMAIN found = AllGates(profile)

\* Every version measured is injected whole: the profile picked for it finds
\* each of its gates.
MeasuredIsWhole ==
    found # <<>> /\ version \in 229..238 =>
        note = "exact" /\ \A g \in DOMAIN found : found[g].error = ""

\* "A bad guess degrades to a loud, specific miss, not a silent wrong-rebind":
\* whatever was guessed and has drifted, a gate is reported located only with
\* names that this release gives to the functions it means.
MissIsLoud ==
    found # <<>> => \A g \in DOMAIN found : found[g].error = "" =>
        /\ g.bp \in facts
        /\ g \notin InteractiveGates => g.aliases \subseteq facts /\ found[g].names = {name[e] : e \in g.aliases}

\* A guess costs no gate but those whose code changed: when the version is not
\* detected, or newer than any measured, only the gates that lost something
\* miss.
GuessCostsLittle ==
    found # <<>> /\ Shape(patch) = facts =>
        \A g \in DOMAIN found : found[g].error # "" => g.id = "dispatch.trust" /\ (note = "undetected" \/ patch < 229)

=============================================================================
