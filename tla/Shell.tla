-------------------------------- MODULE Shell --------------------------------
(***************************************************************************)
(* The service worker of the web client and the page it serves             *)
(* (web/public/sw.js, web/src/main.tsx): installing, taking over, the      *)
(* caches of each build, and the reload that brings a page to a new build. *)
(*                                                                         *)
(* A build is a number; each one bumps CACHE, and the server has the       *)
(* bundle of its current build only (their names are hashes).  Left out:   *)
(* fonts and icons, what the worker never answers (/v1, /ws, POSTs), and a *)
(* second update while a worker arrives.  The browser and the server are   *)
(* external.                                                               *)
(***************************************************************************)
EXTENDS Naturals, FiniteSets

CONSTANTS
    MaxBuilds,  \* bound: builds deployed
    MaxOutages, \* bound: times the network is lost
    MaxOpens    \* bound: times the page is opened

VARIABLES
    deployed,  \* the server's build
    online,
    active,    \* the worker in control of this origin, 0 for none
    arriving,  \* the worker being installed, and whether it has been
    caches,    \* of each build: the index and what is cached as a build's bundle
    putting,   \* cache.puts under way of the worker in control, which nobody awaits
    page,      \* the page: what it runs, and what it knows of workers
    used       \* counts of outages and openings

vars == <<deployed, online, active, arriving, caches, putting, page, used>>

Builds == 1 .. MaxBuilds
\* An answer to a navigation that is no index: 404 while dist/ is built anew.
ErrorPage == MaxBuilds + 1
NoCache == [index |-> 0, bundles |-> [b \in Builds |-> "none"]]
Gone == [state |-> "closed", build |-> 0, by |-> 0, had |-> FALSE, whole |-> FALSE]

TypeOK ==
    /\ deployed \in Builds /\ online \in BOOLEAN /\ active \in 0 .. MaxBuilds
    /\ arriving \in [build : 0 .. MaxBuilds, installed : BOOLEAN]
    /\ caches \in [Builds -> [index : 0 .. ErrorPage,
                              bundles : [Builds -> {"none", "script", "fallback"}]]]
    /\ putting \subseteq ({"index"} \X (1 .. ErrorPage)) \cup ({"script", "fallback"} \X Builds)
    /\ page \in [state : {"closed", "index", "bundle", "shown", "registering", "armed", "unarmed", "blank"},
                 build : 0 .. MaxBuilds, by : 0 .. MaxBuilds, had : BOOLEAN, whole : BOOLEAN]

Init ==
    /\ deployed = 1 /\ online = TRUE /\ active = 0
    /\ arriving = [build |-> 0, installed |-> FALSE]
    /\ caches = [b \in Builds |-> NoCache] /\ putting = {}
    /\ page = Gone /\ used = [outages |-> 0, opens |-> 0]

-----------------------------------------------------------------------------
(* The worker's answers.                                                   *)

\* caches.match looks through the caches in the order they were made: that of
\* the builds, since a cache is made as its worker is installed, and never
\* again, the worker being terminated when it is replaced.
First(S) == CHOOSE b \in S : \A c \in S : b <= c

CachedIndex == LET has == {b \in Builds : caches[b].index # 0}
               IN  IF has = {} THEN 0 ELSE caches[First(has)].index

CachedBundle(build) == LET has == {b \in Builds : caches[b].bundles[build] # "none"}
                       IN  IF has = {} THEN "none" ELSE caches[First(has)].bundles[build]

\* A navigation: the network first, then whatever index is cached.
Navigated(by) ==
    IF online THEN {deployed, ErrorPage} ELSE {IF by # 0 THEN CachedIndex ELSE 0}

\* The index arrives, from either place, or the browser says it cannot.  What
\* came over the network is kept whatever its status.
LoadIndex ==
    /\ page.state = "index"
    /\ \E index \in Navigated(page.by) :
         /\ page' = IF index \in Builds THEN [page EXCEPT !.state = "bundle", !.build = index]
                    ELSE [page EXCEPT !.state = "blank"]
         /\ putting' = IF online /\ page.by # 0 THEN putting \cup {<<"index", index>>} ELSE putting
    /\ UNCHANGED <<deployed, online, active, arriving, caches, used>>

\* What a bundle's name is answered with (serveStatic): an index, with 200, if
\* the build is gone; an error while dist/ is built anew.
Fetched(build) ==
    IF online THEN {"none", IF build = deployed THEN "script" ELSE "fallback"} ELSE {"none"}

\* Everything else: the cache first, then the network; what is ok is kept.
LoadBundle ==
    /\ page.state = "bundle"
    /\ LET hit == page.by # 0 /\ CachedBundle(page.build) # "none"
       IN  \E kind \in IF hit THEN {CachedBundle(page.build)} ELSE Fetched(page.build) :
             /\ page' = [page EXCEPT !.state = IF kind = "script" THEN "shown" ELSE "blank"]
             /\ putting' = IF ~hit /\ page.by # 0 /\ kind # "none"
                           THEN putting \cup {<<kind, page.build>>} ELSE putting
    /\ UNCHANGED <<deployed, online, active, arriving, caches, used>>

\* Mutant of Put: what was fetched is not kept.
PutNothing(cache, what) == cache
Put(cache, what) ==
    IF what[1] = "index" THEN [cache EXCEPT !.index = what[2]]
    ELSE [cache EXCEPT !.bundles[what[2]] = what[1]]

\* A put comes to its end, in any order, or fails, which is swallowed.
Settle ==
    \E what \in putting :
        /\ putting' = putting \ {what}
        /\ \/ caches' = [caches EXCEPT ![active] = Put(@, what)] /\ UNCHANGED page
           \/ page' = [page EXCEPT !.whole = FALSE] /\ UNCHANGED caches
        /\ UNCHANGED <<deployed, online, active, arriving, used>>

-----------------------------------------------------------------------------
(* The page.                                                               *)

\* A load starts with a navigation, under the control of a worker or of none.
\* It is whole as long as that worker answers all of it, no put that was under
\* way before may come after its own, and none of its own fails (history).
Loading(by, pending) ==
    [state |-> "index", build |-> 0, by |-> by, had |-> FALSE, whole |-> by # 0 /\ pending = {}]

Open ==
    /\ page.state \in {"closed", "blank"} /\ used.opens < MaxOpens
    /\ page' = Loading(active, putting) /\ used' = [used EXCEPT !.opens = @ + 1]
    /\ UNCHANGED <<deployed, online, active, arriving, caches, putting>>

Close ==
    /\ page.state \notin {"closed", "index"} /\ page' = Gone
    /\ UNCHANGED <<deployed, online, active, arriving, caches, putting, used>>

\* The load event: hadController is read.
Loaded ==
    /\ page.state = "shown"
    /\ page' = [page EXCEPT !.state = "registering", !.had = page.by # 0]
    /\ UNCHANGED <<deployed, online, active, arriving, caches, putting, used>>

\* register() is answered, and the handler of controllerchange is there: a
\* registration is found, or made if sw.js can be fetched.
Register ==
    /\ page.state = "registering"
    /\ \/ /\ active # 0 \/ arriving.build # 0
          /\ page' = [page EXCEPT !.state = "armed"] /\ UNCHANGED arriving
       \/ /\ active = 0 /\ arriving.build = 0 /\ online
          /\ page' = [page EXCEPT !.state = "armed"]
          /\ arriving' = [build |-> deployed, installed |-> FALSE]
       \/ /\ active = 0 /\ arriving.build = 0
          /\ page' = [page EXCEPT !.state = "unarmed"] /\ UNCHANGED arriving
    /\ UNCHANGED <<deployed, online, active, caches, putting, used>>

\* update(), at every return to the foreground and every hour; or the browser's
\* own, after the navigation of a page under control.
Check ==
    /\ page.state = "armed" \/ page.by # 0
    /\ online /\ arriving.build = 0 /\ active # deployed
    /\ arriving' = [build |-> deployed, installed |-> FALSE]
    /\ UNCHANGED <<deployed, online, active, caches, putting, page, used>>

-----------------------------------------------------------------------------
(* A new worker.                                                           *)

\* install: addAll stores all of the shell or nothing; either way the worker
\* skips waiting.
Install ==
    /\ arriving.build # 0 /\ ~arriving.installed
    /\ arriving' = [arriving EXCEPT !.installed = TRUE]
    /\ \E index \in {0} \cup (IF online THEN {deployed} ELSE {}) :
         caches' = [caches EXCEPT ![arriving.build].index = index]
    /\ UNCHANGED <<deployed, online, active, putting, page, used>>

\* Mutant of Kept: no cache is deleted.
KeptAll(b) == TRUE
Kept(b) == b = arriving.build

\* Mutant of Reloads: the page waits to be reloaded.
ReloadsNever == FALSE
\* The handler of controllerchange: a page that had a controller when it loaded
\* reloads, and is gone before there could be another.
Reloads == page.state = "armed" /\ page.had

\* activate: every other cache is deleted, and the page is claimed.  The browser
\* waits until the worker that is replaced has answered what it was asked, and
\* terminates it, whatever it was putting.
Activate ==
    /\ arriving.installed /\ ~(page.state = "index" /\ page.by # 0)
    /\ active' = arriving.build
    /\ arriving' = [build |-> 0, installed |-> FALSE]
    /\ caches' = [b \in Builds |-> IF Kept(b) THEN caches[b] ELSE NoCache]
    /\ putting' = {}
    /\ page' = IF Reloads THEN Loading(arriving.build, {})
               ELSE IF page.state \in {"closed", "index"} THEN page
               ELSE [page EXCEPT !.by = arriving.build, !.whole = FALSE]
    /\ UNCHANGED <<deployed, online, used>>

-----------------------------------------------------------------------------
(* The world.                                                              *)

Deploy ==
    /\ deployed < MaxBuilds /\ deployed' = deployed + 1
    /\ UNCHANGED <<online, active, arriving, caches, putting, page, used>>

Network ==
    /\ \/ online /\ used.outages < MaxOutages /\ used' = [used EXCEPT !.outages = @ + 1]
       \/ ~online /\ UNCHANGED used
    /\ online' = ~online
    /\ UNCHANGED <<deployed, active, arriving, caches, putting, page>>

Next ==
    \/ LoadIndex \/ LoadBundle \/ Settle \/ Open \/ Close \/ Loaded \/ Register \/ Check
    \/ Install \/ Activate \/ Deploy \/ Network

Spec == Init /\ [][Next]_vars

\* An installed web app is resumed, not opened again: it asks for a new build
\* each time, and the browser does the rest when it is online.
Fairness ==
    /\ WF_vars(LoadIndex) /\ WF_vars(LoadBundle) /\ WF_vars(Loaded) /\ WF_vars(Register)
    /\ WF_vars(page.state = "armed" /\ Check)
    /\ WF_vars(Install) /\ WF_vars(Activate) /\ WF_vars(~online /\ Network)
FairSpec == Spec /\ Fairness

-----------------------------------------------------------------------------
(* Properties.                                                             *)

Running == page.state \in {"shown", "registering", "armed", "unarmed"}

\* "An offline launch" (sw.js, PRECACHE): a page that was loaded whole by the
\* worker in control can be opened again without a network, index and bundle,
\* when nothing is being put any more.
OfflineLaunch ==
    Running /\ page.whole /\ putting = {} =>
        CachedIndex \in Builds /\ CachedBundle(CachedIndex) = "script"

\* "Poll for a new worker ourselves, and reload the page when one takes over"
\* (main.tsx): a page that a worker loaded, and that polls, does not stay at an
\* old build while a newer worker is to be had.
Stale == Running /\ page.build # deployed
Updates == (Stale /\ page.state = "armed" /\ page.had /\ active # deployed) ~> ~Stale

\* What main.tsx:18 says: such a page comes to the build that is deployed.  The
\* worker that takes over may do so before the handler is there.
NotMissed == (Stale /\ page.had) ~> ~Stale

===============================================================================
