---------------------------- MODULE VersionFloor ----------------------------
(***************************************************************************)
(* Logging in (connect, refreshed_client_version, managed_watch.rs): where *)
(* the gateway is looked for (majsoul/gateway.rs), which client version a  *)
(* login carries, and the search for the lowest version the server still   *)
(* takes, whose result every session of the process shares through a file. *)
(*                                                                         *)
(* Versions are parse_version's numbers, Default the compiled-in one that  *)
(* the configurations of the Pinned sessions name too.                     *)
(* Span, FirstStep and Factor stand for 512, 4 and 4 of the search, scaled *)
(* by the instances.  The server raises its floor at most MaxRaises times; *)
(* MaxLoginFaults bounds its other failures: unreachable hosts, a gateway  *)
(* that moves, a session cut off, a login that fails.                      *)
(***************************************************************************)
EXTENDS Integers, Sequences

CONSTANTS Sessions, Pinned, Hosts, Default, Span, FirstStep, Factor,
          MaxRaises, MaxLoginFaults, ProbesMisread

ASSUME VersionAssumption ==
  /\ Default \in Nat \ {0} /\ Span \in Nat
  /\ FirstStep \in Nat \ {0} /\ Factor \in Nat \ {0, 1}
  /\ Pinned \subseteq Sessions /\ ProbesMisread \in BOOLEAN

\* The index page and the route hosts in the order they are asked.
Sites == {"index"} \union {Hosts[i] : i \in DOMAIN Hosts}
Gateways == 1 .. 2

\* The highest version a search can probe while the floor is within its span.
MaxVersion == Default + 2 * Span

VARIABLES
  floor,      \* the lowest version the server takes
  published,  \* the shared client_version file, 0 for none
  pin,        \* session -> the version it was configured with or given, 0 for none
  loop,       \* session -> where its loop is
  tried,      \* session -> the version its last login carried
  low, high,  \* session -> the search's known-bad and known-good bounds
  step,       \* session -> the search's escalation step
  up,         \* the sites that answer
  gateway,    \* where the gateway is
  routes,     \* host -> the gateway of its cached answer, 0 for none
  package,    \* the package version was read off the index page once
  raises, loginFaults

cacheVars == <<routes, package>>
worldVars == <<floor, up, gateway, raises, loginFaults>>
searchVars == <<low, high, step>>
floorVars == <<published, pin, loop, tried, searchVars, cacheVars, worldVars>>

Stages == {"idle", "login", "rejected", "check", "escalate", "bisect", "publish", "up"}

FloorTypeOK ==
  /\ floor \in Default .. MaxVersion
  /\ published \in 0 .. MaxVersion
  /\ pin \in [Sessions -> 0 .. MaxVersion]
  /\ loop \in [Sessions -> Stages]
  /\ tried \in [Sessions -> 0 .. MaxVersion]
  /\ \A s \in Sessions : loop[s] # "idle" => tried[s] >= Default
  /\ low \in [Sessions -> 0 .. MaxVersion] /\ high \in [Sessions -> 0 .. MaxVersion]
  /\ step \in [Sessions -> 0 .. Span * Factor]
  /\ up \subseteq Sites
  /\ gateway \in Gateways
  /\ routes \in [Sites -> 0 .. 2]
  /\ package \in BOOLEAN
  /\ raises \in 0 .. MaxRaises /\ loginFaults \in 0 .. MaxLoginFaults

FloorInit ==
  /\ floor = Default /\ published = 0
  /\ pin = [s \in Sessions |-> IF s \in Pinned THEN Default ELSE 0]
  /\ loop = [s \in Sessions |-> "idle"]
  /\ tried = [s \in Sessions |-> 0]
  /\ low = [s \in Sessions |-> 0] /\ high = [s \in Sessions |-> 0]
  /\ step = [s \in Sessions |-> 0]
  /\ up = Sites /\ gateway = 1
  /\ routes = [h \in Sites |-> 0] /\ package = FALSE
  /\ raises = 0 /\ loginFaults = 0

GoTo(s, where) == loop' = [loop EXCEPT ![s] = where]
EndSearch(s) == /\ low' = [low EXCEPT ![s] = 0] /\ high' = [high EXCEPT ![s] = 0]
                /\ step' = [step EXCEPT ![s] = 0]
LoginFault == loginFaults < MaxLoginFaults /\ loginFaults' = loginFaults + 1

(***************************************************************************)
(* The world                                                               *)
(***************************************************************************)
RaiseFloor ==
  /\ raises < MaxRaises
  /\ raises' = raises + 1
  /\ floor' \in floor + 1 .. Default + Span
  /\ UNCHANGED <<published, pin, loop, tried, searchVars, cacheVars, up, gateway, loginFaults>>

SiteDown(h) ==
  /\ h \in up /\ LoginFault /\ up' = up \ {h}
  /\ UNCHANGED <<published, pin, loop, tried, searchVars, cacheVars, floor, gateway, raises>>

SiteBack(h) ==
  /\ h \notin up /\ up' = up \union {h}
  /\ UNCHANGED <<published, pin, loop, tried, searchVars, cacheVars, floor, gateway, raises, loginFaults>>

GatewayMoves ==
  /\ gateway = 1 /\ LoginFault /\ gateway' = 2
  /\ UNCHANGED <<published, pin, loop, tried, searchVars, cacheVars, floor, up, raises>>

(***************************************************************************)
(* The gateway                                                             *)
(***************************************************************************)

\* discover_package_version: the index page, else the last value read.  The
\* version is part of the routes' address, so the answers cached before the
\* first value was read are not found again.
PackageRead == package \/ "index" \in up
Cached == IF PackageRead = package THEN routes ELSE [h \in Sites |-> 0]

\* fetch_text_cached: the network first, then the copy kept of its last
\* answer, however old.
FetchedFrom(h) == IF h \in up THEN gateway ELSE Cached[h]

\* discover_gateway: the first host with an answer of either kind, 0 for none.
Answering == {i \in DOMAIN Hosts : FetchedFrom(Hosts[i]) # 0}
First(S) == CHOOSE i \in S : \A j \in S : i <= j
Discovered == IF Answering = {} THEN 0 ELSE FetchedFrom(Hosts[First(Answering)])

\* What one discovery leaves in the cache: every host up to the first that
\* answered has been asked.
Looked ==
  /\ package' = PackageRead
  /\ routes' = [h \in Sites |->
       IF /\ h \in up \ {"index"}
          /\ Answering # {} /\ h = Hosts[First(Answering)]
       THEN gateway ELSE Cached[h]]

(***************************************************************************)
(* The version                                                             *)
(***************************************************************************)

\* adopted_client_version and effective_code_version: a pin, then a published
\* floor above the default, then the default.
Effective(s) == IF pin[s] # 0 THEN pin[s]
                ELSE IF published > Default THEN published ELSE Default

Resolve(s) ==
  /\ loop[s] = "idle"
  /\ tried' = [tried EXCEPT ![s] = Effective(s)]
  /\ GoTo(s, "login")
  /\ UNCHANGED <<published, pin, searchVars, cacheVars, worldVars>>

\* connect with a version: reached, and taken or refused with 151.
Accepts(v) == v >= floor
Reached == Discovered = gateway

\* connect: logged in, refused, or failed on the way, which may read like a
\* refusal ("a proxy refusing a connection on port 8151").
Login(s) ==
  /\ loop[s] = "login"
  /\ Looked
  /\ \/ /\ Reached /\ UNCHANGED loginFaults
        /\ GoTo(s, IF Accepts(tried[s]) THEN "up" ELSE "rejected")
     \/ ~Reached /\ GoTo(s, "idle") /\ UNCHANGED loginFaults
     \/ LoginFault /\ \E where \in {"idle", "rejected"} : GoTo(s, where)
  /\ UNCHANGED <<published, pin, tried, searchVars, floor, up, gateway, raises>>

\* A session that is up ends and its loop comes round.
Disconnect(s) ==
  /\ loop[s] = "up" /\ LoginFault
  /\ GoTo(s, "idle")
  /\ UNCHANGED <<published, pin, tried, searchVars, cacheVars, floor, up, gateway, raises>>

\* Anything published is adopted.
NewerOrNot(s) == published # 0

\* The published version is worth adopting.
Newer(s) == published > tried[s]

\* The refused version taken for a proven bound.
SearchStartTrusting == "escalate"

\* Where a search begins: the refused version is a hint, and is probed.
SearchStart == "check"

\* refreshed_client_version: what another session has published since, or a
\* search of its own.
Refresh(s) ==
  /\ loop[s] = "rejected"
  /\ IF Newer(s)
     THEN /\ pin' = [pin EXCEPT ![s] = published]
          /\ GoTo(s, "idle")
          /\ UNCHANGED searchVars
     ELSE /\ low' = [low EXCEPT ![s] = tried[s]]
          /\ high' = [high EXCEPT ![s] = 0]
          /\ step' = [step EXCEPT ![s] = FirstStep]
          /\ GoTo(s, SearchStart)
          /\ UNCHANGED pin
  /\ UNCHANGED <<published, tried, cacheVars, worldVars>>

\* probe_version: one login.  A failure that is not a refusal ends the
\* search, unless, with ProbesMisread, it reads like one.
Probe(s, v, taken, refused) ==
  /\ Looked
  /\ \/ Reached /\ Accepts(v) /\ taken /\ UNCHANGED loginFaults
     \/ Reached /\ ~Accepts(v) /\ refused /\ UNCHANGED loginFaults
     \/ ~Reached /\ GoTo(s, "idle") /\ EndSearch(s) /\ UNCHANGED loginFaults
     \/ LoginFault /\ IF ProbesMisread THEN refused
                 ELSE GoTo(s, "idle") /\ EndSearch(s)
  /\ UNCHANGED <<published, pin, tried, floor, up, gateway, raises>>

\* search_version_floor probes what was refused ...
Check(s) ==
  /\ loop[s] = "check"
  /\ Probe(s, low[s],
           /\ high' = [high EXCEPT ![s] = low[s]]
           /\ GoTo(s, "publish") /\ UNCHANGED <<low, step>>,
           GoTo(s, "escalate") /\ UNCHANGED searchVars)

\* ... then ever further above it, within the span ...
Escalate(s) ==
  /\ loop[s] = "escalate"
  /\ IF step[s] > Span
     THEN /\ GoTo(s, "idle") /\ EndSearch(s)
          /\ UNCHANGED <<published, pin, tried, cacheVars, worldVars>>
     ELSE LET v == tried[s] + step[s]
          IN  Probe(s, v,
                    /\ high' = [high EXCEPT ![s] = v]
                    /\ GoTo(s, "bisect") /\ UNCHANGED <<low, step>>,
                    /\ low' = [low EXCEPT ![s] = v]
                    /\ step' = [step EXCEPT ![s] = step[s] * Factor]
                    /\ UNCHANGED <<loop, high>>)

\* ... then halves the gap, until the bounds are neighbours.
Bisect(s) ==
  /\ loop[s] = "bisect"
  /\ IF low[s] + 1 >= high[s]
     THEN /\ GoTo(s, "publish")
          /\ UNCHANGED <<published, pin, tried, searchVars, cacheVars, worldVars>>
     ELSE LET v == low[s] + (high[s] - low[s]) \div 2
          IN  Probe(s, v,
                    high' = [high EXCEPT ![s] = v] /\ UNCHANGED <<loop, low, step>>,
                    low' = [low EXCEPT ![s] = v] /\ UNCHANGED <<loop, high, step>>)

\* The result is stored for everybody, over whatever is there, and pinned.
Publish(s) ==
  /\ loop[s] = "publish"
  /\ published' = high[s]
  /\ pin' = [pin EXCEPT ![s] = high[s]]
  /\ GoTo(s, "idle") /\ EndSearch(s)
  /\ UNCHANGED <<tried, cacheVars, worldVars>>

SessionStep(s) ==
  \/ Resolve(s) \/ Login(s) \/ Refresh(s)
  \/ Check(s) \/ Escalate(s) \/ Bisect(s) \/ Publish(s)

FloorNext ==
  \/ RaiseFloor \/ GatewayMoves
  \/ \E h \in Sites : SiteDown(h)
  \/ \E h \in Sites : SiteBack(h)
  \/ \E s \in Sessions : SessionStep(s)
  \/ \E s \in Sessions : Disconnect(s)

FloorSpec == FloorInit /\ [][FloorNext]_floorVars

(***************************************************************************)
(* Properties                                                              *)
(***************************************************************************)

\* What is shared with every session is never above what the server demands,
\* whichever sessions search at once, however often the floor rises under a
\* search and although the refusal that began it may have been none (the
\* search_version_floor comment: a version one patch too high, and "a session
\* at a time, it climbs").  A failing probe must not read like a refusal for
\* this: ProbesMisread drops that condition.
NeverAboveTheFloor == published <= floor

\* Why it holds after the next step too, whatever the sessions are doing when
\* the floor rises: a version a session carries was the default or a published
\* one; the bound a search climbs or halves from was refused, so it stays below
\* the floor for good; and what it is about to publish is that bound's
\* neighbour, or the version it carried.
Searching == {"escalate", "bisect"}
VersionsTyped ==
  /\ floor \in Nat /\ published \in Nat
  /\ pin \in [Sessions -> Nat] /\ tried \in [Sessions -> Nat]
  /\ low \in [Sessions -> Nat] /\ high \in [Sessions -> Nat] /\ step \in [Sessions -> Nat]
  /\ loop \in [Sessions -> Stages]
CarriedIsDemanded == \A s \in Sessions : pin[s] <= floor /\ tried[s] <= floor
HintIsCarried == \A s \in Sessions : loop[s] = "check" => low[s] <= floor
RefusedStaysRefused == \A s \in Sessions : loop[s] \in Searching => low[s] < floor
ResultIsDemanded == \A s \in Sessions : loop[s] = "publish" => high[s] <= floor
FloorInv ==
  /\ VersionsTyped /\ Default <= floor /\ NeverAboveTheFloor /\ CarriedIsDemanded
  /\ HintIsCarried /\ RefusedStaysRefused /\ ResultIsDemanded
=============================================================================
