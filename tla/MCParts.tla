-------------------------------- MODULE MCParts --------------------------------
(***************************************************************************)
(* The parts of the server that share no state with one another nor with   *)
(* the feed and the accounts, checked side by side: a behaviour is one of  *)
(* the part it starts with, and the others stay where they began.          *)
(***************************************************************************)
EXTENDS OscilloScale, CpuSample, Rates, NeighborIdentity, RdapCache, VersionCache,
        Branding, StartupHistory, ServerLife, BuildLock, SessionCookie, TLC

VARIABLE part

\* Readings at both ends of each range, in the middle, and unknown; and with a
\* counter that slipped, where the highest frequency is known and where it is not.
MCSamples ==
  [cpu : {0, 8000, CpuFull}, freq : {0, 1200}, mem : {0, 500}]
    \cup [cpu : {-40000}, freq : {0, -100001}, mem : {500}]

\* A maker of each kind, public and private, on a virtual interface and not.
See(public, mac, vif) == [public |-> public, mac |-> mac, vif |-> vif]
MCSights ==
  {See(FALSE, "virtual", TRUE), See(TRUE, "virtual", FALSE), See(FALSE, "access point", FALSE),
   See(TRUE, "access point", TRUE), See(FALSE, "maker", TRUE), See(TRUE, "nobody", FALSE),
   See(FALSE, "nobody", FALSE)}

\* No name; names that are shadowed, that lack a role, that others come before.
For(ip, mac, role) == [ip |-> ip, mac |-> mac, host |-> role]
MCNameLists ==
  {<< >>, <<For(TRUE, TRUE, "printer")>>, <<For(FALSE, TRUE, "server")>>,
   <<For(FALSE, TRUE, "router"), For(TRUE, FALSE, "unknown")>>,
   <<For(TRUE, TRUE, None), For(TRUE, FALSE, "router")>>}

\* A registrant that is an organisation, after one that is not; none at all.
Entity(fn, kind) == [registrant |-> TRUE, fn |-> fn, kind |-> kind]
MCPayloads ==
  {[entities |-> <<Entity("person", "individual"), Entity("isp", "org")>>, name |-> "net"],
   [entities |-> << >>, name |-> "net"]}

\* 1.9.5 is the lowest number, and the greatest text. The last is published in
\* the run: then all three and the other tag do not fit on a page.
MCVersions == {<<1, 9, 5>>, <<1, 10, 0>>, <<1, 11, 0>>}

MCHosts == {{"boot_id", "uptime"}, {"boot_id"}, {"uptime"}}

\* What follows an event that may end the session is not looked at.
MCFollowed == ~excused

\* Cores, interfaces, requests, clients and shells are the same two values, each
\* two of them interchangeable.
MCSymmetry == Permutations(Cores)

\* A setting that main and New do not come to look at is FALSE: its value makes no
\* difference.
MCSettings ==
  {s \in Setting : /\ ~s.sound => ~s.http3
                   /\ ~s.http3 => ~s.cert /\ ~s.redirect
                   /\ ~s.cert => ~s.key
                   /\ ~s.key => ~s.loads}

\* What a part's beginning leaves open is open where that part is the one.
MCInit ==
  /\ part \in {"scales", "cpu", "rates", "identity", "rdap", "versions", "branding",
               "history", "life", "builds", "session"}
  /\ OscInit /\ CpuInit /\ RatesInit /\ IdentityInit /\ RdapInit /\ VersionInit
  /\ BrandInit /\ HistInit /\ LifeInit /\ BuildInit /\ CookieInit
  /\ part # "identity" => inventory = None
  /\ IF part = "versions" THEN published[<<1, 11, 0>>] = Never
                          ELSE published = [v \in MCVersions |-> 0]
  /\ part # "history" => host = {"boot_id"}
  /\ part # "session" => email = [p \in Persons |-> IF p = "user" THEN "a" ELSE "b"]
  /\ part # "life" => settings = CHOOSE s \in MCSettings : TRUE

MCNext ==
  \/ /\ part = "scales" /\ OscNext
     /\ UNCHANGED <<part, cpuVars, rateVars, identityVars, rdapVars, versionVars,
                    brandVars, histVars, lifeVars, buildVars, cookieVars>>
  \/ /\ part = "cpu" /\ CpuNext
     /\ UNCHANGED <<part, oscVars, rateVars, identityVars, rdapVars, versionVars,
                    brandVars, histVars, lifeVars, buildVars, cookieVars>>
  \/ /\ part = "rates" /\ RatesNext
     /\ UNCHANGED <<part, oscVars, cpuVars, identityVars, rdapVars, versionVars,
                    brandVars, histVars, lifeVars, buildVars, cookieVars>>
  \/ /\ part = "identity" /\ IdentityNext
     /\ UNCHANGED <<part, oscVars, cpuVars, rateVars, rdapVars, versionVars,
                    brandVars, histVars, lifeVars, buildVars, cookieVars>>
  \/ /\ part = "rdap" /\ RdapNext
     /\ UNCHANGED <<part, oscVars, cpuVars, rateVars, identityVars, versionVars,
                    brandVars, histVars, lifeVars, buildVars, cookieVars>>
  \/ /\ part = "versions" /\ VersionNext
     /\ UNCHANGED <<part, oscVars, cpuVars, rateVars, identityVars, rdapVars,
                    brandVars, histVars, lifeVars, buildVars, cookieVars>>
  \/ /\ part = "branding" /\ BrandNext
     /\ UNCHANGED <<part, oscVars, cpuVars, rateVars, identityVars, rdapVars,
                    versionVars, histVars, lifeVars, buildVars, cookieVars>>
  \/ /\ part = "history" /\ HistNext
     /\ UNCHANGED <<part, oscVars, cpuVars, rateVars, identityVars, rdapVars,
                    versionVars, brandVars, lifeVars, buildVars, cookieVars>>
  \/ /\ part = "life" /\ LifeNext
     /\ UNCHANGED <<part, oscVars, cpuVars, rateVars, identityVars, rdapVars,
                    versionVars, brandVars, histVars, buildVars, cookieVars>>
  \/ /\ part = "builds" /\ BuildNext
     /\ UNCHANGED <<part, oscVars, cpuVars, rateVars, identityVars, rdapVars,
                    versionVars, brandVars, histVars, lifeVars, cookieVars>>
  \/ /\ part = "session" /\ CookieNext
     /\ UNCHANGED <<part, oscVars, cpuVars, rateVars, identityVars, rdapVars,
                    versionVars, brandVars, histVars, lifeVars, buildVars>>

MCVars ==
  <<part, oscVars, cpuVars, rateVars, identityVars, rdapVars, versionVars, brandVars,
    histVars, lifeVars, buildVars, cookieVars>>

MCSpec == MCInit /\ [][MCNext]_MCVars
===============================================================================
