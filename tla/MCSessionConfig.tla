-------------------------- MODULE MCSessionConfig --------------------------
(* SessionConfig, and the launches it is over, for TLC. *)
EXTENDS SessionConfig, FiniteSets

MCValues == {"default", "p1", "p2", "ua", "42s", "h", "null", "m", "path1", "path2", "f", "g"}

MCVersions == {<<90, 1>>, <<115, 1>>, <<115, 2>>}

MCRequests == {<<90>>, <<115>>, <<115, 1>>}

MCScripts == {<<>>, <<Call("keep_alive", FALSE), Call("poller", "p1")>>, <<Call("user_agent", Refused)>>,
              <<Call("user_agent", Refused), Call("user_agent", "ua"), Call("request_timeout", "42s")>>}

MCCalls == {Call("match_local", None), Call("latest", None), Call("from_caps", None), Call("exact", <<115>>),
            Call("offline", TRUE), Call("offline", FALSE), Call("host", "h"), Call("stdio", "null"),
            Call("edge_downloads", "m"), Call("chrome_metadata", "m"), CallFor("firefox", "path1"), CallFor("firefox", "path2"),
            Call("config", <<Call("keep_alive", FALSE), Call("poller", "p1")>>), Call("config", <<>>),
            Call("poller", "p2"), Call("subscribe", "f"), Call("subscribe", "g")}

MCBuilders == UNION {[1 .. n -> MCCalls] : n \in 0 .. 2}

(* The cache holds one driver at most, one browser is upgraded, and upstream
   has always had a driver for the oldest. *)
Small == Cardinality(cache) <= 1 /\ Cardinality(upgraded) <= 1 /\ <<90, 1>> \in upstream

(* The manager has a version, and nothing else, of its own. *)
Plain == cfg = [ManagerOf(<<>>) EXCEPT !.version = cfg.version]

(* The world stands still under any other manager, and with a session open,
   which is one that needs no browser, of a manager with a configuration. *)
Still == upgraded = {} /\ reachable /\ Cardinality(upstream) = 1 /\ \A p \in Paths \ {"custom"} : installed[p] = None

Bounded == /\ Small
           /\ Plain \/ Still
           /\ stores > 0 => /\ Still /\ installed["custom"] = None /\ launch.step = "none"
                            /\ cfg = [ManagerOf(<<Call("latest", None)>>) EXCEPT !.config = cfg.config]
=============================================================================
