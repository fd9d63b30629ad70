--------------------------- MODULE DriverVersions ---------------------------
(***************************************************************************)
(* Which driver version a browser gets: resolve_version and what it calls  *)
(* (thirtyfour/src/manager/download.rs), BrowserKind::from_capabilities    *)
(* and detect_local_version (manager/browser.rs), DriverVersion            *)
(* (manager/version.rs).                                                   *)
(*                                                                         *)
(* These are functions of what the user asked for, what is installed and   *)
(* what the upstream servers say.  A full version is <<major, build>>, a   *)
(* request without a dot is <<major>>, a geckodriver tag is a number, and  *)
(* None is the absence of a version, for whatever ManagerError.            *)
(***************************************************************************)
EXTENDS Naturals, Sequences, Functions

CONSTANTS
  None,     \* no version
  System    \* the version of a driver that comes with the system

(* BrowserKind::from_capabilities, after to_ascii_lowercase. *)
FromCapabilities(name) ==
  CASE name \in {"chrome", "chromium"}                -> "chrome"
    [] name = "firefox"                               -> "firefox"
    [] name \in {"microsoftedge", "msedge", "edge"}   -> "edge"
    [] name = "safari"                                -> "safari"
    [] OTHER                                          -> None

(* The places where detect_local_version looks, in order (Linux). *)
CandidatePaths(browser) ==
  CASE browser = "chrome"  -> <<"google-chrome", "google-chrome-stable", "chromium", "chromium-browser">>
    [] browser = "firefox" -> <<"firefox", "firefox-esr">>
    [] browser = "edge"    -> <<"microsoft-edge", "microsoft-edge-stable">>
    [] browser = "safari"  -> <<>>

(* detect_local_version: the first of the candidates that tells its version;
   a binary named in the capabilities is the only candidate. *)
DetectLocalVersion(browser, custom, installed) ==
  LET paths == IF custom = None THEN CandidatePaths(browser) ELSE <<custom>>
      found == {k \in DOMAIN paths : installed[paths[k]] # None}
  IN  IF found = {} THEN None
      ELSE installed[paths[CHOOSE k \in found : \A j \in found : k <= j]]

-----------------------------------------------------------------------------
(* geckodriver *)

Geckodriver(version, min, max) == [version |-> version, min_firefox |-> min, max_firefox |-> max]

(* GECKODRIVER_RELEASES, highest first: 360 is 0.36.0, 322 is 0.32.2. *)
GeckodriverReleases ==
  << Geckodriver(360, 128, None), Geckodriver(350, 115, None), Geckodriver(340, 115, None),
     Geckodriver(330, 102, 120), Geckodriver(322, 102, 120), Geckodriver(310, 91, 120),
     Geckodriver(300, 78, 90), Geckodriver(291, 60, 90) >>

Covers(r, m) == m >= r.min_firefox /\ (r.max_firefox = None \/ m <= r.max_firefox)

(* The first release of the table that covers Firefox m. *)
GeckodriverFor(m) ==
  LET found == {k \in 1 .. Len(GeckodriverReleases) : Covers(GeckodriverReleases[k], m)}
  IN  IF found = {} THEN None
      ELSE GeckodriverReleases[CHOOSE k \in found : \A j \in found : k <= j].version

FirefoxLatest == GeckodriverReleases[1].version

-----------------------------------------------------------------------------
(* chromedriver and msedgedriver *)

SameMajor(v, w) == v[1] = w[1]
Full(v) == Len(v) = 2

(* sort_semver *)
Older(v, w) == v[1] < w[1] \/ (SameMajor(v, w) /\ v[2] < w[2])
Newest(vs) == CHOOSE w \in vs : \A x \in vs : ~Older(w, x)

(* resolve_chrome_exact: the version itself if the index of
   Chrome-for-Testing has it, else the newest of its major. *)
ResolveChromeExact(v, index) ==
  IF Full(v) /\ v \in index THEN v
  ELSE LET matches == {w \in index : SameMajor(w, v)}
       IN  IF matches = {} THEN None ELSE Newest(matches)

(* resolve_edge_exact: a full version is trusted, a major is looked up, and
   an upstream that does not know the major gives the latest stable. *)
ResolveEdgeExact(v, index, latest) ==
  IF Full(v) THEN v
  ELSE LET matches == {w \in index : SameMajor(w, v)}
       IN  IF matches = {} THEN latest ELSE Newest(matches)

(* The version of a driver for version v of a browser. *)
DriverFor(browser, v, index, latest) ==
  CASE browser = "chrome"  -> ResolveChromeExact(v, index)
    [] browser = "edge"    -> ResolveEdgeExact(v, index, latest)
    [] browser = "firefox" -> GeckodriverFor(v[1])
    [] browser = "safari"  -> System

(* resolve_version, once the version asked for is known: for Latest it is
   None, an Exact version of Firefox is the tag of a geckodriver. *)
ResolveVersion(browser, spec, asked, index, latest) ==
  IF browser = "safari" THEN System
  ELSE IF spec = "latest" THEN IF browser = "firefox" THEN FirefoxLatest ELSE latest
  ELSE IF asked = None THEN None
  ELSE IF spec = "exact" /\ browser = "firefox" THEN asked[1]
  ELSE DriverFor(browser, asked, index, latest)

(* The requests resolve_version makes: all but the table of geckodrivers is
   upstream. *)
AsksUpstream(browser, spec, asked) ==
  \/ browser = "chrome" /\ (spec = "latest" \/ asked # None)
  \/ browser = "edge" /\ (spec = "latest" \/ (asked # None /\ ~Full(asked)))

=============================================================================
