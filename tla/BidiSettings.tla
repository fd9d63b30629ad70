----------------------------- MODULE BidiSettings -----------------------------
(***************************************************************************)
(* The BiDi commands that set something for a part of the browser: what    *)
(* each struct is on the wire (bidi/modules/emulation.rs, network.rs,      *)
(* browsing_context.rs, browser.rs), and what a remote end makes of it.    *)
(*                                                                         *)
(* A command has a value and a scope: browsing contexts, or user contexts, *)
(* or, when both fields are left out, every context there is or will be.   *)
(* A field that is left out is the empty set here.  Of the values that a   *)
(* setting can have, two are told apart; for a flag they are its own.      *)
(***************************************************************************)
EXTENDS Sequences, SequencesExt

CONSTANT Unset  \* None: the setting is to be cleared

ASSUME UnsetAssumption == Unset \notin {"on", "off", "null", "absent"}

Values == {"on", "off"}

\* An Option that goes as null, and one that is left out (skip_serializing_if).
Nullable(v)  == IF v = Unset THEN "null" ELSE v
Skippable(v) == IF v = Unset THEN "absent" ELSE v

\* Mutant: the key of user_contexts is not one the remote end knows.
ParamsUnscoped(value, contexts, users) == [value |-> value, contexts |-> contexts, users |-> {}]

Params(value, contexts, users) == [value |-> value, contexts |-> contexts, users |-> users]

-----------------------------------------------------------------------------
(* emulation.* *)
SetForcedColorsModeThemeOverride(v, c, u) == Params(Nullable(v), c, u)
SetGeolocationOverride(v, c, u)           == Params(Skippable(v), c, u)
SetLocaleOverride(v, c, u)                == Params(Nullable(v), c, u)
SetNetworkConditions(v, c, u)             == Params(Nullable(v), c, u)
SetScreenSettingsOverride(v, c, u)        == Params(Nullable(v), c, u)
SetScreenOrientationOverride(v, c, u)     == Params(Nullable(v), c, u)
SetUserAgentOverride(v, c, u)             == Params(Nullable(v), c, u)
SetScrollbarTypeOverride(v, c, u)         == Params(Nullable(v), c, u)
SetTimezoneOverride(v, c, u)              == Params(Nullable(v), c, u)
SetTouchOverride(v, c, u)                 == Params(Nullable(v), c, u)

\* serialize_disable_only: there is no way to say that scripts may run.
SetScriptingEnabled(v, c, u) == Params(IF v = "off" THEN "off" ELSE "null", c, u)

(* browsingContext.* *)

\* serialize_bypass: there is no way to say that the policy holds.
SetBypassCsp(v, c, u) == Params(IF v = "on" THEN "on" ELSE "null", c, u)

\* For one context, and with device_pixel_ratio left out.
SetViewport(v, c) == Params(Skippable(v), c, {})

(* network.*: neither can be cleared. *)
SetCacheBehavior(v, c, u) == Params(v, c, u)
SetExtraHeaders(v, c, u)  == Params(v, c, u)

(* browser.* *)
SetDownloadBehavior(v, u) == Params(Nullable(v), {}, u)

Settings == {"theme", "geolocation", "locale", "network", "screen", "orientation", "user_agent", "scrollbar",
             "timezone", "touch", "scripting", "csp", "viewport", "cache", "headers", "download"}

Request(setting, v, c, u) ==
    CASE setting = "theme"       -> SetForcedColorsModeThemeOverride(v, c, u)
      [] setting = "geolocation" -> SetGeolocationOverride(v, c, u)
      [] setting = "locale"      -> SetLocaleOverride(v, c, u)
      [] setting = "network"     -> SetNetworkConditions(v, c, u)
      [] setting = "screen"      -> SetScreenSettingsOverride(v, c, u)
      [] setting = "orientation" -> SetScreenOrientationOverride(v, c, u)
      [] setting = "user_agent"  -> SetUserAgentOverride(v, c, u)
      [] setting = "scrollbar"   -> SetScrollbarTypeOverride(v, c, u)
      [] setting = "timezone"    -> SetTimezoneOverride(v, c, u)
      [] setting = "touch"       -> SetTouchOverride(v, c, u)
      [] setting = "scripting"   -> SetScriptingEnabled(v, c, u)
      [] setting = "csp"         -> SetBypassCsp(v, c, u)
      [] setting = "viewport"    -> SetViewport(v, c)
      [] setting = "cache"       -> SetCacheBehavior(v, c, u)
      [] setting = "headers"     -> SetExtraHeaders(v, c, u)
      [] setting = "download"    -> SetDownloadBehavior(v, u)

\* The methods of the modules set it for all contexts.
Everywhere(setting, v) == Request(setting, v, {}, {})

\* What a caller can ask of each.
Asks(setting, v, c, u) ==
    /\ v = Unset => setting \notin {"cache", "headers"}
    /\ setting = "viewport" => c # {} /\ u = {}
    /\ setting = "download" => c = {}

-----------------------------------------------------------------------------
(* The remote end: no command has two scopes, and a value is required, but
   for a viewport, where what is left out stays as it is. *)
Everyone == "everyone"
Scope(cmd) == IF cmd.contexts \cup cmd.users = {} THEN {Everyone} ELSE cmd.contexts \cup cmd.users

Accepted(setting, cmd) ==
    /\ cmd.contexts = {} \/ cmd.users = {}
    /\ cmd.value = "absent" => setting = "viewport"

\* The settings of the scopes, after the command.
Stored(settings, cmd) ==
    [s \in DOMAIN settings |->
        IF s \notin Scope(cmd) \/ cmd.value = "absent" THEN settings[s]
        ELSE IF cmd.value = "null" THEN Unset ELSE cmd.value]

\* The one that counts, of the most specific scope first.
FirstSet(values) == IF \E i \in DOMAIN values : values[i] # Unset
                    THEN values[SelectInSeq(values, LAMBDA v : v # Unset)] ELSE Unset

-----------------------------------------------------------------------------
(* The reference, in the words of the documentation: None clears what was
   set, and so do the values of a flag that cannot be sent. *)
Meant(setting, v) == IF <<setting, v>> \in {<<"scripting", "on">>, <<"csp", "off">>} THEN Unset ELSE v

\* The last of the calls that were made for that scope.
LastFor(calls, Covers(_)) ==
    LET i == SelectLastInSeq(calls, Covers) IN IF i = 0 THEN Unset ELSE calls[i].value

Wanted(calls, context, user) ==
    FirstSet(<<LastFor(calls, LAMBDA x : context \in x.contexts),
               LastFor(calls, LAMBDA x : user \in x.users),
               LastFor(calls, LAMBDA x : x.contexts \cup x.users = {})>>)
=============================================================================
