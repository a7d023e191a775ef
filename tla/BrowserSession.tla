--------------------------- MODULE BrowserSession ---------------------------
(***************************************************************************)
(* A browser tab of the control center and its session: sign-in, the       *)
(* refresh every five seconds, sign-out and reload in page.tsx, against    *)
(* the access tokens that the API issues (create_token) and checks         *)
(* (current_user).                                                         *)
(*                                                                         *)
(* A handler runs without interruption up to its next await.  React        *)
(* renders later, and only then is the effect of the old session cleaned   *)
(* up and the one of the new session started.                              *)
(***************************************************************************)
EXTENDS Naturals

CONSTANTS Calls,       \* refreshes that may be under way at once
          MaxLogins,   \* bound on successful sign-ins
          MaxReloads   \* bound on reloads of the page

ASSUME SessionAssumption == MaxLogins \in Nat /\ MaxReloads \in Nat

VARIABLES
  token,          \* relayflow-token in sessionStorage; 0 is none
  issued,         \* how many tokens the API has issued to this tab
  expired,        \* the tokens whose time is over
  authChecked, authenticated,
  shown,          \* authenticated as last rendered
  login,          \* whether a sign-in is under way
  effect,         \* the running effect; 0 when none is active
  effects,        \* how many were started
  calls,          \* the refreshes: the effect they belong to, the token they
                  \* read and how far they are
  dashboard, apiRuns,   \* the token whose data they show; 0 is none
  reloads

dataVars == <<dashboard, apiRuns>>
pageVars == <<authChecked, authenticated, shown, login, effect, effects>>
vars == <<token, issued, expired, pageVars, calls, dataVars, reloads>>

-----------------------------------------------------------------------------

None == 0
Tokens == 0 .. MaxLogins
Effects == 0 .. (MaxLogins + MaxReloads)
Stages == {"idle", "sent", "answered", "failed", "dashboard", "runs"}
NoCall == [effect |-> None, token |-> None, stage |-> "idle"]

TypeOK ==
  /\ token \in Tokens
  /\ issued \in Tokens
  /\ expired \subseteq Tokens
  /\ {authChecked, authenticated, shown, login} \subseteq BOOLEAN
  /\ effect \in Effects
  /\ effects \in Effects
  /\ calls \in [Calls -> [effect : Effects, token : Tokens, stage : Stages]]
  /\ dashboard \in Tokens
  /\ apiRuns \in Tokens
  /\ reloads \in 0 .. MaxReloads

Init ==
  /\ token = None
  /\ issued = 0
  /\ expired = {}
  /\ authChecked = FALSE /\ authenticated = FALSE /\ shown = FALSE
  /\ login = FALSE
  /\ effect = None
  /\ effects = 0
  /\ calls = [c \in Calls |-> NoCall]
  /\ dashboard = None /\ apiRuns = None
  /\ reloads = 0

-----------------------------------------------------------------------------
(* The page                                                                *)

\* The first effect restores the session of this tab.
Restore ==
  /\ ~authChecked
  /\ authChecked' = TRUE
  /\ authenticated' = (token # None)
  /\ UNCHANGED <<token, issued, expired, shown, login, effect, effects, calls,
                 dataVars, reloads>>

\* React renders what authenticated has become: the old effect is cleaned up
\* (active = false), and a new one starts when somebody is signed in.
Render ==
  /\ authChecked /\ shown # authenticated
  /\ shown' = authenticated
  /\ effect' = IF authenticated THEN effects + 1 ELSE None
  /\ effects' = IF authenticated THEN effects + 1 ELSE effects
  /\ UNCHANGED <<token, issued, expired, authChecked, authenticated, login,
                 calls, dataVars, reloads>>

\* The form is submitted.
Login ==
  /\ authChecked /\ ~shown /\ ~authenticated /\ ~login
  /\ login' = TRUE
  /\ UNCHANGED <<token, issued, expired, authChecked, authenticated, shown,
                 effect, effects, calls, dataVars, reloads>>

\* POST /auth/login answers: with a token that is stored, or not.
LoginAnswered ==
  /\ login
  /\ login' = FALSE
  /\ \/ /\ issued < MaxLogins
        /\ issued' = issued + 1
        /\ token' = issued + 1
        /\ authenticated' = TRUE
     \/ UNCHANGED <<issued, token, authenticated>>
  /\ UNCHANGED <<expired, authChecked, shown, effect, effects, calls,
                 dataVars, reloads>>

Logout ==
  /\ shown
  /\ token' = None
  /\ authenticated' = FALSE
  /\ dashboard' = None /\ apiRuns' = None
  /\ UNCHANGED <<issued, expired, authChecked, shown, login, effect, effects,
                 calls, reloads>>

\* The page is loaded again: sessionStorage is all that is left.
Reload ==
  /\ reloads < MaxReloads
  /\ reloads' = reloads + 1
  /\ authChecked' = FALSE /\ authenticated' = FALSE /\ shown' = FALSE
  /\ login' = FALSE
  /\ effect' = None
  /\ calls' = [c \in Calls |-> NoCall]
  /\ dashboard' = None /\ apiRuns' = None
  /\ UNCHANGED <<token, issued, expired, effects>>

-----------------------------------------------------------------------------
(* refresh                                                                 *)

Active(c) == calls[c].effect = effect /\ effect # None

At(c, stage) == calls[c].stage = stage
Goto(c, stage) == calls' = [calls EXCEPT ![c].stage = stage]
End(c) == calls' = [calls EXCEPT ![c] = NoCall]

\* What the catch clause does when its effect is active.
EndSession == token' = None /\ authenticated' = FALSE

\* A slip: what is shown already is not fetched again.
RefreshIfEmpty(c) ==
  /\ effect # None /\ At(c, "idle") /\ dashboard = None
  /\ calls' = [calls EXCEPT ![c] =
                 [effect |-> effect, token |-> token,
                  stage |-> IF token = None THEN "failed" ELSE "sent"]]
  /\ UNCHANGED <<token, issued, expired, pageVars, dataVars, reloads>>

\* The effect starts, or its timer fires.
Refresh(c) ==
  /\ effect # None /\ At(c, "idle")
  /\ calls' = [calls EXCEPT ![c] =
                 [effect |-> effect, token |-> token,
                  stage |-> IF token = None THEN "failed" ELSE "sent"]]
  /\ UNCHANGED <<token, issued, expired, pageVars, dataVars, reloads>>

\* current_user lets a token pass until it expires.  The API may be down, or
\* fail, for other reasons at any time.
Respond(c) ==
  /\ At(c, "sent")
  /\ \/ calls[c].token \notin expired /\ Goto(c, "answered")
     \/ Goto(c, "failed")
  /\ UNCHANGED <<token, issued, expired, pageVars, dataVars, reloads>>

\* Both responses are ok: active is looked at once, before the two awaits.
Accept(c) ==
  /\ At(c, "answered")
  /\ IF Active(c) THEN Goto(c, "dashboard") ELSE End(c)
  /\ UNCHANGED <<token, issued, expired, pageVars, dataVars, reloads>>

SetDashboard(c) ==
  /\ At(c, "dashboard")
  /\ \/ dashboard' = calls[c].token /\ Goto(c, "runs")
     \/ Goto(c, "failed") /\ UNCHANGED dashboard
  /\ UNCHANGED <<token, issued, expired, pageVars, apiRuns, reloads>>

SetApiRuns(c) ==
  /\ At(c, "runs")
  /\ \/ apiRuns' = calls[c].token /\ End(c)
     \/ Goto(c, "failed") /\ UNCHANGED apiRuns
  /\ UNCHANGED <<token, issued, expired, pageVars, dashboard, reloads>>

\* Slips: the catch clause does not look at active; it does nothing.
CatchAlways(c) ==
  /\ At(c, "failed")
  /\ End(c)
  /\ EndSession
  /\ UNCHANGED <<issued, expired, authChecked, shown, login, effect, effects,
                 dataVars, reloads>>
CatchNothing(c) ==
  /\ At(c, "failed")
  /\ End(c)
  /\ UNCHANGED <<token, issued, expired, pageVars, dataVars, reloads>>

\* The catch clause: whatever failed, the session of an active effect ends.
Catch(c) ==
  /\ At(c, "failed")
  /\ End(c)
  /\ IF Active(c) THEN EndSession ELSE UNCHANGED <<token, authenticated>>
  /\ UNCHANGED <<issued, expired, authChecked, shown, login, effect, effects,
                 dataVars, reloads>>

\* access_token_minutes have passed.
Expire(k) ==
  /\ k \in 1 .. issued \ expired
  /\ expired' = expired \cup {k}
  /\ UNCHANGED <<token, issued, pageVars, calls, dataVars, reloads>>

-----------------------------------------------------------------------------

Work(c) ==
  \/ Respond(c) \/ Accept(c) \/ SetDashboard(c) \/ SetApiRuns(c) \/ Catch(c)

Next ==
  \/ Restore \/ Render \/ Login \/ LoginAnswered \/ Logout \/ Reload
  \/ \E c \in Calls : Refresh(c) \/ Work(c)
  \/ \E k \in Tokens : Expire(k)

Spec == Init /\ [][Next]_vars

\* The browser runs effects, renders and timers, and requests come to
\* an end.  Users owe nothing, and tokens may or may not expire.
Fairness ==
  /\ WF_vars(Restore) /\ WF_vars(Render)
  /\ \A c \in Calls : WF_vars(Refresh(c)) /\ WF_vars(Work(c))

FairSpec == Spec /\ Fairness

-----------------------------------------------------------------------------
(* Properties                                                              *)

\* A session ends because its user signs out, or because of a refresh sent in
\* that session: the failure of an earlier one, reported late, ends nothing.
OnlyItsOwnCallsEndASession ==
  [][token # None /\ token' # token =>
       \/ Logout
       \/ \E c \in Calls :
            calls[c].token = token /\ At(c, "failed") /\ Catch(c)]_vars

\* Nobody stays in a session whose token has expired.
ExpiredSessionEnds ==
  \A k \in 1 .. MaxLogins : (token = k /\ k \in expired) ~> token # k

\* Data that a refresh of an earlier session still writes is replaced: in the
\* end the page shows what the signed-in user's token was answered.
OwnDataInTheEnd ==
  <>[](token # None => dashboard = token /\ apiRuns = token)
=============================================================================
