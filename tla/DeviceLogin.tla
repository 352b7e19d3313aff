---------------------------- MODULE DeviceLogin -----------------------------
(***************************************************************************)
(* Getting an API token with a device code: the poller of tunnel-cli       *)
(* ("cli", main.cpp), the one of the settings page ("gui",                 *)
(* SettingsPage.cpp), and the two loops of tunnel-lite login, through the  *)
(* control channel ("ws") and over HTTP ("http"), with the server's        *)
(* /auth/device/poll, which asks the identity provider and issues the      *)
(* token.  The Qt pollers are driven by a timer and do not wait for the    *)
(* answer of the poll before; the loops of tunnel-lite do.                 *)
(***************************************************************************)
EXTENDS Naturals

CONSTANT MaxPolls \* bound: polls made

Poll == 1 .. MaxPolls
Qt == {"cli", "gui"}

VARIABLES
  login,      \* who logs in; "token": the token is given
  code,       \* the device code at the provider: none, denied (no code), pending,
              \* granted, used, refused
  poller,     \* whether the client polls
  poll,       \* poll |-> none, asked, signed (in by the provider), answer on its way, done
  token,      \* whether the client has a token
  exit,       \* exit code; "none" while it runs
  overlapped, \* history: a poll was on its way when the token came
  wasted      \* history: the provider granted the code and the token was lost

loginVars == <<login, code, poller, poll, token, exit, overlapped, wasted>>

LoginInit ==
  /\ login \in {"cli", "gui", "ws", "http", "token"}
  /\ code = "none" /\ poller = FALSE
  /\ poll = [p \in Poll |-> "none"]
  /\ token = (login = "token")
  /\ exit = "none" /\ overlapped = FALSE /\ wasted = FALSE

Exited == exit # "none"
OnItsWay == {p \in Poll : poll[p] \notin {"none", "done"}}

\* Api::failed, or the ends of loginMain: the command line exits with 3, the
\* settings page stops its timer, tunnel-lite returns 1.
Failed ==
  /\ poller' = FALSE
  /\ exit' = CASE login = "cli" -> "3" [] login = "gui" -> "none" [] OTHER -> "1"

\* deviceStart and its answer; one device code is followed.
DeviceStart ==
  /\ code = "none" /\ login # "token" /\ ~Exited
  /\ \/ code' = "pending" /\ poller' = TRUE /\ UNCHANGED exit
     \/ code' = "denied" /\ Failed
  /\ UNCHANGED <<login, poll, token, overlapped, wasted>>

\* The user at the provider, or the code expires.
Decide ==
  /\ code = "pending" /\ code' \in {"granted", "refused"}
  /\ UNCHANGED <<login, poller, poll, token, exit, overlapped, wasted>>

\* The next poll: at every tick with Qt, after the last answer with tunnel-lite.
Tick ==
  /\ poller /\ ~Exited
  /\ login \notin Qt => OnItsWay = {}
  /\ \E p \in Poll : poll[p] = "none" /\ (\A q \in Poll : q < p => poll[q] # "none")
                     /\ poll' = [poll EXCEPT ![p] = "asked"]
  /\ UNCHANGED <<login, code, poller, token, exit, overlapped, wasted>>

Step(p, from, to) == poll[p] = from /\ poll' = [poll EXCEPT ![p] = to]

\* device_poll asks the provider, which grants a code once.
AskProvider(p) ==
  /\ \/ code = "pending" /\ Step(p, "asked", "pending") /\ UNCHANGED code
     \/ code = "granted" /\ Step(p, "asked", "signed") /\ code' = "used"
     \/ code \in {"used", "refused"} /\ Step(p, "asked", "error") /\ UNCHANGED code
     \/ Step(p, "asked", "bad") /\ UNCHANGED code
  /\ UNCHANGED <<login, poller, token, exit, overlapped, wasted>>

\* verify_id_token, upsert_from_claims and create_api_token, each of which may fail.
Issue(p) ==
  /\ \/ Step(p, "signed", "ok") /\ UNCHANGED wasted
     \/ Step(p, "signed", "bad") /\ wasted' = TRUE
  /\ UNCHANGED <<login, code, poller, token, exit, overlapped>>

\* The call or its answer is lost.
Lose(p) ==
  /\ \E s \in {"asked", "pending", "ok", "error", "bad"} : Step(p, s, "lost")
  /\ wasted' = (wasted \/ poll[p] = "ok")
  /\ UNCHANGED <<login, code, poller, token, exit, overlapped>>

Answered(p) == poll[p] \in {"pending", "ok", "error", "bad", "lost"} /\ ~Exited
               /\ poll' = [poll EXCEPT ![p] = "done"]

\* Mutant: the timer is not stopped.
TokenReceivedPollsOn(p) ==
  /\ poll[p] = "ok" /\ Answered(p)
  /\ token' = TRUE
  /\ exit' = IF login \in Qt THEN "none" ELSE "0"
  /\ overlapped' = (OnItsWay # {p})
  /\ UNCHANGED <<login, code, poller, wasted>>

\* tokenReceived, or the end of the loop.
TokenReceived(p) ==
  /\ poll[p] = "ok" /\ Answered(p)
  /\ token' = TRUE /\ poller' = FALSE
  /\ exit' = IF login \in Qt THEN "none" ELSE "0"
  /\ overlapped' = (OnItsWay # {p})
  /\ UNCHANGED <<login, code, wasted>>

\* Mutant: a channel that fails ends the login.
FatalWhenLost == IF login \in Qt THEN {"error", "bad", "lost"} ELSE {"error", "lost"}

\* The answers that end the login.  An error status of the server is an answer
\* without a status to the loops of tunnel-lite, which go on; so does the one
\* through the control channel when the channel fails.
Fatal == CASE login \in Qt     -> {"error", "bad", "lost"}
           [] login = "http"   -> {"error", "lost"}
           [] OTHER            -> {"error"}

PollFails(p) ==
  /\ poll[p] \in Fatal /\ Answered(p) /\ Failed
  /\ UNCHANGED <<login, code, token, overlapped, wasted>>

PollAgain(p) ==
  /\ poll[p] \notin Fatal \cup {"ok"} /\ Answered(p)
  /\ UNCHANGED <<login, code, poller, token, exit, overlapped, wasted>>

\* Every step but the one that hands the token over.
LoginStep ==
  \/ DeviceStart \/ Decide \/ Tick
  \/ \E p \in Poll : AskProvider(p) \/ Issue(p) \/ Lose(p) \/ PollFails(p) \/ PollAgain(p)

-----------------------------------------------------------------------------
(* Properties.                                                             *)

\* A client that has its token does not give it up: the command line exits with 3
\* after a login only when a second poll was on its way as the token came.
LoginKept == token /\ exit \in {"1", "3"} => overlapped

\* The login through the control channel outlives lost channels and failing polls:
\* it ends in failure only when there never was a code, the code was refused, or
\* the token it stands for was lost after the provider had granted it.
FailsForAReason ==
  login = "ws" /\ exit = "1" => code \in {"denied", "refused"} \/ wasted

=============================================================================
