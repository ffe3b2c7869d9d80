------------------------------- MODULE SignIn -------------------------------
(***************************************************************************)
(* A sign in (SignIn in src/internal/agent/signin.go): the agent requests  *)
(* a device code, shows it, polls Microsoft until the user has answered on *)
(* a phone (src/internal/msauth/devicecode.go), and walks the Xbox chain   *)
(* to a Minecraft profile (src/internal/msauth/xbox.go).                   *)
(*                                                                         *)
(* The client's state is phase, wait, interval and outcome; the user and   *)
(* the service are its environment, modelled as far as the client's code   *)
(* depends on them.  Time passes in units of the code's five seconds.      *)
(***************************************************************************)
EXTENDS Integers

CONSTANTS
    Advertised,     \* the values the service's "interval" field can have
    Lifetime        \* "expires_in": how long a device code is good for

ASSUME TimeAssumption == Advertised \subseteq Int /\ Lifetime \in Nat

VARIABLES
    phase,      \* what the client is doing
    wire,       \* the client's one HTTP exchange
    wait,       \* what is left of the timer between two polls
    interval,   \* PollForToken's interval
    outcome,    \* what SignIn returned
    cancelled,  \* the context SignIn was given is cancelled
    clientID,   \* a client id is configured
    user,       \* what the user has answered on the phone
    owner,      \* the user's account owns the game
    age,        \* how long ago the device code was issued
    quiet,      \* how long ago the service last heard of this code
    demand      \* how long the service wants it to be quiet

client == <<phase, wait, interval, outcome>>
world == <<cancelled, clientID, user, owner>>
clock == <<age, quiet, demand>>
vars == <<client, wire, world, clock>>

\* The unit of time is 5 seconds: the default interval and the step of a
\* slow_down are both one unit.
Default == 1
Backoff == 1

\* Bound: no clock counts beyond the life of a code.
Later(t) == IF t > Lifetime THEN t ELSE t + 1

Hops == {"xbl", "xsts", "login", "profile"}
Asking == {"start", "poll"} \cup Hops
Phases == Asking \cup {"wait", "done", "failed"}
Ended == phase \in {"done", "failed"}
Failures == {"cancelled", "transport", "refused", "noClientID", "declined",
             "expired", "noEntitlement"}

After(hop) == CASE hop = "xbl" -> "xsts"
                [] hop = "xsts" -> "login"
                [] hop = "login" -> "profile"

\* What the service expects between polls: an absent "interval" means five
\* seconds (the device grant's default, which PollInterval's fallback matches).
Expected(advertised) == IF advertised > 0 THEN advertised ELSE Default

\* Mutation: the fallback is forgotten.
PollIntervalRaw(advertised) == advertised

\* DeviceCode.PollInterval: a missing or senseless interval is five seconds.
PollInterval(advertised) == IF advertised <= 0 THEN Default ELSE advertised

Init == /\ phase = "start"
        /\ wire = "idle"
        /\ wait = 0
        /\ interval = 0
        /\ outcome = "none"
        /\ cancelled = FALSE
        /\ clientID \in BOOLEAN
        /\ user = "away"
        /\ owner \in BOOLEAN
        /\ age = 0
        /\ quiet = 0
        /\ demand = 0

Fail(why) == /\ phase' = "failed"
             /\ outcome' = why
             /\ wire' = "idle"
             /\ UNCHANGED <<wait, interval, world, clock>>

-----------------------------------------------------------------------------
(* The client.                                                             *)

\* SignIn without a client id.
NoClientID == /\ phase = "start"
              /\ ~clientID
              /\ Fail("noClientID")

\* A request goes out: the device code, a poll, or the next hop of the chain.
\* A cancelled context sends nothing.
Ask == /\ phase \in Asking
       /\ phase = "start" => clientID
       /\ wire = "idle"
       /\ ~cancelled
       /\ wire' = "asked"
       /\ UNCHANGED <<client, world, clock>>

\* case <-c.after(interval)
TimerFires == /\ phase = "wait"
              /\ wait = 0
              /\ phase' = "poll"
              /\ UNCHANGED <<wire, wait, interval, outcome, world, clock>>

\* case <-ctx.Done(), or a request that the cancelled context breaks.
Cancelled == /\ cancelled
             /\ phase \in Asking \cup {"wait"}
             /\ phase = "start" => clientID
             /\ Fail("cancelled")

\* The exchange fails: no connection, the client's 30 second timeout, a
\* status without an OAuth error, a body that does not decode, or an OAuth
\* error PollForToken has no case for.  No poll is repeated.
Broken == /\ phase \in Asking
          /\ wire # "idle"
          /\ Fail("transport")

\* The device code arrives and is shown; the first wait begins.
CodeArrives == /\ phase = "start"
               /\ wire = "ok"
               /\ \E advertised \in Advertised :
                    /\ interval' = PollInterval(advertised)
                    /\ demand' = Expected(advertised)
               /\ phase' = "wait"
               /\ wait' = interval'
               /\ wire' = "idle"
               /\ age' = 0
               /\ quiet' = 0
               /\ UNCHANGED <<outcome, world>>

\* authorization_pending
StillPending == /\ phase = "poll"
                /\ wire = "pending"
                /\ phase' = "wait"
                /\ wait' = interval
                /\ wire' = "idle"
                /\ UNCHANGED <<interval, outcome, world, clock>>

\* Mutation: slow_down delays the next poll only.
SlowDownOnce == /\ phase = "poll"
                /\ wire = "slow_down"
                /\ phase' = "wait"
                /\ wait' = interval + Backoff
                /\ wire' = "idle"
                /\ UNCHANGED <<interval, outcome, world, clock>>

\* slow_down: this wait and every later one is five seconds longer.
SlowDown == /\ phase = "poll"
            /\ wire = "slow_down"
            /\ interval' = interval + Backoff
            /\ phase' = "wait"
            /\ wait' = interval'
            /\ wire' = "idle"
            /\ UNCHANGED <<outcome, world, clock>>

\* Mutation: the two refusals are mistaken for one another.
RefusedAlike == /\ phase = "poll"
                /\ wire \in {"declined", "expired"}
                /\ Fail("expired")

\* Mutation: an expired code is polled on.
RefusedPollsOn == /\ phase = "poll"
                  /\ \/ wire = "declined" /\ Fail("declined")
                     \/ /\ wire = "expired"
                        /\ phase' = "wait"
                        /\ wait' = interval
                        /\ wire' = "idle"
                        /\ UNCHANGED <<interval, outcome, world, clock>>

\* authorization_declined, expired_token and code_expired.
Refused == /\ phase = "poll"
           /\ wire \in {"declined", "expired"}
           /\ Fail(wire)

\* Mutation: any answer that decodes is taken for a token.
TokenFromAnyAnswer == /\ phase = "poll"
                      /\ wire \in {"ok", "pending", "declined"}
                      /\ phase' = "xbl"
                      /\ wire' = "idle"
                      /\ UNCHANGED <<wait, interval, outcome, world, clock>>

\* The Microsoft token: on to the Xbox chain.
TokenArrives == /\ phase = "poll"
                /\ wire = "ok"
                /\ phase' = "xbl"
                /\ wire' = "idle"
                /\ UNCHANGED <<wait, interval, outcome, world, clock>>

\* A hop of the chain answers with what the next one needs.
HopDone == /\ phase \in Hops \ {"profile"}
           /\ wire = "ok"
           /\ phase' = After(phase)
           /\ wire' = "idle"
           /\ UNCHANGED <<wait, interval, outcome, world, clock>>

\* XSTS and the others can refuse an account, or answer without the token,
\* the user hash or the name.
HopRefused == /\ phase \in Hops
              /\ wire = "refused"
              /\ Fail("refused")

\* Mutation: only server errors fail the profile lookup.
ProfileIgnores404 == /\ phase = "profile"
                     /\ wire \in {"ok", "not_found"}
                     /\ phase' = "done"
                     /\ outcome' = "account"
                     /\ wire' = "idle"
                     /\ UNCHANGED <<wait, interval, world, clock>>

\* The profile: the account is signed in, or it does not own the game.
ProfileArrives ==
    /\ phase = "profile"
    /\ \/ /\ wire = "ok"
          /\ phase' = "done"
          /\ outcome' = "account"
          /\ wire' = "idle"
          /\ UNCHANGED <<wait, interval, world, clock>>
       \/ wire = "not_found" /\ Fail("noEntitlement")

-----------------------------------------------------------------------------
(* The user, the service and the clock.                                    *)

UserAnswers == /\ phase \in {"wait", "poll"}
               /\ user = "away"
               /\ user' \in {"approved", "declined"}
               /\ UNCHANGED <<client, wire, cancelled, clientID, owner, clock>>

\* SIGTERM, or Launch returning early, cancels the context.
Cancel == /\ ~Ended
          /\ ~cancelled
          /\ cancelled' = TRUE
          /\ UNCHANGED <<client, wire, clientID, user, owner, clock>>

ServeCode == /\ phase = "start"
             /\ wire = "asked"
             /\ wire' = "ok"
             /\ UNCHANGED <<client, world, clock>>

\* The service holds a poll against the code's life, the user's answer and
\* its own demand; it may ask a client to slow down whenever it likes.
ServePoll ==
    /\ phase = "poll"
    /\ wire = "asked"
    /\ \/ age >= Lifetime /\ wire' = "expired" /\ UNCHANGED demand
       \/ /\ age < Lifetime
          /\ \/ user = "declined" /\ wire' = "declined" /\ UNCHANGED demand
             \/ user = "approved" /\ wire' = "ok" /\ UNCHANGED demand
             \/ user = "away" /\ quiet >= demand /\ wire' = "pending" /\ UNCHANGED demand
             \/ wire' = "slow_down" /\ demand' = demand + Backoff
    /\ quiet' = 0
    /\ UNCHANGED <<client, world, age>>

ServeHop == /\ phase \in Hops
            /\ wire = "asked"
            /\ wire' \in {"refused"} \cup
                         (IF phase = "profile" /\ ~owner THEN {"not_found"} ELSE {"ok"})
            /\ UNCHANGED <<client, world, clock>>

Tick == /\ phase \in {"wait", "poll"}
        /\ wait' = IF wait > 0 THEN wait - 1 ELSE 0
        /\ age' = Later(age)
        /\ quiet' = Later(quiet)
        /\ UNCHANGED <<phase, interval, outcome, wire, world, demand>>

Finished == Ended /\ UNCHANGED vars

-----------------------------------------------------------------------------
Client == \/ NoClientID
          \/ Ask
          \/ TimerFires
          \/ Cancelled
          \/ Broken
          \/ CodeArrives
          \/ StillPending
          \/ SlowDown
          \/ Refused
          \/ TokenArrives
          \/ HopDone
          \/ HopRefused
          \/ ProfileArrives

Service == ServeCode \/ ServePoll \/ ServeHop

Next == Client \/ Service \/ UserAnswers \/ Cancel \/ Tick \/ Finished

Spec == Init /\ [][Next]_vars

(* The client's goroutine runs, time passes, and every request is answered *)
(* or ends at the client's timeout.  Nobody has to answer on the phone and *)
(* nobody has to cancel.                                                   *)
FairSpec == Spec /\ WF_vars(Client) /\ WF_vars(Service) /\ WF_vars(Tick)

-----------------------------------------------------------------------------
\* The shape of the state.
TypeOK == /\ phase \in Phases
          /\ wire \in {"idle", "asked", "ok", "pending", "slow_down", "declined",
                       "expired", "refused", "not_found"}
          /\ wait \in 0..interval
          /\ interval \in Nat
          /\ outcome \in Failures \cup {"none", "account"}
          /\ cancelled \in BOOLEAN
          /\ clientID \in BOOLEAN
          /\ user \in {"away", "approved", "declined"}
          /\ owner \in BOOLEAN
          /\ age \in 0..(Lifetime + 1)
          /\ quiet \in 0..(Lifetime + 1)
          /\ demand \in Nat

\* "Microsoft asks pollers to back off when told to, and ignoring that gets
\* the request throttled" (devicecode.go:132): however often the service has
\* asked the client to slow down, a poll never goes out before the service
\* is ready to hear it.
NeverTooSoon ==
    phase = "poll" /\ wire = "asked" => quiet >= demand \/ quiet > Lifetime

\* An account comes only from a user who approved and who owns the game
\* (xbox.go:173, "a 404 here is the ownership check").
AccountIsApprovedOwner == outcome = "account" => user = "approved" /\ owner

\* "Errors the caller needs to distinguish, since they mean very different
\* things to someone standing in front of the machine" (devicecode.go:100):
\* each is returned only when it is what happened.
ErrorsTellTheTruth ==
    /\ outcome = "declined" => user = "declined"
    /\ outcome = "expired" => age >= Lifetime
    /\ outcome = "noEntitlement" => user = "approved" /\ ~owner
    /\ outcome = "cancelled" => cancelled
    /\ outcome = "noClientID" => ~clientID

\* The client's interval and the service's demand move together, and the rest
\* of a wait covers what is left of the demand.
Pact ==
    /\ phase = "wait" => /\ interval = demand
                         /\ quiet + wait >= demand \/ quiet > Lifetime
    /\ phase = "poll" =>
        /\ demand = IF wire = "slow_down" THEN interval + Backoff ELSE interval
        /\ wire \in {"idle", "asked"} => quiet >= demand \/ quiet > Lifetime

\* What an answer that has not been read yet says of the world.
AnswersAreTrue ==
    /\ phase = "poll" /\ wire = "ok" => user = "approved"
    /\ phase = "poll" /\ wire = "declined" => user = "declined"
    /\ phase = "poll" /\ wire = "expired" => age >= Lifetime
    /\ phase \in Hops => user = "approved"
    /\ phase = "profile" /\ wire = "ok" => owner
    /\ phase = "profile" /\ wire = "not_found" => ~owner

\* No exchange is open between polls, and nothing is returned before the end.
Orderly == /\ phase = "wait" => wire = "idle"
           /\ ~Ended => outcome = "none"

IInv == /\ TypeOK
        /\ Orderly
        /\ Pact
        /\ AnswersAreTrue
        /\ AccountIsApprovedOwner
        /\ ErrorsTellTheTruth

Result == CASE phase = "done" -> "ok"
            [] phase = "failed" -> "failed"
            [] OTHER -> "running"

Promise == INSTANCE Account WITH
    status <- Result,
    granted <- user = "approved" /\ owner,
    withdrawn <- cancelled

\* Every sign in is a run of Account: a caller that knows nothing of polls and
\* hops gets an account only if someone who owns the game approved, and one
\* result, which stays (signin.go:16-44).
KeepsPromise == Promise!Spec

\* A sign in ends: approved, declined, expired, failed or cancelled, and at
\* the latest when the code is no longer good.
Ends == <>Ended

\* "PollForToken blocks until the user approves on their phone, the code
\* expires, or the context is cancelled" (devicecode.go:131): while the code
\* is good and nobody has answered, a sign in that has begun to poll does
\* not end by itself.
BlocksUntilAnswered ==
    [][phase = "poll" /\ phase' = "failed"
        => user # "away" \/ age >= Lifetime \/ cancelled]_vars
=============================================================================
