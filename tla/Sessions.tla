------------------------------ MODULE Sessions ------------------------------
(***************************************************************************)
(* The sessions of one account (apps/users): refresh and access tokens,    *)
(* the idle and the absolute timeout, and what ends a session.             *)
(*                                                                         *)
(* The markers of an expired session live in the cache: they are written   *)
(* outside the transaction, may be lost, and are shared by all sessions of *)
(* the account.  The blacklisting that goes with them is rolled back with  *)
(* the refused request and is no step here.                                *)
(***************************************************************************)
EXTENDS Integers, FiniteSets

CONSTANTS
    Tokens,     \* bound: refresh tokens, each with the access token issued with it
    Resets,     \* bound: password reset tokens
    Devices,    \* where requests are sent from: tells two equal requests apart
    None,       \* NULL, or no claim
    Idle,       \* IDLE_SESSION_TIMEOUT, in ticks of the clock
    Absolute,   \* ABSOLUTE_SESSION_TIMEOUT
    AccessLife, \* ACCESS_TOKEN_LIFETIME
    LastTick,   \* bound: the clock stops there
    MaxOpen     \* bound: requests handled at the same time

VARIABLES
    user,       \* the row of the account
    tokens,     \* tokens[k]: the refresh token and its access token
    resets,     \* resets[r]: the row of the password reset token
    marks,      \* the markers of the account in the cache
    clock,
    open,       \* requests that have decided and not yet committed
    activity,   \* history: the last login or request that counts as activity, None before
    resetUses   \* history: passwords set through resets[r]

vars == <<user, tokens, resets, marks, clock, open, activity, resetUses>>

-----------------------------------------------------------------------------
(* Types *)

Tick == 0..LastTick

\* The password is not kept: no property reads it.
UserRow == [known : BOOLEAN, active : BOOLEAN, verified : BOOLEAN,
            last_login : Tick \cup {None}]

\* `born` is the claim session_created_at of the refresh token, `claim` that of the
\* access token, valid until `until`.  `began` is history: the login or registration the
\* chain of refreshes began with, None for an impersonation.
TokenRow == [status : {"none", "live", "black"}, born : Tick \cup {None},
             claim : Tick \cup {None}, until : Nat, began : Tick \cup {None}]
NoToken  == [status |-> "none", born |-> None, claim |-> None, until |-> 0, began |-> None]

LoginReq   == [kind : {"login"}, new : Tokens, now : Tick]
RefreshReq == [kind : {"refresh"}, key : Tokens, new : Tokens, now : Tick]
\* The account is saved: the columns of `set`, and the tokens of `seen` are blacklisted.
SaveReq    == [kind : {"password", "delete", "block"}, seen : SUBSET Tokens]
\* A reset that has read its token, and one that has marked it used.
ConfirmReq == [kind : {"confirm"}, reset : Resets, by : Devices]
              \cup [kind : {"reset"}, reset : Resets, seen : SUBSET Tokens]
\* Every column of the account, as read.
ProfileReq == [kind : {"profile"}, row : UserRow]

TypeOK ==
    /\ user \in UserRow
    /\ tokens \in [Tokens -> TokenRow]
    /\ resets \in [Resets -> {"none", "fresh", "used"}]
    /\ marks \subseteq {"idle", "absolute"}
    /\ clock \in Tick
    /\ open \subseteq LoginReq \cup RefreshReq \cup SaveReq \cup ConfirmReq \cup ProfileReq
    /\ activity \in Tick \cup {None}
    /\ resetUses \in [Resets -> Nat]

ASSUME SessionsAssumption ==
    /\ {Idle, Absolute, AccessLife, LastTick, MaxOpen} \subseteq Nat
    /\ None \notin Nat \cup {"absolute", "idle"}

-----------------------------------------------------------------------------
(* Reading *)

Exists(k) == tokens[k].status # "none"
Live(k)   == tokens[k].status = "live"

\* OutstandingToken without a blacklist entry.
Outstanding == {k \in Tokens : Live(k)}

\* is_absolute_session_expired
TooOld(born) == born # None /\ clock - born > Absolute

\* is_idle_session_expired
IsIdle == \/ "idle" \in marks
          \/ user.last_login # None /\ clock - user.last_login > Idle

\* Why a request with this claim is refused, in the order of the checks; None if it is not.
Refusal(born) ==
    CASE "absolute" \in marks \/ TooOld(born) -> "absolute"
      [] IsIdle -> "idle"
      [] OTHER  -> None

\* Mutant: JWT authentication does not look at is_active.
AuthenticatedBlocked(k) == Exists(k) /\ clock <= tokens[k].until

\* JWTAuthentication: signature, lifetime, and active_user_authentication_rule.
Authenticated(k) == Exists(k) /\ clock <= tokens[k].until /\ user.active

\* IdleAwareJWTAuthentication lets the access token of `k` in.
Accepts(k) == Authenticated(k) /\ Refusal(tokens[k].claim) = None

-----------------------------------------------------------------------------
(* Transactions *)

Begin(t) ==
    /\ Cardinality(open) < MaxOpen
    /\ t \notin open
    /\ open' = open \cup {t}
    /\ UNCHANGED <<user, tokens, resets, clock, activity, resetUses>>

Abort(t) ==
    /\ open' = open \ {t}
    /\ UNCHANGED <<user, tokens, resets, marks, clock, activity, resetUses>>

\* The next token.
Draw(k) == /\ ~Exists(k)
           /\ \A t \in open : t.kind \in {"login", "refresh"} => t.new # k

Later(a, b) == IF a # None /\ a > b THEN a ELSE b

\* RefreshToken.for_user and stamp_session_created_at, for a session that starts at `now`.
Issued(now) == [status |-> "live", born |-> now, claim |-> now, until |-> now + AccessLife,
                began |-> now]

CommitLogin(t) ==
    /\ t.kind = "login"
    /\ tokens' = [tokens EXCEPT ![t.new] = Issued(t.now)]
    /\ user' = [user EXCEPT !.last_login = t.now]
    /\ activity' = Later(activity, t.now)
    /\ open' = open \ {t}
    /\ UNCHANGED <<resets, marks, clock, resetUses>>

\* Mutant: rotation stamps the time of the refresh.
RotatedNow(old, now) ==
    [old EXCEPT !.status = "live", !.born = now, !.claim = now, !.until = now + AccessLife]

\* The token a refresh puts in place of `old`: it keeps the claim, and gets one if there
\* was none; the access token copies the claim of `old`.
Rotated(old, now) ==
    [old EXCEPT !.status = "live", !.born = IF @ = None THEN now ELSE @,
                !.claim = old.born, !.until = now + AccessLife]

\* The user is not looked at again: a token that was not blacklisted is rotated.
CommitRefresh(t) ==
    /\ t.kind = "refresh"
    /\ tokens' = [tokens EXCEPT ![t.new] = Rotated(tokens[t.key], t.now),
                                ![t.key].status = "black"]
    /\ open' = open \ {t}
    /\ UNCHANGED <<user, resets, marks, clock, activity, resetUses>>

Blacklisted(seen) ==
    [k \in Tokens |-> IF k \in seen THEN [tokens[k] EXCEPT !.status = "black"] ELSE tokens[k]]

\* change_password and delete_account, then the middleware; block_user of a superadmin,
\* and what else blocks an account, without it.
CommitSave(t) ==
    /\ t.kind \in {"password", "delete", "block"}
    /\ tokens' = Blacklisted(t.seen)
    /\ user' = [user EXCEPT
          !.active     = t.kind = "password" /\ @,
          !.last_login = IF t.kind = "block" THEN @ ELSE clock]
    /\ activity' = IF t.kind = "block" THEN activity ELSE clock
    /\ open' = open \ {t}
    /\ UNCHANGED <<resets, marks, clock, resetUses>>

\* Mutant: the UPDATE of the reset token has no filter on is_used.
MarkableAlways(r) == TRUE

\* UPDATE ... WHERE is_used = false: it waits for a transaction that holds the row.
Markable(r) ==
    /\ resets[r] = "fresh"
    /\ \A q \in open : q.kind = "reset" => q.reset # r

MarkUsed(t) ==
    /\ t.kind = "confirm"
    /\ Markable(t.reset)
    /\ open' = (open \ {t}) \cup {[kind |-> "reset", reset |-> t.reset, seen |-> Outstanding]}
    /\ UNCHANGED <<user, tokens, resets, marks, clock, activity, resetUses>>

CommitReset(t) ==
    /\ t.kind = "reset"
    /\ resets' = [resets EXCEPT ![t.reset] = "used"]
    /\ tokens' = Blacklisted(t.seen)
    /\ resetUses' = [resetUses EXCEPT ![t.reset] = @ + 1]
    /\ open' = open \ {t}
    /\ UNCHANGED <<user, marks, clock, activity>>

\* update_profile saves every column of the account it has read; then the middleware.
CommitProfile(t) ==
    /\ t.kind = "profile"
    /\ user' = [t.row EXCEPT !.last_login = clock]
    /\ activity' = clock
    /\ open' = open \ {t}
    /\ UNCHANGED <<tokens, resets, marks, clock, resetUses>>

Commit(t) == CommitLogin(t) \/ CommitRefresh(t) \/ CommitSave(t) \/ MarkUsed(t)
             \/ CommitReset(t) \/ CommitProfile(t)

-----------------------------------------------------------------------------
(* Requests without a token, or with a refresh token *)

\* register: the new account is logged in at once, and not as an activity.
Register(k) ==
    /\ ~user.known
    /\ user' = [user EXCEPT !.known = TRUE, !.active = TRUE]
    /\ tokens' = [tokens EXCEPT ![k] = Issued(clock)]
    /\ marks' = {}
    /\ UNCHANGED <<resets, clock, open, activity, resetUses>>

VerifyEmail ==
    /\ user.known
    /\ user' = [user EXCEPT !.verified = TRUE]
    /\ UNCHANGED <<tokens, resets, marks, clock, open, activity, resetUses>>

\* The markers are cleared before the login commits.
Login(k) ==
    /\ user.known /\ user.active /\ user.verified
    /\ Draw(k)
    /\ Begin([kind |-> "login", new |-> k, now |-> clock])
    /\ marks' = {}

Refresh(k, new) ==
    /\ Live(k)
    /\ Refusal(tokens[k].born) = None
    /\ Draw(new)
    /\ Begin([kind |-> "refresh", key |-> k, new |-> new, now |-> clock])
    /\ UNCHANGED marks

Logout(k) ==
    /\ Live(k)
    /\ tokens' = [tokens EXCEPT ![k].status = "black"]
    /\ UNCHANGED <<user, resets, marks, clock, open, activity, resetUses>>

PasswordResetRequest(r) ==
    /\ user.known /\ user.active
    /\ resets[r] = "none"
    /\ resets' = [resets EXCEPT ![r] = "fresh"]
    /\ UNCHANGED <<user, tokens, marks, clock, open, activity, resetUses>>

PasswordResetConfirm(r, d) ==
    /\ resets[r] = "fresh"
    /\ user.active
    /\ Begin([kind |-> "confirm", reset |-> r, by |-> d])
    /\ UNCHANGED marks

-----------------------------------------------------------------------------
(* Requests with an access token *)

\* A request refused for this claim leaves its marker; what it blacklists is rolled back.
Refuse(claim) ==
    /\ Refusal(claim) # None
    /\ marks' = marks \cup {Refusal(claim)}
    /\ UNCHANGED <<user, tokens, resets, clock, open, activity, resetUses>>

\* Mutant: polling counts as activity.
TracksAll(polling) == TRUE

\* should_track_activity
Tracks(polling) == ~polling

\* Any other request, then UpdateLastActivityMiddleware.
Serve(k, polling) ==
    /\ Accepts(k)
    /\ user' = IF Tracks(polling) THEN [user EXCEPT !.last_login = clock] ELSE user
    /\ activity' = IF polling THEN activity ELSE clock
    /\ UNCHANGED <<tokens, resets, marks, clock, open, resetUses>>

ChangePassword(k) ==
    /\ Accepts(k)
    /\ Begin([kind |-> "password", seen |-> Outstanding])
    /\ UNCHANGED marks

DeleteAccount(k) ==
    /\ Accepts(k)
    /\ Begin([kind |-> "delete", seen |-> Outstanding])
    /\ UNCHANGED marks

UpdateProfile(k) ==
    /\ Accepts(k)
    /\ Begin([kind |-> "profile", row |-> user])
    /\ UNCHANGED marks

-----------------------------------------------------------------------------
(* Who manages the account, the cache and the clock *)

\* block_user, deactivate_member and remove_member.
BlockUser ==
    /\ user.known
    /\ Begin([kind |-> "block", seen |-> Outstanding])
    /\ UNCHANGED marks

\* deactivate of the company: no token is blacklisted.
DeactivateCompany ==
    /\ user.known
    /\ user' = [user EXCEPT !.active = FALSE]
    /\ UNCHANGED <<tokens, resets, marks, clock, open, activity, resetUses>>

\* unblock_user, activate_member and activate of the company.
Activate ==
    /\ user.known
    /\ user' = [user EXCEPT !.active = TRUE]
    /\ UNCHANGED <<tokens, resets, marks, clock, open, activity, resetUses>>

\* InviteRegistrationSerializer.create: a new account, a guest's (the role is not kept) or
\* one that was blocked gets a new password and is active.  No token is issued or blacklisted.
AcceptInvitation ==
    /\ user' = [user EXCEPT !.known = TRUE, !.active = TRUE, !.verified = FALSE]
    /\ UNCHANGED <<tokens, resets, marks, clock, open, activity, resetUses>>

\* The tokens of an impersonation carry no session_created_at.
ImpersonateUser(k) ==
    /\ user.known /\ user.active
    /\ Draw(k)
    /\ tokens' = [tokens EXCEPT ![k] = [NoToken EXCEPT !.status = "live",
                                                       !.until = clock + AccessLife]]
    /\ UNCHANGED <<user, resets, marks, clock, open, activity, resetUses>>

\* A marker expires, is evicted, or the cache restarts.
LoseMarks ==
    /\ \E m \in marks : marks' = marks \ {m}
    /\ UNCHANGED <<user, tokens, resets, clock, open, activity, resetUses>>

Advance ==
    /\ clock < LastTick
    /\ clock' = clock + 1
    /\ UNCHANGED <<user, tokens, resets, marks, open, activity, resetUses>>

-----------------------------------------------------------------------------
(* Specification *)

Init ==
    /\ user = [known |-> FALSE, active |-> FALSE, verified |-> FALSE,
               last_login |-> None]
    /\ tokens = [k \in Tokens |-> NoToken]
    /\ resets = [r \in Resets |-> "none"]
    /\ marks = {}
    /\ clock = 0
    /\ open = {}
    /\ activity = None
    /\ resetUses = [r \in Resets |-> 0]

Next ==
    \/ \E k \in Tokens :
          \/ Register(k) \/ Login(k) \/ Logout(k) \/ ImpersonateUser(k)
          \/ Authenticated(k) /\ Refuse(tokens[k].claim)
          \/ Live(k) /\ Refuse(tokens[k].born)
          \/ ChangePassword(k) \/ DeleteAccount(k) \/ UpdateProfile(k)
          \/ \E new \in Tokens : Refresh(k, new)
          \/ \E polling \in BOOLEAN : Serve(k, polling)
    \/ \E r \in Resets : PasswordResetRequest(r) \/ \E d \in Devices : PasswordResetConfirm(r, d)
    \/ VerifyEmail \/ AcceptInvitation
    \/ BlockUser \/ DeactivateCompany \/ Activate
    \/ \E t \in open : Commit(t) \/ Abort(t)
    \/ LoseMarks \/ Advance

Spec == Init /\ [][Next]_vars

-----------------------------------------------------------------------------
(* Properties *)

\* Nobody is served longer than Absolute after the login their session began with, however
\* often it was refreshed, whatever became of the markers.  (A session that began with an
\* impersonation has no such bound.)
AcceptedIsYoung ==
    \A k \in Tokens : Accepts(k) /\ tokens[k].began # None => clock - tokens[k].began <= Absolute

\* Once an account has been active, nobody is served after it has seen no activity for
\* longer than Idle; polling, refreshing and saving an old row are no activity.  An account
\* that registered and has only polled since was never active and has no idle timeout
\* (session.py:107): AcceptedIsYoung alone bounds its sessions.
AcceptedIsRecent ==
    \A k \in Tokens : Accepts(k) /\ activity # None => clock - activity <= Idle

\* A password reset token sets one password at most.
ResetOnce == \A r \in Resets : resetUses[r] <= 1

\* A chain of refreshes keeps the time it began; a refresh under way has its token.
ChainsKeepTheirStart ==
    /\ \A k \in Tokens : tokens[k].began # None =>
          tokens[k].born = tokens[k].began /\ tokens[k].claim = tokens[k].began
    /\ \A t \in open : t.kind = "refresh" => Exists(t.key)

\* No column and no row about to be saved is ahead of the last activity, and once there was
\* one the column is never empty again.
NotAhead(row) == row.last_login # None => activity # None /\ row.last_login <= activity
NothingAhead ==
    /\ NotAhead(user)
    /\ activity # None => user.last_login # None /\ activity <= clock
    /\ \A t \in open : t.kind = "profile" => NotAhead(t.row)
    /\ \A t \in open : t.kind = "login" => t.now <= clock

\* Whoever marked a reset token is alone, and has not set the password yet.
MarkedByOne ==
    /\ \A r \in Resets : resets[r] # "used" => resetUses[r] = 0
    /\ \A t, q \in open : t.kind = "reset" /\ q.kind = "reset" /\ t.reset = q.reset => t = q
    /\ \A t \in open : t.kind = "reset" => resets[t.reset] = "fresh"

\* The inductive invariant behind AcceptedIsYoung, AcceptedIsRecent and ResetOnce.
IInv == /\ TypeOK /\ ChainsKeepTheirStart /\ NothingAhead /\ MarkedByOne /\ ResetOnce

\* The requests under way that act for the account.
UnderWay == {t \in open : t.kind \in {"login", "password", "delete", "profile"}}

\* A blocked account finishes what it had begun and begins nothing: no token gets anything
\* served, and it stays blocked until somebody makes it active again.  The one save that
\* undoes the block is that of a profile edit which had read the active row before
\* (users/views.py:576).
BlockedStaysOut ==
    [][user.known /\ ~user.active =>
          \/ Activate \/ AcceptInvitation
          \/ \E t \in UnderWay : CommitProfile(t)
          \/ /\ user'.known /\ ~user'.active
             /\ UnderWay' \subseteq UnderWay
             /\ UnderWay' = UnderWay => activity' = activity]_vars
=============================================================================
