--------------------------- MODULE SessionsProofs ---------------------------
(***************************************************************************)
(* Theorems about Sessions, for any number of tokens, reset tokens,        *)
(* devices and requests handled at once, and any timeouts.                 *)
(***************************************************************************)
EXTENDS Sessions, TLAPS

-----------------------------------------------------------------------------
(* Tokens *)

\* A blacklisted token keeps its claims.
LEMMA BlacklistedTokens ==
    ASSUME TypeOK, NEW seen \in SUBSET Tokens
    PROVE  /\ Blacklisted(seen) \in [Tokens -> TokenRow]
           /\ \A k \in Tokens : /\ Blacklisted(seen)[k].born = tokens[k].born
                                /\ Blacklisted(seen)[k].claim = tokens[k].claim
                                /\ Blacklisted(seen)[k].began = tokens[k].began
                                /\ Exists(k) => Blacklisted(seen)[k].status # "none"
<1>1. \A k \in Tokens : tokens[k] \in TokenRow
  BY DEF TypeOK
<1>2. \A k \in Tokens : [tokens[k] EXCEPT !.status = "black"] \in TokenRow
  BY <1>1 DEF TokenRow
<1> QED
  BY <1>1, <1>2 DEF Blacklisted, Exists, TokenRow

\* The token that takes the place of another goes back to the same login.
LEMMA RotatedToken ==
    ASSUME SessionsAssumption, NEW old \in TokenRow, NEW now \in Tick,
           old.began # None => old.born = old.began
    PROVE  /\ Rotated(old, now) \in TokenRow
           /\ Rotated(old, now).status = "live"
           /\ Rotated(old, now).began = old.began
           /\ old.began # None => /\ Rotated(old, now).born = old.began
                                  /\ Rotated(old, now).claim = old.began
<1>1. now + AccessLife \in Nat /\ None \notin Tick
  BY DEF SessionsAssumption, Tick
<1>2. old.born \in Tick \cup {None} /\ old.began \in Tick \cup {None}
  BY DEF TokenRow
<1> DEFINE b == IF old.born = None THEN now ELSE old.born
<1>3. b \in Tick \cup {None}
  BY <1>2
<1>4. Rotated(old, now) = [old EXCEPT !.status = "live", !.born = b, !.claim = old.born,
                                      !.until = now + AccessLife]
  BY DEF Rotated
<1>5. old.began # None => b = old.began
  OBVIOUS
<1> HIDE DEF b
<1>6. /\ Rotated(old, now) \in TokenRow /\ Rotated(old, now).status = "live"
      /\ Rotated(old, now).born = b /\ Rotated(old, now).claim = old.born
      /\ Rotated(old, now).began = old.began
  <2> DEFINE row == [old EXCEPT !.status = "live", !.born = b, !.claim = old.born,
                                !.until = now + AccessLife]
  <2>1. row \in TokenRow
    BY <1>1, <1>2, <1>3 DEF TokenRow
  <2>2. row.status = "live" /\ row.born = b /\ row.claim = old.born /\ row.began = old.began
    BY DEF TokenRow
  <2> QED
    BY <1>4, <2>1, <2>2
<1> QED
  BY <1>5, <1>6

-----------------------------------------------------------------------------
(* Requests that begin *)

\* What a request about to begin has read agrees with the account and the clock.
MayBegin(t) ==
    \/ t \in LoginReq /\ t.now <= clock
    \/ t \in RefreshReq /\ Exists(t.key)
    \/ t \in SaveReq
    \/ t \in ConfirmReq /\ t.kind = "confirm"
    \/ t \in ProfileReq /\ t.row = user

\* The kind of a request tells what it holds.
LEMMA Kinds ==
    ASSUME NEW t \in LoginReq \cup RefreshReq \cup SaveReq \cup ConfirmReq \cup ProfileReq
    PROVE  /\ t.kind = "login" => t \in LoginReq
           /\ t.kind = "refresh" => t \in RefreshReq
           /\ t.kind \in {"password", "delete", "block"} => t \in SaveReq
           /\ t.kind = "confirm" => t.reset \in Resets /\ t.by \in Devices
           /\ t.kind = "reset" => t.reset \in Resets /\ t.seen \subseteq Tokens
           /\ t.kind = "profile" => t \in ProfileReq
           /\ t \in LoginReq => t.kind = "login"
           /\ t \in RefreshReq => t.kind = "refresh"
           /\ t \in SaveReq => t.kind \in {"password", "delete", "block"}
           /\ t \in ProfileReq => t.kind = "profile"
  BY DEF LoginReq, RefreshReq, SaveReq, ConfirmReq, ProfileReq

\* Beginning a request preserves the invariant.
LEMMA BeginKeepsIInv ==
    ASSUME IInv, NEW t, MayBegin(t), Begin(t), marks' \subseteq {"idle", "absolute"}
    PROVE  IInv'
<1>0. /\ open' = open \cup {t}
      /\ UNCHANGED <<user, tokens, resets, clock, activity, resetUses>>
  BY DEF Begin
<1>1. t \in LoginReq \cup RefreshReq \cup SaveReq \cup ConfirmReq \cup ProfileReq
  BY DEF MayBegin
<1>2. TypeOK'
  BY <1>0, <1>1 DEF IInv, TypeOK
<1>3. ChainsKeepTheirStart'
  BY <1>0, <1>1, Kinds DEF IInv, ChainsKeepTheirStart, MayBegin, Exists
<1>4. NothingAhead'
  BY <1>0, <1>1, Kinds DEF IInv, NothingAhead, NotAhead, MayBegin
<1>5. t.kind # "reset"
  BY <1>1, Kinds DEF MayBegin
<1>6. MarkedByOne' /\ ResetOnce'
  BY <1>0, <1>5 DEF IInv, MarkedByOne, ResetOnce
<1> QED
  BY <1>2, <1>3, <1>4, <1>6 DEF IInv

\* Every handler that leaves a request in flight meets the conditions of MayBegin.
LEMMA HandlersBegin ==
    ASSUME SessionsAssumption, IInv,
           \/ \E k \in Tokens : \/ Login(k) \/ ChangePassword(k) \/ DeleteAccount(k)
                                \/ UpdateProfile(k) \/ \E new \in Tokens : Refresh(k, new)
           \/ \E r \in Resets, d \in Devices : PasswordResetConfirm(r, d)
           \/ BlockUser
    PROVE  /\ \E t : MayBegin(t) /\ Begin(t)
           /\ marks' \subseteq {"idle", "absolute"}
<1>0. /\ clock \in Tick /\ clock <= clock /\ user \in UserRow
      /\ marks \subseteq {"idle", "absolute"} /\ Outstanding \subseteq Tokens
  BY DEF IInv, TypeOK, Outstanding, Tick
<1>1. ASSUME NEW k \in Tokens, Login(k)
      PROVE  (\E t : MayBegin(t) /\ Begin(t)) /\ marks' \subseteq {"idle", "absolute"}
  <2> DEFINE t == [kind |-> "login", new |-> k, now |-> clock]
  <2>1. t \in LoginReq
    BY <1>0 DEF LoginReq
  <2> QED
    BY <1>0, <1>1, <2>1 DEF Login, MayBegin
<1>2. ASSUME NEW k \in Tokens, NEW new \in Tokens, Refresh(k, new)
      PROVE  (\E t : MayBegin(t) /\ Begin(t)) /\ marks' \subseteq {"idle", "absolute"}
  <2> DEFINE t == [kind |-> "refresh", key |-> k, new |-> new, now |-> clock]
  <2>1. t \in RefreshReq /\ Exists(t.key)
    BY <1>0, <1>2 DEF RefreshReq, Refresh, Live, Exists
  <2> QED
    BY <1>0, <1>2, <2>1 DEF Refresh, MayBegin
<1>3. ASSUME NEW k \in Tokens, ChangePassword(k)
      PROVE  (\E t : MayBegin(t) /\ Begin(t)) /\ marks' \subseteq {"idle", "absolute"}
  <2> DEFINE t == [kind |-> "password", seen |-> Outstanding]
  <2>1. t \in SaveReq
    BY <1>0 DEF SaveReq
  <2> QED
    BY <1>0, <1>3, <2>1 DEF ChangePassword, MayBegin
<1>4. ASSUME BlockUser \/ \E k \in Tokens : DeleteAccount(k)
      PROVE  (\E t : MayBegin(t) /\ Begin(t)) /\ marks' \subseteq {"idle", "absolute"}
  <2>1. ASSUME NEW kind \in {"delete", "block"}
        PROVE  MayBegin([kind |-> kind, seen |-> Outstanding])
    BY <1>0 DEF SaveReq, MayBegin
  <2> QED
    BY <1>0, <1>4, <2>1 DEF BlockUser, DeleteAccount
<1>5. ASSUME NEW k \in Tokens, UpdateProfile(k)
      PROVE  (\E t : MayBegin(t) /\ Begin(t)) /\ marks' \subseteq {"idle", "absolute"}
  <2> DEFINE t == [kind |-> "profile", row |-> user]
  <2>1. t \in ProfileReq
    BY <1>0 DEF ProfileReq
  <2> QED
    BY <1>0, <1>5, <2>1 DEF UpdateProfile, MayBegin
<1>6. ASSUME NEW r \in Resets, NEW d \in Devices, PasswordResetConfirm(r, d)
      PROVE  (\E t : MayBegin(t) /\ Begin(t)) /\ marks' \subseteq {"idle", "absolute"}
  <2> DEFINE t == [kind |-> "confirm", reset |-> r, by |-> d]
  <2>1. t \in ConfirmReq /\ t.kind = "confirm"
    BY DEF ConfirmReq
  <2> QED
    BY <1>0, <1>6, <2>1 DEF PasswordResetConfirm, MayBegin
<1> QED
  BY <1>1, <1>2, <1>3, <1>4, <1>5, <1>6

-----------------------------------------------------------------------------
(* The time of the last activity *)

\* A login or a request that counts as activity moves the column and the history alike;
\* whatever else is saved leaves both.
LEMMA Advances ==
    ASSUME SessionsAssumption, IInv, clock' = clock,
           \A q \in open' : q \in open \/ q.kind \notin {"profile", "login"},
           \/ user'.last_login = user.last_login /\ activity' = activity
           \/ user'.last_login = clock /\ activity' = clock
           \/ \E n \in Tick : n <= clock /\ user'.last_login = n /\ activity' = Later(activity, n)
    PROVE  activity' \in Tick \cup {None} /\ NothingAhead'
<1>1. /\ clock \in Tick /\ activity \in Tick \cup {None}
      /\ user.last_login \in Tick \cup {None}
      /\ \A q \in open : q.kind = "profile" => q.row.last_login \in Tick \cup {None}
  <2>1. \A q \in open : q \in LoginReq \cup RefreshReq \cup SaveReq \cup ConfirmReq \cup ProfileReq
    BY DEF IInv, TypeOK
  <2> QED
    BY <2>1, Kinds DEF IInv, TypeOK, ProfileReq, UserRow
<1>2. Tick \subseteq Int /\ None \notin Tick
  BY DEF Tick, SessionsAssumption
<1>3. CASE user'.last_login = user.last_login /\ activity' = activity
  BY <1>1, <1>3 DEF IInv, NothingAhead, NotAhead
<1>4. ASSUME NEW n \in Tick, n <= clock, user'.last_login = n,
             activity' \in Tick, n <= activity', activity' <= clock,
             activity # None => activity <= activity'
      PROVE  NothingAhead'
  <2>1. ASSUME NEW q \in open, q.kind = "profile", q.row.last_login # None
        PROVE  q.row.last_login <= activity'
    <3>1. activity # None /\ q.row.last_login <= activity
      BY <2>1 DEF IInv, NothingAhead, NotAhead
    <3>2. {q.row.last_login, activity, activity'} \subseteq Int
      BY <1>1, <1>2, <1>4, <2>1, <3>1
    <3> QED
      BY <1>4, <3>1, <3>2
  <2>2. \A q \in open' : q.kind \in {"profile", "login"} => q \in open
    OBVIOUS
  <2>3. \A q \in open' : q.kind = "profile" => NotAhead(q.row)'
    BY <1>2, <1>4, <2>1, <2>2 DEF NotAhead
  <2>4. \A q \in open' : q.kind = "login" => q.now <= clock'
    BY <2>2 DEF IInv, NothingAhead
  <2>5. NotAhead(user)' /\ (activity' # None => user'.last_login # None /\ activity' <= clock')
    BY <1>2, <1>4 DEF NotAhead
  <2> QED
    BY <2>3, <2>4, <2>5 DEF NothingAhead
<1>5. activity # None => activity <= clock
  BY DEF IInv, NothingAhead
<1>6. CASE user'.last_login = clock /\ activity' = clock
  BY <1>1, <1>2, <1>4, <1>5, <1>6
<1>7. ASSUME NEW n \in Tick, n <= clock, user'.last_login = n, activity' = Later(activity, n)
      PROVE  activity' \in Tick \cup {None} /\ NothingAhead'
  <2>1. /\ activity' \in Tick /\ n <= activity' /\ activity' <= clock
        /\ activity # None => activity <= activity'
    BY <1>1, <1>2, <1>5, <1>7 DEF Later
  <2> QED
    BY <1>4, <1>7, <2>1
<1> QED
  BY <1>3, <1>6, <1>7

-----------------------------------------------------------------------------
(* Requests that end *)

\* A commit preserves the invariant.
LEMMA CommitKeepsIInv ==
    ASSUME SessionsAssumption, IInv, NEW t \in open, Commit(t)
    PROVE  IInv'
<1>0. /\ t \in LoginReq \cup RefreshReq \cup SaveReq \cup ConfirmReq \cup ProfileReq
      /\ clock \in Tick /\ activity \in Tick \cup {None} /\ user \in UserRow
      /\ tokens \in [Tokens -> TokenRow]
      /\ \A q \in open : q \in LoginReq \cup RefreshReq \cup SaveReq \cup ConfirmReq \cup ProfileReq
  BY DEF IInv, TypeOK
<1>1. CASE CommitLogin(t)
  <2>1. /\ t.new \in Tokens /\ t.now \in Tick /\ t.now <= clock
        /\ open' = open \ {t} /\ UNCHANGED <<resets, marks, clock, resetUses>>
        /\ activity' = Later(activity, t.now)
        /\ user' = [user EXCEPT !.last_login = t.now]
        /\ tokens' = [tokens EXCEPT ![t.new] = Issued(t.now)]
    BY <1>0, <1>1, Kinds DEF CommitLogin, LoginReq, IInv, NothingAhead
  <2>2. Issued(t.now) \in TokenRow /\ Issued(t.now).status = "live"
        /\ Issued(t.now).born = t.now /\ Issued(t.now).claim = t.now /\ Issued(t.now).began = t.now
    BY <2>1 DEF Issued, TokenRow, Tick, SessionsAssumption
  <2>3. user' \in UserRow /\ user'.last_login = t.now
    BY <1>0, <2>1 DEF UserRow
  <2>4. activity' \in Tick \cup {None} /\ NothingAhead'
    BY <2>1, <2>3, Advances
  <2>5. TypeOK'
    BY <1>0, <2>1, <2>2, <2>3, <2>4 DEF IInv, TypeOK
  <2>6. ChainsKeepTheirStart'
    BY <1>0, <2>1, <2>2 DEF IInv, ChainsKeepTheirStart, Exists
  <2>7. MarkedByOne' /\ ResetOnce'
    BY <2>1 DEF IInv, MarkedByOne, ResetOnce
  <2> QED
    BY <2>4, <2>5, <2>6, <2>7 DEF IInv
<1>2. CASE CommitRefresh(t)
  <2>1. /\ t.new \in Tokens /\ t.key \in Tokens /\ t.now \in Tick /\ Exists(t.key)
        /\ open' = open \ {t} /\ UNCHANGED <<user, resets, marks, clock, activity, resetUses>>
        /\ tokens' = [tokens EXCEPT ![t.new] = Rotated(tokens[t.key], t.now),
                                    ![t.key].status = "black"]
    BY <1>0, <1>2, Kinds DEF CommitRefresh, RefreshReq, IInv, ChainsKeepTheirStart
  <2>2. PICK new \in TokenRow :
           /\ new = Rotated(tokens[t.key], t.now)
           /\ new.status = "live"
           /\ new.began # None => new.born = new.began /\ new.claim = new.began
    BY <1>0, <2>1, RotatedToken DEF IInv, ChainsKeepTheirStart
  <2>3. /\ \A k \in Tokens : [tokens[k] EXCEPT !.status = "black"] \in TokenRow
        /\ [new EXCEPT !.status = "black"] \in TokenRow
    BY <1>0 DEF TokenRow
  <2>4. \A k \in Tokens : /\ tokens'[k] \in TokenRow
                          /\ tokens'[k].began # None => /\ tokens'[k].born = tokens'[k].began
                                                        /\ tokens'[k].claim = tokens'[k].began
                          /\ Exists(k) => tokens'[k].status # "none"
    <3> SUFFICES ASSUME NEW k \in Tokens
                 PROVE  /\ tokens'[k] \in TokenRow
                        /\ tokens'[k].began # None => /\ tokens'[k].born = tokens'[k].began
                                                      /\ tokens'[k].claim = tokens'[k].began
                        /\ Exists(k) => tokens'[k].status # "none"
      OBVIOUS
    <3>1. tokens'[k] \in {tokens[k], new, [tokens[k] EXCEPT !.status = "black"],
                          [new EXCEPT !.status = "black"]}
      BY <1>0, <2>1, <2>2
    <3>2. tokens[k] \in TokenRow /\ (tokens[k].began # None => /\ tokens[k].born = tokens[k].began
                                                               /\ tokens[k].claim = tokens[k].began)
      BY <1>0 DEF IInv, ChainsKeepTheirStart
    <3> QED
      BY <2>2, <2>3, <3>1, <3>2 DEF TokenRow, Exists
  <2>5. tokens' \in [Tokens -> TokenRow]
    BY <1>0, <2>1, <2>4
  <2>6. TypeOK'
    BY <2>1, <2>5 DEF IInv, TypeOK
  <2>7. ChainsKeepTheirStart'
    <3>1. \A q \in open : q.kind = "refresh" => q.key \in Tokens /\ Exists(q.key)
      BY <1>0, Kinds DEF RefreshReq, IInv, ChainsKeepTheirStart
    <3> QED
      BY <2>1, <2>4, <3>1 DEF ChainsKeepTheirStart, Exists
  <2>8. NothingAhead' /\ MarkedByOne' /\ ResetOnce'
    BY <2>1 DEF IInv, NothingAhead, NotAhead, MarkedByOne, ResetOnce
  <2> QED
    BY <2>6, <2>7, <2>8 DEF IInv
<1>3. CASE CommitSave(t)
  <2>1. /\ t.seen \in SUBSET Tokens /\ open' = open \ {t} /\ tokens' = Blacklisted(t.seen)
        /\ UNCHANGED <<resets, marks, clock, resetUses>>
    BY <1>0, <1>3, Kinds DEF CommitSave, SaveReq
  <2>2. /\ user' \in UserRow
        /\ \/ user'.last_login = user.last_login /\ activity' = activity
           \/ user'.last_login = clock /\ activity' = clock
    <3>1. user' = [user EXCEPT !.active = t.kind = "password" /\ @,
                               !.last_login = IF t.kind = "block" THEN @ ELSE clock]
      BY <1>3 DEF CommitSave
    <3>2. (t.kind = "password" /\ user.active) \in BOOLEAN
      BY <1>0 DEF UserRow
    <3> QED
      BY <1>0, <1>3, <3>1, <3>2 DEF CommitSave, UserRow
  <2>3. activity' \in Tick \cup {None} /\ NothingAhead'
    BY <2>1, <2>2, Advances
  <2>4. TypeOK'
    BY <1>0, <2>1, <2>2, <2>3, BlacklistedTokens DEF IInv, TypeOK
  <2>5. ChainsKeepTheirStart'
    <3>1. \A q \in open : q.kind = "refresh" => q.key \in Tokens /\ Exists(q.key)
      BY <1>0, Kinds DEF RefreshReq, IInv, ChainsKeepTheirStart
    <3> QED
      BY <2>1, <3>1, BlacklistedTokens DEF IInv, ChainsKeepTheirStart, Exists
  <2>6. MarkedByOne' /\ ResetOnce'
    BY <2>1 DEF IInv, MarkedByOne, ResetOnce
  <2> QED
    BY <2>3, <2>4, <2>5, <2>6 DEF IInv
<1>4. CASE MarkUsed(t)
  <2> DEFINE q == [kind |-> "reset", reset |-> t.reset, seen |-> Outstanding]
  <2>1. /\ t.reset \in Resets /\ t.kind = "confirm" /\ Markable(t.reset)
        /\ open' = (open \ {t}) \cup {q}
        /\ UNCHANGED <<user, tokens, resets, marks, clock, activity, resetUses>>
    BY <1>0, <1>4, Kinds DEF MarkUsed
  <2>2. q \in ConfirmReq /\ q.kind = "reset" /\ q.reset = t.reset
    BY <2>1 DEF ConfirmReq, Outstanding
  <2>3. TypeOK'
    BY <2>1, <2>2 DEF IInv, TypeOK
  <2> HIDE DEF q
  <2>4. ChainsKeepTheirStart' /\ NothingAhead' /\ ResetOnce'
    BY <2>1, <2>2 DEF IInv, ChainsKeepTheirStart, Exists, NothingAhead, NotAhead, ResetOnce
  <2>5. MarkedByOne'
    BY <2>1, <2>2 DEF IInv, MarkedByOne, Markable
  <2> QED
    BY <2>3, <2>4, <2>5 DEF IInv
<1>5. CASE CommitReset(t)
  <2>1. /\ t.reset \in Resets /\ t.seen \in SUBSET Tokens /\ t.kind = "reset"
        /\ open' = open \ {t} /\ tokens' = Blacklisted(t.seen)
        /\ resets' = [resets EXCEPT ![t.reset] = "used"]
        /\ resetUses' = [resetUses EXCEPT ![t.reset] = @ + 1]
        /\ UNCHANGED <<user, marks, clock, activity>>
    BY <1>0, <1>5, Kinds DEF CommitReset
  <2>2. /\ resets \in [Resets -> {"none", "fresh", "used"}] /\ resetUses \in [Resets -> Nat]
        /\ resets[t.reset] = "fresh" /\ resetUses[t.reset] = 0
    BY <2>1 DEF IInv, TypeOK, MarkedByOne
  <2>3. TypeOK'
    BY <1>0, <2>1, <2>2, BlacklistedTokens DEF IInv, TypeOK
  <2>4. ChainsKeepTheirStart'
    <3>1. \A q \in open : q.kind = "refresh" => q.key \in Tokens /\ Exists(q.key)
      BY <1>0, Kinds DEF RefreshReq, IInv, ChainsKeepTheirStart
    <3> QED
      BY <2>1, <3>1, BlacklistedTokens DEF IInv, ChainsKeepTheirStart, Exists
  <2>5. NothingAhead'
    BY <2>1 DEF IInv, NothingAhead, NotAhead
  <2>6. MarkedByOne' /\ ResetOnce'
    <3>1. \A q \in open : q.kind = "reset" => q.reset \in Resets
      BY <1>0, Kinds
    <3>2. \A q \in open' : q.kind = "reset" => q.reset # t.reset
      BY <2>1 DEF IInv, MarkedByOne
    <3>3. \A r \in Resets : r # t.reset => resets'[r] = resets[r] /\ resetUses'[r] = resetUses[r]
      BY <2>1, <2>2
    <3>4. resets'[t.reset] = "used" /\ resetUses'[t.reset] = 1
      BY <2>1, <2>2
    <3> QED
      BY <2>1, <3>1, <3>2, <3>3, <3>4 DEF IInv, MarkedByOne, ResetOnce
  <2> QED
    BY <2>3, <2>4, <2>5, <2>6 DEF IInv
<1>6. CASE CommitProfile(t)
  <2>1. /\ t.row \in UserRow /\ open' = open \ {t}
        /\ user' = [t.row EXCEPT !.last_login = clock] /\ activity' = clock
        /\ UNCHANGED <<tokens, resets, marks, clock, resetUses>>
    BY <1>0, <1>6, Kinds DEF CommitProfile, ProfileReq
  <2>2. user' \in UserRow /\ user'.last_login = clock
    BY <1>0, <2>1 DEF UserRow
  <2>3. activity' \in Tick \cup {None} /\ NothingAhead'
    BY <2>1, <2>2, Advances
  <2>4. TypeOK'
    BY <1>0, <2>1, <2>2, <2>3 DEF IInv, TypeOK
  <2>5. ChainsKeepTheirStart' /\ MarkedByOne' /\ ResetOnce'
    BY <2>1 DEF IInv, ChainsKeepTheirStart, Exists, MarkedByOne, ResetOnce
  <2> QED
    BY <2>3, <2>4, <2>5 DEF IInv
<1> QED
  BY <1>1, <1>2, <1>3, <1>4, <1>5, <1>6 DEF Commit

-----------------------------------------------------------------------------
(* Requests of one step, the cache and the clock *)

\* A step that leaves no request in flight.
Single ==
    \/ \E k \in Tokens :
          \/ Register(k) \/ Logout(k) \/ ImpersonateUser(k)
          \/ Authenticated(k) /\ Refuse(tokens[k].claim)
          \/ Live(k) /\ Refuse(tokens[k].born)
          \/ \E polling \in BOOLEAN : Serve(k, polling)
    \/ \E r \in Resets : PasswordResetRequest(r)
    \/ VerifyEmail \/ AcceptInvitation \/ DeactivateCompany \/ Activate
    \/ \E t \in open : Abort(t)
    \/ LoseMarks \/ Advance

\* A token issued anew goes back to a login now, or to none.
LEMMA NewToken ==
    ASSUME SessionsAssumption, TypeOK
    PROVE  /\ Issued(clock) \in TokenRow /\ Issued(clock).status = "live"
           /\ Issued(clock).born = clock /\ Issued(clock).claim = clock
           /\ Issued(clock).began = clock
           /\ [NoToken EXCEPT !.status = "live", !.until = clock + AccessLife] \in TokenRow
<1>1. clock \in Tick /\ clock + AccessLife \in Nat
  BY DEF TypeOK, Tick, SessionsAssumption
<1>2. Issued(clock) \in TokenRow
  BY <1>1 DEF Issued, TokenRow
<1>3. NoToken \in TokenRow
  BY <1>1 DEF NoToken, TokenRow
<1>4. [NoToken EXCEPT !.status = "live", !.until = clock + AccessLife] \in TokenRow
  BY <1>1, <1>3 DEF TokenRow
<1> QED
  BY <1>2, <1>4 DEF Issued

\* A step of the kinds above preserves the invariant.
LEMMA SingleKeepsIInv ==
    ASSUME SessionsAssumption, IInv, Single
    PROVE  IInv'
<1>0. /\ clock \in Tick /\ activity \in Tick \cup {None} /\ user \in UserRow
      /\ tokens \in [Tokens -> TokenRow] /\ marks \subseteq {"idle", "absolute"}
      /\ clock \in Int /\ Tick \subseteq Int
      /\ \A q \in open : q.kind = "profile" => q.row.last_login \in Tick \cup {None}
      /\ \A q \in open : q.kind = "refresh" => q.key \in Tokens /\ Exists(q.key)
  <2>1. \A q \in open : q \in LoginReq \cup RefreshReq \cup SaveReq \cup ConfirmReq \cup ProfileReq
    BY DEF IInv, TypeOK
  <2> QED
    BY <2>1, Kinds DEF IInv, TypeOK, ChainsKeepTheirStart, ProfileReq, RefreshReq, UserRow, Tick,
       SessionsAssumption
<1>1. ASSUME NEW k \in Tokens, Register(k) PROVE IInv'
  <2>1. user' \in UserRow /\ user'.last_login = user.last_login
    BY <1>0, <1>1 DEF Register, UserRow
  <2>2. TypeOK'
    BY <1>0, <1>1, <2>1, NewToken DEF Register, IInv, TypeOK
  <2>3. ChainsKeepTheirStart'
    BY <1>0, <1>1, NewToken DEF Register, IInv, ChainsKeepTheirStart, Exists
  <2>4. NothingAhead' /\ MarkedByOne' /\ ResetOnce'
    BY <1>1, <2>1 DEF Register, IInv, NothingAhead, NotAhead, MarkedByOne, ResetOnce
  <2> QED
    BY <2>2, <2>3, <2>4 DEF IInv
<1>2. ASSUME NEW k \in Tokens, Logout(k) \/ ImpersonateUser(k) PROVE IInv'
  <2>1. PICK row \in TokenRow :
          /\ tokens' = [tokens EXCEPT ![k] = row] /\ row.status # "none"
          /\ row.began # None => row.born = row.began /\ row.claim = row.began
    <3>1. CASE Logout(k)
      <4>1. [tokens[k] EXCEPT !.status = "black"] \in TokenRow
        BY <1>0 DEF TokenRow
      <4> QED
        BY <1>0, <3>1, <4>1 DEF Logout, IInv, ChainsKeepTheirStart, TokenRow
    <3>2. CASE ImpersonateUser(k)
      BY <1>0, <3>2, NewToken DEF ImpersonateUser, IInv, NoToken
    <3> QED
      BY <1>2, <3>1, <3>2
  <2>2. UNCHANGED <<user, resets, marks, clock, open, activity, resetUses>>
    BY <1>2 DEF Logout, ImpersonateUser
  <2>3. TypeOK'
    BY <1>0, <2>1, <2>2 DEF IInv, TypeOK
  <2>4. ChainsKeepTheirStart'
    BY <1>0, <2>1, <2>2 DEF IInv, ChainsKeepTheirStart, Exists
  <2>5. NothingAhead' /\ MarkedByOne' /\ ResetOnce'
    BY <2>2 DEF IInv, NothingAhead, NotAhead, MarkedByOne, ResetOnce
  <2> QED
    BY <2>3, <2>4, <2>5 DEF IInv
<1>3. ASSUME \/ \E k \in Tokens : Refuse(tokens[k].claim) \/ Refuse(tokens[k].born)
             \/ LoseMarks
      PROVE IInv'
  <2>1. marks' \subseteq {"idle", "absolute"}
        /\ UNCHANGED <<user, tokens, resets, clock, open, activity, resetUses>>
    BY <1>0, <1>3 DEF Refuse, Refusal, LoseMarks
  <2>2. TypeOK' /\ ChainsKeepTheirStart'
    BY <2>1 DEF IInv, TypeOK, ChainsKeepTheirStart, Exists
  <2>3. NothingAhead' /\ MarkedByOne' /\ ResetOnce'
    BY <2>1 DEF IInv, NothingAhead, NotAhead, MarkedByOne, ResetOnce
  <2> QED
    BY <2>2, <2>3 DEF IInv
<1>4. ASSUME \/ VerifyEmail \/ AcceptInvitation \/ DeactivateCompany \/ Activate
             \/ \E k \in Tokens, polling \in BOOLEAN : Serve(k, polling)
      PROVE IInv'
  <2>1. /\ user' \in UserRow
        /\ \/ user'.last_login = user.last_login /\ activity' = activity
           \/ user'.last_login = clock /\ activity' = clock
    BY <1>0, <1>4 DEF VerifyEmail, AcceptInvitation, DeactivateCompany, Activate, Serve, Tracks,
                      UserRow
  <2>2. UNCHANGED <<tokens, resets, marks, clock, open, resetUses>>
    BY <1>4 DEF VerifyEmail, AcceptInvitation, DeactivateCompany, Activate, Serve
  <2>3. activity' \in Tick \cup {None} /\ NothingAhead'
    BY <2>1, <2>2, SessionsAssumption, Advances
  <2>4. TypeOK' /\ ChainsKeepTheirStart'
    BY <1>0, <2>1, <2>2, <2>3 DEF IInv, TypeOK, ChainsKeepTheirStart, Exists
  <2>5. MarkedByOne' /\ ResetOnce'
    BY <2>2 DEF IInv, MarkedByOne, ResetOnce
  <2> QED
    BY <2>3, <2>4, <2>5 DEF IInv
<1>5. ASSUME NEW r \in Resets, PasswordResetRequest(r) PROVE IInv'
  <2>1. /\ resets[r] = "none" /\ resets' = [resets EXCEPT ![r] = "fresh"]
        /\ UNCHANGED <<user, tokens, marks, clock, open, activity, resetUses>>
    BY <1>5 DEF PasswordResetRequest
  <2>2. TypeOK' /\ ChainsKeepTheirStart' /\ NothingAhead' /\ ResetOnce'
    BY <2>1 DEF IInv, TypeOK, ChainsKeepTheirStart, Exists, NothingAhead, NotAhead, ResetOnce
  <2>3. MarkedByOne'
    BY <2>1 DEF IInv, TypeOK, MarkedByOne
  <2> QED
    BY <2>2, <2>3 DEF IInv
<1>6. ASSUME NEW t \in open, Abort(t) PROVE IInv'
  <2>1. open' \subseteq open /\ UNCHANGED <<user, tokens, resets, marks, clock, activity, resetUses>>
    BY <1>6 DEF Abort
  <2>2. TypeOK' /\ ChainsKeepTheirStart' /\ NothingAhead'
    BY <2>1 DEF IInv, TypeOK, ChainsKeepTheirStart, Exists, NothingAhead, NotAhead
  <2>3. MarkedByOne' /\ ResetOnce'
    BY <2>1 DEF IInv, MarkedByOne, ResetOnce
  <2> QED
    BY <2>2, <2>3 DEF IInv
<1>7. ASSUME Advance PROVE IInv'
  <2>1. /\ clock' = clock + 1 /\ clock' \in Tick
        /\ UNCHANGED <<user, tokens, resets, marks, open, activity, resetUses>>
    BY <1>0, <1>7 DEF Advance, Tick, SessionsAssumption
  <2>2. TypeOK' /\ ChainsKeepTheirStart' /\ MarkedByOne' /\ ResetOnce'
    BY <2>1 DEF IInv, TypeOK, ChainsKeepTheirStart, Exists, MarkedByOne, ResetOnce
  <2>3. \A q \in open : q.kind = "login" => q.now \in Int
    BY <1>0, Kinds DEF IInv, TypeOK, LoginReq
  <2>4. NothingAhead'
    <3>1. activity # None => activity <= clock /\ activity \in Int
      BY <1>0 DEF IInv, NothingAhead
    <3> QED
      BY <1>0, <2>1, <2>3, <3>1 DEF IInv, NothingAhead, NotAhead
  <2> QED
    BY <2>2, <2>4 DEF IInv
<1> QED
  BY <1>1, <1>2, <1>3, <1>4, <1>5, <1>6, <1>7 DEF Single

-----------------------------------------------------------------------------
(* The theorems *)

\* Types, the claims of every chain of refreshes, the time of the last activity and the use
\* of reset tokens: see IInv in Sessions.
THEOREM SessionsInvariant == Spec => []IInv
<1>1. Init => IInv
  BY SessionsAssumption
     DEF Init, IInv, TypeOK, UserRow, TokenRow, NoToken, Tick, ChainsKeepTheirStart, NothingAhead,
         NotAhead, MarkedByOne, ResetOnce, SessionsAssumption
<1>2. IInv /\ [Next]_vars => IInv'
  <2> SUFFICES ASSUME IInv, [Next]_vars PROVE IInv'
    OBVIOUS
  <2>1. CASE UNCHANGED vars
    BY <2>1 DEF vars, IInv, TypeOK, ChainsKeepTheirStart, Exists, NothingAhead, NotAhead,
                MarkedByOne, ResetOnce
  <2>2. CASE Single
    BY <2>2, SingleKeepsIInv, SessionsAssumption
  <2>3. CASE \E t \in open : Commit(t)
    BY <2>3, CommitKeepsIInv, SessionsAssumption
  <2>4. ASSUME \/ \E k \in Tokens : \/ Login(k) \/ ChangePassword(k) \/ DeleteAccount(k)
                                    \/ UpdateProfile(k) \/ \E new \in Tokens : Refresh(k, new)
               \/ \E r \in Resets, d \in Devices : PasswordResetConfirm(r, d)
               \/ BlockUser
        PROVE  IInv'
    <3>1. (\E t : MayBegin(t) /\ Begin(t)) /\ marks' \subseteq {"idle", "absolute"}
      BY <2>4, HandlersBegin, SessionsAssumption
    <3> QED
      BY <3>1, BeginKeepsIInv
  <2> QED
    BY <2>1, <2>2, <2>3, <2>4 DEF Next, Single
<1> QED
  BY <1>1, <1>2, PTL DEF Spec

\* The absolute timeout holds along every chain of refreshes (session.py, jwt.py).
THEOREM SessionsAreYoung == Spec => []AcceptedIsYoung
<1>1. IInv => AcceptedIsYoung
  <2> SUFFICES ASSUME IInv, NEW k \in Tokens, Accepts(k), tokens[k].began # None
               PROVE  clock - tokens[k].began <= Absolute
    BY DEF AcceptedIsYoung
  <2>1. tokens[k].claim = tokens[k].began /\ tokens[k].began \in Int /\ clock \in Int
    BY SessionsAssumption DEF IInv, TypeOK, TokenRow, ChainsKeepTheirStart, Tick, SessionsAssumption
  <2>2. ~TooOld(tokens[k].claim)
    BY SessionsAssumption DEF Accepts, Refusal, SessionsAssumption
  <2> QED
    BY <2>1, <2>2, SessionsAssumption DEF TooOld, SessionsAssumption
<1> QED
  BY <1>1, SessionsInvariant, PTL

\* Once an account has been active, the idle timeout counts from its last activity, whatever
\* was saved since (session.py, middleware.py); one that never was has none.
THEOREM SessionsAreActive == Spec => []AcceptedIsRecent
<1>1. IInv => AcceptedIsRecent
  <2> SUFFICES ASSUME IInv, NEW k \in Tokens, Accepts(k), activity # None
               PROVE  clock - activity <= Idle
    BY DEF AcceptedIsRecent
  <2>1. user.last_login # None /\ user.last_login <= activity
    BY DEF IInv, NothingAhead, NotAhead
  <2>2. user.last_login \in Int /\ clock \in Int /\ activity \in Int
    BY <2>1, SessionsAssumption DEF IInv, TypeOK, UserRow, Tick, SessionsAssumption
  <2>3. ~IsIdle
    BY SessionsAssumption DEF Accepts, Refusal, SessionsAssumption
  <2> QED
    BY <2>1, <2>2, <2>3, SessionsAssumption DEF IsIdle, SessionsAssumption
<1> QED
  BY <1>1, SessionsInvariant, PTL

\* The conditional UPDATE of password_reset_confirm lets one reset through.
THEOREM ResetsAreUsedOnce == Spec => []ResetOnce
<1>1. IInv => ResetOnce
  BY DEF IInv
<1> QED
  BY <1>1, SessionsInvariant, PTL

\* A blocked account begins nothing (authentication.py), and of what it had begun only the
\* save of a profile read before makes it active again (users/views.py:576).
THEOREM BlockedAccountsStayOut == Spec => BlockedStaysOut
<1> DEFINE Kept == /\ user'.known /\ ~user'.active
                   /\ UnderWay' \subseteq UnderWay
                   /\ UnderWay' = UnderWay => activity' = activity
           Goal == user.known /\ ~user.active =>
                      \/ Activate \/ AcceptInvitation
                      \/ \E t \in UnderWay : CommitProfile(t)
                      \/ Kept
<1>1. IInv /\ [Next]_vars => [Goal]_vars
  <2> SUFFICES ASSUME IInv, Next, user.known, ~user.active, ~Activate, ~AcceptInvitation,
                      \A t \in UnderWay : ~CommitProfile(t)
               PROVE  Kept
    BY DEF vars
  <2>1. user \in UserRow
    BY DEF IInv, TypeOK
  <2>2. \A k \in Tokens : ~Accepts(k)
    BY DEF Accepts, Authenticated
  <2>3. ASSUME user'.known, ~user'.active,
               \A q \in open' : q \in open \/ q.kind \in {"block", "refresh", "reset", "confirm"},
               activity' # activity => \E t \in UnderWay : t \notin open'
        PROVE  Kept
    BY <2>3 DEF UnderWay
  <2>4. ASSUME NEW t \in open, Commit(t) \/ Abort(t) PROVE Kept
    <3>1. user'.known /\ ~user'.active
      BY <2>1, <2>4 DEF Commit, CommitLogin, CommitRefresh, CommitSave, MarkUsed, CommitReset,
                        CommitProfile, Abort, UserRow, UnderWay
    <3>2. /\ \A q \in open' : q \in open \/ q.kind = "reset"
          /\ activity' # activity => t \in UnderWay /\ t \notin open'
      BY <2>4 DEF Commit, CommitLogin, CommitRefresh, CommitSave, MarkUsed, CommitReset,
                  CommitProfile, Abort, UnderWay
    <3> QED
      BY <2>3, <3>1, <3>2
  <2>5. CASE \/ \E k \in Tokens : \/ Register(k) \/ Login(k) \/ ChangePassword(k)
                                  \/ DeleteAccount(k) \/ UpdateProfile(k) \/ ImpersonateUser(k)
                                  \/ \E polling \in BOOLEAN : Serve(k, polling)
             \/ \E r \in Resets : \/ PasswordResetRequest(r)
                                  \/ \E d \in Devices : PasswordResetConfirm(r, d)
    <3>1. \A k \in Tokens : ~Register(k) /\ ~Login(k) /\ ~ImpersonateUser(k)
      BY DEF Register, Login, ImpersonateUser
    <3>2. \A k \in Tokens : ~ChangePassword(k) /\ ~DeleteAccount(k) /\ ~UpdateProfile(k)
      BY <2>2 DEF ChangePassword, DeleteAccount, UpdateProfile
    <3>3. \A k \in Tokens, polling \in BOOLEAN : ~Serve(k, polling)
      BY <2>2 DEF Serve
    <3>4. \A r \in Resets : /\ ~PasswordResetRequest(r)
                            /\ \A d \in Devices : ~PasswordResetConfirm(r, d)
      BY DEF PasswordResetRequest, PasswordResetConfirm
    <3> QED
      BY <2>5, <3>1, <3>2, <3>3, <3>4
  <2>6. CASE BlockUser \/ \E k, new \in Tokens : Refresh(k, new)
    <3>1. /\ UNCHANGED <<user, activity>>
          /\ \A q \in open' : q \in open \/ q.kind \in {"block", "refresh"}
      <4>1. CASE BlockUser
        BY <4>1 DEF BlockUser, Begin
      <4>2. ASSUME NEW k \in Tokens, NEW new \in Tokens, Refresh(k, new)
            PROVE  /\ UNCHANGED <<user, activity>>
                   /\ \A q \in open' : q \in open \/ q.kind \in {"block", "refresh"}
        BY <4>2 DEF Refresh, Begin
      <4> QED
        BY <2>6, <4>1, <4>2
    <3> QED
      BY <2>3, <3>1
  <2>7. CASE VerifyEmail \/ DeactivateCompany
    <3>1. user'.known /\ ~user'.active /\ UNCHANGED <<open, activity>>
      BY <2>1, <2>7 DEF VerifyEmail, DeactivateCompany, UserRow
    <3> QED
      BY <2>3, <3>1
  <2>8. CASE \/ \E k \in Tokens : \/ Logout(k) \/ Refuse(tokens[k].claim) \/ Refuse(tokens[k].born)
             \/ LoseMarks \/ Advance
    <3>1. UNCHANGED <<user, open, activity>>
      BY <2>8 DEF Logout, Refuse, LoseMarks, Advance
    <3> QED
      BY <2>3, <3>1
  <2> QED
    BY <2>4, <2>5, <2>6, <2>7, <2>8 DEF Next
<1> QED
  BY <1>1, SessionsInvariant, PTL DEF Spec, BlockedStaysOut
=============================================================================
