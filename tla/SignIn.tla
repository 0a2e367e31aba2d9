------------------------------- MODULE SignIn -------------------------------
(***************************************************************************)
(* Signing in with a wallet: the backend's store of challenges and its     *)
(* session tokens (wallet-auth.ts, auth.ts), and the browser tabs that ask *)
(* for them (auth/session.ts, EmbeddedWallet.tsx, withSession of           *)
(* lib/fiat.ts).  A handler of the backend is one step and so is a turn of *)
(* a tab's event loop: when a login's promise settles, everybody awaiting  *)
(* it in that tab resumes in the same turn.                                *)
(*                                                                         *)
(* Signatures are not modelled: whoever signs a challenge signs the text   *)
(* of that challenge, for its wallet.                                      *)
(***************************************************************************)
EXTENDS Integers, Sequences, FiniteSets

CONSTANTS
    Wallet, Tab,
    Owner,                        \* the wallet a tab's e-mail login opens
    Request,                      \* authenticated calls a tab may have open
    MaxPending, MaxPerWallet,     \* maxPending, maxPendingPerWallet
    MaxAttempts,                  \* maxAttempts
    ChallengeTtl, SessionTtl,     \* challengeTtlMs, sessionTtlSeconds
    Skew,                         \* SKEW_SECS
    MaxNow, MaxChallenges, MaxLogins, MaxRestarts,  \* bounds
    None

ASSUME SignInAssumption ==
    /\ Owner \in [Tab -> Wallet]
    /\ MaxPending \in Nat \ {0} /\ MaxPerWallet \in Nat \ {0} /\ MaxAttempts \in Nat \ {0}
    /\ ChallengeTtl \in Nat \ {0} /\ SessionTtl \in Nat \ {0} /\ Skew \in Nat
    /\ None \notin Nat

VARIABLES
    now,
    (* The backend. *)
    pending,     \* nonces of the stored challenges: they are numbered as issued
    tickets,     \* every challenge issued: nonce -> its text and its fate
    epoch,       \* which SESSION_SECRET signs tokens
    restarts,
    (* The browser. *)
    stored,      \* localStorage: wallet -> session, shared by the tabs
    cache,       \* tab -> session
    inFlight,    \* tab -> the login other callers share, or None
    logins,      \* requestSession calls, in the order they began
    account,     \* tab -> the embedded wallet's status
    linking,     \* tab -> logins an `adopt` awaits
    calls        \* tab, request -> a withSession call

backend == <<pending, tickets, epoch, restarts>>
browser == <<stored, cache, inFlight, logins, account, linking, calls>>
vars    == <<now, backend, browser>>

NoCall == [pc |-> "idle"]

Init ==
    /\ now = 0 /\ epoch = 0 /\ restarts = 0
    /\ pending = {} /\ tickets = <<>>
    /\ stored = [w \in Wallet |-> None]
    /\ cache = [t \in Tab |-> None] /\ inFlight = [t \in Tab |-> None]
    /\ logins = <<>>
    /\ account = [t \in Tab |-> "idle"] /\ linking = [t \in Tab |-> {}]
    /\ calls = [t \in Tab |-> [r \in Request |-> NoCall]]

-----------------------------------------------------------------------------
(* createWalletAuth *)
Without(n)     == pending \ {n}
Unexpired      == {n \in pending : tickets[n].expiresAt > now}
OfWallet(S, w) == {n \in S : tickets[n].wallet = w}
Newer(S, n)    == {m \in S : m > n}
Older(S, n)    == {m \in S : m < n}

(* Full store: the oldest go. *)
WithRoom(S) ==
    IF Cardinality(S) < MaxPending THEN S
    ELSE {n \in S : Cardinality(Newer(S, n)) < MaxPending - 1}

(* Too many for one wallet: its newest go, down to a free slot. *)
BadQuota(S, w) ==
    {n \in S : tickets[n].wallet = w => Cardinality(Newer(OfWallet(S, w), n)) < MaxPerWallet - 1}
WithinQuota(S, w) ==
    {n \in S : tickets[n].wallet = w => Cardinality(Older(OfWallet(S, w), n)) < MaxPerWallet - 1}

(* challenge.  crowded, attempts, grantedAt and sessions are the ticket's   *)
(* story; the store itself keeps the wallet, the expiry and the attempts.   *)
Challenge(w) ==
    LET room == WithRoom(Unexpired)
        kept == WithinQuota(room, w)
    IN /\ Len(tickets) < MaxChallenges
       /\ tickets' = Append(tickets,
             [wallet |-> w, expiresAt |-> now + ChallengeTtl, attempts |-> 0, process |-> restarts,
              crowded |-> Cardinality(OfWallet(room, w)) >= MaxPerWallet - 1,
              sessions |-> 0, grantedAt |-> None])
       /\ pending' = kept \cup {Len(tickets) + 1}
       /\ UNCHANGED <<epoch, restarts>>

Stored(n) == n \in pending

(* verifyLogin with the challenge's own signature.  An expired challenge is *)
(* dropped by the refusal.                                                  *)
Valid(n) == Stored(n) /\ tickets[n].expiresAt > now
Granted(n) == [tickets EXCEPT ![n].sessions = @ + 1, ![n].grantedAt = now]
VerifyLogin(n) ==
    /\ tickets' = IF Valid(n) THEN Granted(n) ELSE tickets
    /\ pending' = Without(n)
    /\ UNCHANGED <<epoch, restarts>>

(* Anybody may ask for a challenge for any address, and the holder of one   *)
(* may send a wrong signature.                                              *)
StrangerAsks(w) ==
    /\ Challenge(w)
    /\ UNCHANGED <<now, browser>>

WrongSignature(n) ==
    /\ Valid(n)
    /\ tickets' = [tickets EXCEPT ![n].attempts = @ + 1]
    /\ pending' = IF tickets[n].attempts + 1 >= MaxAttempts THEN Without(n) ELSE pending
    /\ UNCHANGED <<now, epoch, restarts, browser>>

(* A new process: no challenges, and a new secret unless one is configured. *)
Restart ==
    /\ restarts < MaxRestarts
    /\ restarts' = restarts + 1
    /\ pending' = {}
    /\ epoch' \in {epoch, restarts + 1}
    /\ UNCHANGED <<now, tickets, browser>>

(* verifySessionToken *)
Accepted(s) == s.epoch = epoch /\ s.expiresAt > now

-----------------------------------------------------------------------------
(* auth/session.ts.  The operators return what obtainSession finds and does *)
(* on the values c, f, m of cache[t], inFlight[t], stored[Owner[t]].        *)
isFresh(s)   == s # None /\ s.expiresAt - now > Skew
held(t)      == IF cache[t] # None THEN cache[t] ELSE
                IF isFresh(stored[Owner[t]]) THEN stored[Owner[t]] ELSE None

NewLogin(t) == [tab |-> t, pc |-> "ask", nonce |-> None, session |-> None, abandoned |-> FALSE]
(* clearSession forgets the login others share, and with it what it brings. *)
Forgotten(t) == IF inFlight[t] = None THEN logins
                ELSE [logins EXCEPT ![inFlight[t]].abandoned = TRUE]

(* obtainSession, given a session or none: it is either at hand, or a login *)
(* (a new one unless one is in flight) is awaited.                          *)
AtHand(t)      == isFresh(held(t))
JoinLogin(t) ==
    IF inFlight[t] # None
      THEN UNCHANGED <<inFlight, logins>>
      ELSE /\ Len(logins) < MaxLogins
           /\ logins' = Append(logins, NewLogin(t))
           /\ inFlight' = [inFlight EXCEPT ![t] = Len(logins) + 1]

(* A login asks for a challenge and signs it, ... *)
Ask(l) ==
    /\ logins[l].pc = "ask"
    /\ Challenge(Owner[logins[l].tab])
    /\ logins' = [logins EXCEPT ![l].pc = "signed", ![l].nonce = Len(tickets) + 1]
    /\ UNCHANGED <<now, stored, cache, inFlight, account, linking, calls>>

(* ... trades the signature for a token, ... *)
Verify(l) ==
    /\ logins[l].pc = "signed"
    /\ VerifyLogin(logins[l].nonce)
    /\ logins' = IF Valid(logins[l].nonce)
         THEN [logins EXCEPT ![l].pc = "granted",
                 ![l].session = [login |-> l, expiresAt |-> now + SessionTtl, epoch |-> epoch]]
         ELSE [logins EXCEPT ![l].pc = "failed"]
    /\ UNCHANGED <<now, stored, cache, inFlight, account, linking, calls>>

(* A verify request is delivered again. *)
Repeat(l) ==
    /\ logins[l].session # None
    /\ VerifyLogin(logins[l].nonce)
    /\ UNCHANGED <<now, browser>>

(* ... or fails on the way: a lost answer, a signature declined. *)
Fail(l) ==
    /\ logins[l].pc \in {"ask", "signed", "granted"}
    /\ logins' = [logins EXCEPT ![l].pc = "failed"]
    /\ UNCHANGED <<now, backend, stored, cache, inFlight, account, linking, calls>>

BadMayKeep(t, l) == inFlight[t] # None
may_keep(t, l)   == inFlight[t] = l

(* The promise settles: obtainSession's continuation, then every awaiting   *)
(* caller's: `adopt` goes on whatever came of the login, a call goes on     *)
(* with the token or gives up.                                              *)
Settle(l) ==
    LET t == logins[l].tab
        s == IF logins[l].pc = "granted" THEN logins[l].session ELSE None
    IN /\ logins[l].pc \in {"granted", "failed"}
       /\ logins' = [logins EXCEPT ![l].pc = "done"]
       /\ IF may_keep(t, l)
            THEN /\ inFlight' = [inFlight EXCEPT ![t] = None]
                 /\ cache' = IF s = None THEN cache ELSE [cache EXCEPT ![t] = s]
                 /\ stored' = IF s = None THEN stored ELSE [stored EXCEPT ![Owner[t]] = s]
            ELSE UNCHANGED <<inFlight, cache, stored>>
       /\ account' = IF l \in linking[t] THEN [account EXCEPT ![t] = "ready"] ELSE account
       /\ linking' = [linking EXCEPT ![t] = @ \ {l}]
       /\ calls' = [calls EXCEPT ![t] = [r \in Request |->
             LET c == calls[t][r] IN
             IF c.pc # "await" \/ c.login # l THEN c
             ELSE IF s = None THEN NoCall
             ELSE [pc |-> "send", try |-> c.try, since |-> c.since, session |-> s]]]
       /\ UNCHANGED <<now, backend>>

-----------------------------------------------------------------------------
(* EmbeddedWallet.tsx *)
(* adopt, link: the wallet is shown once the session request has settled. *)
SignInWith(t) ==
    /\ account[t] = "idle"
    /\ IF AtHand(t)
         THEN /\ cache' = [cache EXCEPT ![t] = held(t)]
              /\ account' = [account EXCEPT ![t] = "ready"]
              /\ UNCHANGED <<inFlight, logins, linking>>
         ELSE /\ JoinLogin(t)
              /\ account' = [account EXCEPT ![t] = "linking"]
              /\ linking' = [linking EXCEPT ![t] = @ \cup {inFlight'[t]}]
              /\ UNCHANGED cache
    /\ UNCHANGED <<now, backend, stored, calls>>

(* AccountMenu's leave, and signOut, which clears the session of the wallet *)
(* on show, if one is.  The provider unmounts: an `adopt` still waiting     *)
(* shows nobody.                                                            *)
SignOut(t) ==
    /\ account[t] # "idle"
    /\ account' = [account EXCEPT ![t] = "idle"]
    /\ IF account[t] = "ready"
         THEN /\ cache' = [cache EXCEPT ![t] = None]
              /\ inFlight' = [inFlight EXCEPT ![t] = None]
              /\ stored' = [stored EXCEPT ![Owner[t]] = None]
              /\ logins' = Forgotten(t)
         ELSE UNCHANGED <<cache, inFlight, stored, logins>>
    /\ linking' = [linking EXCEPT ![t] = {}]
    /\ UNCHANGED <<now, backend, calls>>

(* The tab reloads: its memory goes, its logins have nobody to settle for.  *)
Reload(t) ==
    /\ account[t] # "idle"
    /\ account' = [account EXCEPT ![t] = "idle"]
    /\ cache' = [cache EXCEPT ![t] = None] /\ inFlight' = [inFlight EXCEPT ![t] = None]
    /\ linking' = [linking EXCEPT ![t] = {}]
    /\ calls' = [calls EXCEPT ![t] = [r \in Request |-> NoCall]]
    /\ logins' = [l \in DOMAIN logins |->
                     IF logins[l].tab = t THEN [logins[l] EXCEPT !.pc = "done"] ELSE logins[l]]
    /\ UNCHANGED <<now, backend, stored>>

-----------------------------------------------------------------------------
(* withSession *)
Call(t, r) ==
    /\ account[t] = "ready" /\ calls[t][r] = NoCall
    /\ IF AtHand(t)
         THEN /\ cache' = [cache EXCEPT ![t] = held(t)]
              /\ calls' = [calls EXCEPT ![t][r] =
                    [pc |-> "send", try |-> 1, since |-> 0, session |-> held(t)]]
              /\ UNCHANGED <<inFlight, logins>>
         ELSE /\ JoinLogin(t)
              /\ calls' = [calls EXCEPT ![t][r] =
                    [pc |-> "await", try |-> 1, since |-> 0, login |-> inFlight'[t]]]
              /\ UNCHANGED cache
    /\ UNCHANGED <<now, backend, stored, account, linking>>

Answered(t, r) ==
    /\ calls[t][r].pc = "send" /\ Accepted(calls[t][r].session)
    /\ calls' = [calls EXCEPT ![t][r] = NoCall]
    /\ UNCHANGED <<now, backend, stored, cache, inFlight, logins, account, linking>>

(* The first 401: clearSession, then obtainSession, which finds nothing.    *)
Refused(t, r) ==
    LET c == calls[t][r] IN
    /\ c.pc = "send" /\ c.try = 1 /\ ~Accepted(c.session)
    /\ Len(logins) < MaxLogins
    /\ stored' = [stored EXCEPT ![Owner[t]] = None]
    /\ cache' = [cache EXCEPT ![t] = None]
    /\ inFlight' = [inFlight EXCEPT ![t] = Len(logins) + 1]
    /\ logins' = Append(Forgotten(t), NewLogin(t))
    /\ calls' = [calls EXCEPT ![t][r] =
          [pc |-> "await", try |-> 2, since |-> Len(logins), login |-> Len(logins) + 1]]
    /\ UNCHANGED <<now, backend, account, linking>>

(* The second is the caller's to see. *)
GivenUp(t, r) ==
    /\ calls[t][r].pc = "send" /\ calls[t][r].try = 2 /\ ~Accepted(calls[t][r].session)
    /\ calls' = [calls EXCEPT ![t][r] = NoCall]
    /\ UNCHANGED <<now, backend, stored, cache, inFlight, logins, account, linking>>

Tick ==
    /\ now < MaxNow
    /\ now' = now + 1
    /\ UNCHANGED <<backend, browser>>

Next ==
    \/ \E w \in Wallet : StrangerAsks(w)
    \/ \E n \in DOMAIN tickets : WrongSignature(n)
    \/ Restart
    \/ \E l \in DOMAIN logins : Ask(l) \/ Verify(l) \/ Repeat(l) \/ Fail(l) \/ Settle(l)
    \/ \E t \in Tab : SignInWith(t) \/ SignOut(t) \/ Reload(t)
    \/ \E t \in Tab, r \in Request : Call(t, r) \/ Answered(t, r) \/ Refused(t, r) \/ GivenUp(t, r)
    \/ Tick

Spec == Init /\ [][Next]_vars

-----------------------------------------------------------------------------
(* A challenge is worth one session, and only before it expires.            *)
SingleUse ==
    \A n \in DOMAIN tickets :
        /\ tickets[n].sessions <= 1
        /\ tickets[n].sessions = 1 => tickets[n].grantedAt < tickets[n].expiresAt

(* A flood of challenges, for the same address or for others, takes a live  *)
(* challenge away only once a whole store of later ones has been issued, or *)
(* when it held its wallet's last slot; a wrong signature, only once the    *)
(* attempts are used up.                                                    *)
Lost(n) ==
    /\ ~Stored(n) /\ tickets[n].sessions = 0
    /\ tickets[n].expiresAt > now /\ tickets[n].process = restarts
OutlivesFlood ==
    \A n \in DOMAIN tickets : Lost(n) =>
        \/ Len(tickets) - n >= MaxPending
        \/ tickets[n].crowded
        \/ tickets[n].attempts >= MaxAttempts

ChallengesHold == SingleUse /\ OutlivesFlood

(* A login that clearSession abandoned leaves no session behind in the tab  *)
(* or in storage, however late it is answered; a tab has one login that is  *)
(* not abandoned; and the retry of a refused call never goes out with a     *)
(* session from before the refusal, so a second refusal is news.            *)
AbandonedLeavesNothing ==
    /\ \A t \in Tab : cache[t] # None => ~logins[cache[t].login].abandoned
    /\ \A w \in Wallet : stored[w] # None => ~logins[stored[w].login].abandoned
OneLogin ==
    \A l \in DOMAIN logins :
        logins[l].pc # "done" /\ ~logins[l].abandoned => inFlight[logins[l].tab] = l
RetryIsFresh ==
    \A t \in Tab, r \in Request :
        LET c == calls[t][r] IN c.pc = "send" => c.try = 1 \/ c.session.login > c.since

SessionsSound == AbandonedLeavesNothing /\ OneLogin /\ RetryIsFresh
=============================================================================
