---------------------------- MODULE TokenRefresh ----------------------------
(***************************************************************************)
(* Rotation of a subscription login that several Voyage processes share     *)
(* (src/voyage/src/accounts.rs, src/voyage/src/provider/chatgpt_oauth.rs).  *)
(* The credential lives in the host's account registry, one file under one  *)
(* lock; a provider process that finds it expired sets a fence in the       *)
(* registry, spends the refresh token at the provider, and commits the new  *)
(* pair.  No lock is held across the exchange.  The process may die or lose *)
(* the answer at any point, other processes resolve meanwhile, and the host *)
(* owner may sign in again, sign out or remove the account.                 *)
(*                                                                         *)
(* A token is a number in order of issue and stands for the access token    *)
(* and the refresh token issued together; `login' is the provider identity  *)
(* in it.  A binding is the account at one identity generation.  The        *)
(* provider is one that rotates refresh tokens; an answer without a new one *)
(* (the old one is then kept) is outside the model.                         *)
(***************************************************************************)
EXTENDS Naturals, FiniteSets, FiniteSetsExt

CONSTANTS Procs,        \* provider instances, one per process
          Logins,       \* provider identities
          MaxTokens,    \* bound on tokens ever issued
          MaxGen,       \* bound on the identity generation
          MaxExpiries,  \* how many tokens may run out
          MaxLosses     \* deaths and lost answers

RefreshAssumption ==
    /\ IsFiniteSet(Procs) /\ IsFiniteSet(Logins) /\ Logins # {}
    /\ {MaxTokens, MaxGen, MaxExpiries, MaxLosses} \subseteq Nat
    /\ MaxTokens > 0 /\ MaxGen > 0

Tokens == 1..MaxTokens
NoToken == 0
NoFence == 0

VARIABLES
    acct,      \* the registry's Account: generation, state, credential, fence
    login,     \* token -> the identity it carries
    pred,      \* token -> the token it was exchanged for (0: a sign-in)
    issued,    \* tokens issued so far
    sent,      \* token -> times it was sent to the exchange endpoint (history)
    genLogin,  \* generation -> identity it was given to (history)
    expired,   \* access tokens the provider no longer takes
    proc,      \* the provider instances
    fences,    \* fences handed out
    losses

refreshVars == <<acct, login, pred, issued, sent, genLogin, expired, proc, fences, losses>>

NewProc == [pc |-> "unbound", gen |-> 0, cur |-> NoToken, rejected |-> NoToken,
            fence |-> NoFence, got |-> NoToken, recovered |-> FALSE]

RefreshInit ==
    /\ \E l \in Logins :
         /\ acct = [gen |-> 1, state |-> "ready", cred |-> 1, fence |-> NoFence, login |-> l]
         /\ login = [t \in Tokens |-> l]
         /\ genLogin = [g \in 1..MaxGen |-> l]
    /\ pred = [t \in Tokens |-> NoToken]
    /\ issued = 1
    /\ sent = [t \in Tokens |-> 0]
    /\ expired = {}
    /\ proc = [p \in Procs |-> NewProc]
    /\ fences = 0
    /\ losses = 0

Registry == <<acct, login, pred, issued, sent, genLogin, expired, fences>>

\* Mutation: a binding is good for any generation of a ready account.
CheckedAnyGeneration(p) == acct.state = "ready"

\* checked: the binding names the current generation of a ready account.
Checked(p) == acct.state = "ready" /\ acct.gen = proc[p].gen

\* oauth_load: a pending fence hides the credential.
Readable(p) == Checked(p) /\ acct.fence = NoFence

\* Not the token the provider just rejected, and not about to expire.
FreshToken(p, t) == t # proc[p].rejected /\ t \notin expired

-----------------------------------------------------------------------------
(* A provider instance                                                      *)

\* freeze: the account is bound at run admission.
Freeze(p) ==
    /\ proc[p].pc = "unbound"
    /\ acct.state = "ready"
    /\ proc' = [proc EXCEPT ![p].pc = "load", ![p].gen = acct.gen]
    /\ UNCHANGED <<Registry, losses>>

\* A further request, or a retry by the agent loop, under the same binding.
Request(p) ==
    /\ proc[p].pc \in {"done", "failed"}
    /\ proc' = [proc EXCEPT ![p].pc = "load", ![p].rejected = NoToken]
    /\ UNCHANGED <<Registry, losses>>

\* resolve_tokens: what the store holds is used, or refreshed.
Load(p) ==
    /\ proc[p].pc = "load"
    /\ Readable(p)
    /\ proc' = [proc EXCEPT ![p].cur = acct.cred,
                  ![p].pc = IF FreshToken(p, acct.cred) THEN "use" ELSE "begin"]
    /\ UNCHANGED <<Registry, losses>>

\* Mutation: nobody gives up waiting for a pending exchange.
GivesUpNever(p) ==
    proc[p].pc \in {"load", "reload"} /\ ~Checked(p)

\* A binding that is no longer good ends at once; a pending fence after 35
\* seconds of polling.
GivesUp(p) ==
    proc[p].pc \in {"load", "reload"} /\ ~Readable(p)

Unavailable(p) ==
    /\ GivesUp(p)
    /\ proc' = [proc EXCEPT ![p].pc = "failed"]
    /\ UNCHANGED <<Registry, losses>>

\* Mutation: the fence is taken whatever is in the registry.
MayBeginAlways(p) == Checked(p)

\* refresh_begin: only for the credential that was read, only without a fence.
MayBegin(p) == Checked(p) /\ acct.fence = NoFence /\ acct.cred = proc[p].cur

Begin(p) ==
    /\ proc[p].pc = "begin"
    /\ MayBegin(p)
    /\ fences' = fences + 1
    /\ acct' = [acct EXCEPT !.fence = fences + 1]
    /\ proc' = [proc EXCEPT ![p].pc = "exchange", ![p].fence = fences + 1]
    /\ UNCHANGED <<login, pred, issued, sent, genLogin, expired, losses>>

BeginRefused(p) ==
    /\ proc[p].pc = "begin"
    /\ ~MayBegin(p)
    /\ proc' = [proc EXCEPT ![p].pc = "reload"]
    /\ UNCHANGED <<Registry, losses>>

\* Another process may have rotated meanwhile; its result is taken if it is
\* fresh, and nothing is sent otherwise.
Reload(p) ==
    /\ proc[p].pc = "reload"
    /\ Readable(p)
    /\ proc' = [proc EXCEPT ![p].cur = acct.cred,
                  ![p].pc = IF FreshToken(p, acct.cred) THEN "use" ELSE "failed"]
    /\ UNCHANGED <<Registry, losses>>

\* exchange: the provider rotates a token once.  It may answer with the tokens
\* of another login.
Exchange(p) ==
    /\ proc[p].pc = "exchange"
    /\ issued < MaxTokens
    /\ sent[proc[p].cur] = 0
    /\ sent' = [sent EXCEPT ![proc[p].cur] = 1]
    /\ issued' = issued + 1
    /\ pred' = [pred EXCEPT ![issued + 1] = proc[p].cur]
    /\ \E l \in Logins : login' = [login EXCEPT ![issued + 1] = l]
    /\ proc' = [proc EXCEPT ![p].pc = "save", ![p].got = issued + 1]
    /\ UNCHANGED <<acct, genLogin, expired, fences, losses>>

\* Mutation: a failed exchange gives the fence back.
ExchangeFailsOpen(p) ==
    /\ proc[p].pc = "exchange"
    /\ losses < MaxLosses
    /\ losses' = losses + 1
    /\ sent' = [sent EXCEPT ![proc[p].cur] = @ + 1]
    /\ acct' = [acct EXCEPT !.fence = NoFence]
    /\ proc' = [proc EXCEPT ![p].pc = "failed"]
    /\ UNCHANGED <<login, pred, issued, genLogin, expired, fences>>

\* The exchange was sent and its outcome is not known, or it was refused.  The
\* fence stays: nobody may send that refresh token again.
ExchangeFails(p) ==
    /\ proc[p].pc = "exchange"
    /\ losses < MaxLosses
    /\ losses' = losses + 1
    /\ sent' = [sent EXCEPT ![proc[p].cur] = @ + 1]
    /\ proc' = [proc EXCEPT ![p].pc = "failed"]
    /\ UNCHANGED <<acct, login, pred, issued, genLogin, expired, fences>>

\* Mutation: the commit does not look at the fence.
MaySaveUnfenced(p) ==
    /\ Checked(p)
    /\ login[proc[p].got] = acct.login

\* oauth_save: the binding, the fence and the identity must all still hold.
MaySave(p) ==
    /\ Checked(p)
    /\ acct.fence = proc[p].fence
    /\ login[proc[p].got] = acct.login

Save(p) ==
    /\ proc[p].pc = "save"
    /\ MaySave(p)
    /\ acct' = [acct EXCEPT !.cred = proc[p].got, !.fence = NoFence]
    /\ proc' = [proc EXCEPT ![p].pc = "use", ![p].cur = proc[p].got]
    /\ UNCHANGED <<login, pred, issued, sent, genLogin, expired, fences, losses>>

SaveRefused(p) ==
    /\ proc[p].pc = "save"
    /\ ~MaySave(p)
    /\ proc' = [proc EXCEPT ![p].pc = "failed"]
    /\ UNCHANGED <<Registry, losses>>

\* send_authenticated: the request goes out and is not rejected as expired.
Use(p) ==
    /\ proc[p].pc = "use"
    /\ proc[p].cur \notin expired
    /\ proc' = [proc EXCEPT ![p].pc = "done"]
    /\ UNCHANGED <<Registry, losses>>

\* A 401 that names the expiry forces one refresh per provider instance.
Rejected(p) ==
    /\ proc[p].pc = "use"
    /\ proc[p].cur \in expired
    /\ proc' = IF proc[p].recovered THEN [proc EXCEPT ![p].pc = "failed"]
               ELSE [proc EXCEPT ![p].pc = "load", ![p].rejected = proc[p].cur,
                                 ![p].recovered = TRUE]
    /\ UNCHANGED <<Registry, losses>>

\* The process dies, or execution authority is withdrawn before it goes on.
Die(p) ==
    /\ proc[p].pc \in {"begin", "exchange", "save"}
    /\ losses < MaxLosses
    /\ losses' = losses + 1
    /\ proc' = [proc EXCEPT ![p] = NewProc]
    /\ UNCHANGED Registry

-----------------------------------------------------------------------------
(* The provider's clock and the host owner                                  *)

TokenExpires ==
    /\ acct.cred \in Tokens \ expired
    /\ Cardinality(expired) < MaxExpiries
    /\ expired' = expired \cup {acct.cred}
    /\ UNCHANGED <<acct, login, pred, issued, sent, genLogin, proc, fences, losses>>

\* Mutation: signing in as somebody else keeps the generation.
ReauthenticateInPlace(l) ==
    /\ acct.state # "removed"
    /\ issued < MaxTokens
    /\ issued' = issued + 1
    /\ login' = [login EXCEPT ![issued + 1] = l]
    /\ pred' = [pred EXCEPT ![issued + 1] = NoToken]
    /\ acct' = [acct EXCEPT !.login = l, !.cred = issued + 1, !.fence = NoFence,
                            !.state = "ready"]
    /\ UNCHANGED <<sent, genLogin, expired, proc, fences, losses>>

\* Mutation: signing in brings a removed account back.
ReauthenticateRemoved(l) ==
    LET gen == IF l = acct.login THEN acct.gen ELSE acct.gen + 1 IN
    /\ issued < MaxTokens
    /\ gen <= MaxGen
    /\ issued' = issued + 1
    /\ login' = [login EXCEPT ![issued + 1] = l]
    /\ pred' = [pred EXCEPT ![issued + 1] = NoToken]
    /\ genLogin' = [genLogin EXCEPT ![gen] = l]
    /\ acct' = [gen |-> gen, login |-> l, cred |-> issued + 1, fence |-> NoFence,
                state |-> "ready"]
    /\ UNCHANGED <<sent, expired, proc, fences, losses>>

\* reauthenticate_oauth with explicit replacement allowed: the same login keeps
\* the generation, another one advances it.
Reauthenticate(l) ==
    LET gen == IF l = acct.login THEN acct.gen ELSE acct.gen + 1 IN
    /\ acct.state # "removed"
    /\ issued < MaxTokens
    /\ gen <= MaxGen
    /\ issued' = issued + 1
    /\ login' = [login EXCEPT ![issued + 1] = l]
    /\ pred' = [pred EXCEPT ![issued + 1] = NoToken]
    /\ genLogin' = [genLogin EXCEPT ![gen] = l]
    /\ acct' = [gen |-> gen, login |-> l, cred |-> issued + 1, fence |-> NoFence,
                state |-> "ready"]
    /\ UNCHANGED <<sent, expired, proc, fences, losses>>

\* Mutation: the credential goes and the account still reads as ready.
LogoutStaysReady(remove) ==
    /\ acct.state # "removed"
    /\ acct.gen < MaxGen
    /\ acct' = [acct EXCEPT !.gen = @ + 1, !.cred = NoToken, !.fence = NoFence,
                            !.state = IF remove THEN "removed" ELSE @]
    /\ genLogin' = [genLogin EXCEPT ![acct.gen + 1] = acct.login]
    /\ UNCHANGED <<login, pred, issued, sent, expired, proc, fences, losses>>

\* logout: a tombstone and a new generation in one checkpoint.
Logout(remove) ==
    /\ acct.state # "removed"
    /\ acct.gen < MaxGen
    /\ acct' = [acct EXCEPT !.gen = @ + 1, !.cred = NoToken, !.fence = NoFence,
                            !.state = IF remove THEN "removed" ELSE "signed out"]
    /\ genLogin' = [genLogin EXCEPT ![acct.gen + 1] = acct.login]
    /\ UNCHANGED <<login, pred, issued, sent, expired, proc, fences, losses>>

ResolveStep(p) ==
    \/ Load(p) \/ Unavailable(p) \/ Begin(p) \/ BeginRefused(p) \/ Reload(p)
    \/ Exchange(p) \/ ExchangeFails(p) \/ Save(p) \/ SaveRefused(p)
    \/ Use(p) \/ Rejected(p)

RefreshNext ==
    \/ \E p \in Procs : Freeze(p) \/ Request(p) \/ ResolveStep(p) \/ Die(p)
    \/ TokenExpires
    \/ \E l \in Logins : Reauthenticate(l)
    \/ \E remove \in BOOLEAN : Logout(remove)

RefreshSpec == RefreshInit /\ [][RefreshNext]_refreshVars

\* Every resolution runs on.
RefreshFairness == \A p \in Procs : WF_refreshVars(ResolveStep(p))
RefreshFairSpec == RefreshSpec /\ RefreshFairness

-----------------------------------------------------------------------------

RefreshTypeOK ==
    /\ acct \in [gen : 1..MaxGen, state : {"ready", "signed out", "removed"},
                 cred : 0..MaxTokens, fence : Nat, login : Logins]
    /\ acct.state = "ready" <=> acct.cred # NoToken
    /\ issued \in Tokens /\ expired \subseteq Tokens
    /\ login \in [Tokens -> Logins] /\ pred \in [Tokens -> 0..MaxTokens]
    /\ \A p \in Procs :
         /\ proc[p].pc \in {"unbound", "load", "begin", "reload", "exchange", "save",
                            "use", "done", "failed"}
         /\ {proc[p].cur, proc[p].got, proc[p].rejected} \subseteq 0..MaxTokens

\* A refresh token is sent to the provider at most once, by any process, however
\* the exchanges are interrupted ("Never replay its effect", chatgpt_oauth.rs
\* 1015; "Token rotation may already have happened", 1081).
NeverReplayed ==
    \A t \in Tokens : sent[t] <= 1

\* What the registry offers without a fence can still be exchanged: an exchange
\* that was sent, whatever became of it, left its fence behind or was committed
\* (accounts.rs 710-750).
OfferedIsUnspent ==
    (acct.state = "ready" /\ acct.fence = NoFence) => sent[acct.cred] = 0

\* A process only ever uses tokens of the login its binding was made for, across
\* replacements of the login behind the same account.
SameLogin ==
    \A p \in Procs : proc[p].pc = "use" => login[proc[p].cur] = genLogin[proc[p].gen]

\* A commit only ever replaces the very credential it was exchanged for: an
\* exchange that ends late cannot overwrite a newer sign-in, nor undo a sign-out
\* ("Old refresh commits cannot resurrect a logged-out account",
\* accounts/INTEGRATION.md).
NoLateCommit ==
    acct'.cred \in Tokens \ {acct.cred} => pred'[acct'.cred] \in {NoToken, acct.cred}

\* A removed account stays removed.
RemovedForGood ==
    acct.state = "removed" => acct' = acct

\* Nobody waits forever for a fence whose owner is gone.
ResolutionEnds ==
    \A p \in Procs : (proc[p].pc = "load") ~> (proc[p].pc \in {"done", "failed", "exchange", "unbound"})

\* Two processes, sign-outs and failed exchanges never replay a refresh token nor
\* mix two logins (chatgpt_oauth.rs, accounts.rs).
TokenRefreshSafety == RefreshTypeOK /\ NeverReplayed /\ OfferedIsUnspent /\ SameLogin

\* No step brings an old credential or a removed account back:
\* [][Steps]_vars.
RefreshSteps == NoLateCommit /\ RemovedForGood
=============================================================================
