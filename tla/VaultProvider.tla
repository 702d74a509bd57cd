---------------------------- MODULE VaultProvider ----------------------------
(***************************************************************************)
(* Credentials from a vault: the provider singleton (secrets/provider.py), *)
(* OpenBaoProvider with its cached AppRole token (secrets/openbao.py) and  *)
(* CyberArkProvider (secrets/cyberark.py).  Lookups run on worker threads  *)
(* while the operator edits netorch.toml and asks for a reload.  The vault *)
(* is known by what it answers.  Time is counted in units of which Margin  *)
(* make the 60 seconds of the code.                                        *)
(***************************************************************************)
EXTENDS Naturals, Sequences, FiniteSets

CONSTANTS
  Workers,   \* threads, with one lookup each
  Configs,   \* the [vault] sections of netorch.toml, one edit after the other
  Leases,    \* lease durations the vault grants
  Margin,    \* 60 s in units of time
  MaxReloads, MaxTime   \* bounds

Kinds == {"none", "token", "approle", "cyberark"}

ASSUME VaultAssumption ==
  /\ Configs \in Seq(Kinds) /\ Configs # <<>>
  /\ Leases \subseteq Nat /\ Margin \in Nat \ {0} /\ MaxReloads \in Nat /\ MaxTime \in Nat
  /\ "free" \notin Workers

VARIABLES
  config,     \* index of the section netorch.toml has now
  built, current,  \* _provider_built; _provider_instance, an index or 0
  providers,  \* instances made, in order
  lock,       \* holder of _provider_lock
  pc, using,  \* of a lookup: its place, the instance it got
  group,      \* whether it has still the group's secret to try
  held, took, \* the token it sends and when it got it
  answer,     \* "none", "ok" or "error"
  clock, reloads,
  settled, since,  \* history: index a reload made valid; the same at the start of a lookup
  refusals    \* history: <<lease, delay>> of each token refused for its age

singleton == <<config, built, current, lock, reloads, settled>>
lookup    == <<pc, using, group, held, took, answer, since>>
vars      == <<singleton, providers, lookup, clock, refusals>>

NoToken == [issued |-> 0, lease |-> 0, got |-> 0, expiry |-> 0]

At(w, from) == pc[w] = from
Goto(w, to) == pc' = [pc EXCEPT ![w] = to]
Answers(w, a) == Goto(w, "done") /\ answer' = [answer EXCEPT ![w] = a]
Mine(w) == providers[using[w]]

-----------------------------------------------------------------------------
(* provider.py                                                             *)

\* The inventory has no such host, or the password, or leaves it to the vault.
Resolve(w) ==
  /\ At(w, "start") /\ since' = [since EXCEPT ![w] = settled]
  /\ \/ \E a \in {"ok", "error"} : Answers(w, a) /\ UNCHANGED group
     \/ /\ Goto(w, "check") /\ UNCHANGED answer
        /\ \E g \in BOOLEAN : group' = [group EXCEPT ![w] = g]
  /\ UNCHANGED <<singleton, providers, using, held, took, clock, refusals>>

\* _provider_built is looked at without the lock.
CheckBuilt(w) ==
  /\ At(w, "check") /\ Goto(w, IF built THEN "get" ELSE "lock")
  /\ UNCHANGED <<singleton, providers, using, group, held, took, answer, since, clock, refusals>>

LockProvider(w) ==
  /\ At(w, "lock") /\ lock = "free"
  /\ IF built THEN Goto(w, "get") /\ UNCHANGED lock
     ELSE Goto(w, "build") /\ lock' = w
  /\ UNCHANGED <<config, built, current, reloads, settled, providers, using, group,
                 held, took, answer, since, clock, refusals>>

\* _build_provider: a file that cannot be read counts as no vault.
BuildProvider(w) ==
  /\ At(w, "build") /\ Goto(w, "set")
  /\ \E k \in {Configs[config], "none"} :
       providers' = Append(providers, [kind |-> k, config |-> config, lock |-> "free", token |-> NoToken])
  /\ UNCHANGED <<singleton, using, group, held, took, answer, since, clock, refusals>>

\* A section nothing can be made of, a url that is not a string say, raises: the
\* lock is given back and the next lookup tries again.
BuildRaises(w) ==
  /\ At(w, "build") /\ Answers(w, "error") /\ lock' = "free"
  /\ UNCHANGED <<config, built, current, reloads, settled, providers, using, group,
                 held, took, since, clock, refusals>>

\* The instance is there before _provider_built says so.
SetProvider(w) ==
  /\ \/ At(w, "set") /\ current' = Len(providers) /\ Goto(w, "unlock") /\ UNCHANGED <<built, lock>>
     \/ At(w, "unlock") /\ built' = TRUE /\ lock' = "free" /\ Goto(w, "get") /\ UNCHANGED current
  /\ UNCHANGED <<config, reloads, settled, providers, using, group, held, took, answer,
                 since, clock, refusals>>

\* return _provider_instance, outside the lock
GetProvider(w) ==
  /\ At(w, "get") /\ using' = [using EXCEPT ![w] = current]
  /\ IF providers[current].kind = "none" THEN Answers(w, "error")
     ELSE Goto(w, "token") /\ UNCHANGED answer
  /\ UNCHANGED <<singleton, providers, group, held, took, since, clock, refusals>>

\* Slip: reload_provider() does not take the lock.
ReloadUnlocked ==
  /\ reloads < MaxReloads /\ reloads' = reloads + 1
  /\ built' = FALSE /\ settled' = config
  /\ UNCHANGED <<config, current, lock, providers, lookup, clock, refusals>>

\* reload_provider()
Reload ==
  /\ reloads < MaxReloads /\ reloads' = reloads + 1 /\ lock = "free"
  /\ built' = FALSE /\ settled' = config
  /\ UNCHANGED <<config, current, lock, providers, lookup, clock, refusals>>

\* The operator edits netorch.toml.
Edit ==
  /\ config < Len(Configs) /\ config' = config + 1
  /\ UNCHANGED <<built, current, lock, reloads, settled, providers, lookup, clock, refusals>>

-----------------------------------------------------------------------------
(* openbao.py and cyberark.py                                              *)

\* Slip: the token is kept until the vault forgets it.
ExpiryWithoutMargin(lease) == clock + lease

\* max(ttl - 60, 60), counted from the vault's answer
Expiry(lease) == clock + (IF lease < 2 * Margin THEN Margin ELSE lease - Margin)

Sends(w, token) ==
  /\ Goto(w, "send") /\ held' = [held EXCEPT ![w] = token] /\ took' = [took EXCEPT ![w] = clock]

\* Slip: only the look at the expiry is under the lock.
LoginUnlocked(w) ==
  /\ At(w, "token") /\ Mine(w).kind = "approle" /\ Mine(w).lock = "free"
  /\ IF clock < Mine(w).token.expiry THEN Sends(w, Mine(w).token)
     ELSE Goto(w, "login") /\ UNCHANGED <<held, took>>
  /\ UNCHANGED <<singleton, providers, using, group, answer, since, clock, refusals>>

\* _get_token of an AppRole: both the look at the expiry and the login that
\* follows are under the instance's lock.
LockToken(w) ==
  /\ At(w, "token") /\ Mine(w).kind = "approle" /\ Mine(w).lock = "free"
  /\ IF clock < Mine(w).token.expiry
     THEN Sends(w, Mine(w).token) /\ UNCHANGED providers
     ELSE /\ providers' = [providers EXCEPT ![using[w]].lock = w]
          /\ Goto(w, "login") /\ UNCHANGED <<held, took>>
  /\ UNCHANGED <<singleton, using, group, answer, since, clock, refusals>>

\* The vault grants a lease; its answer arrives later.
Grant(w) ==
  /\ At(w, "login") /\ Goto(w, "granted")
  /\ \E l \in Leases :
       held' = [held EXCEPT ![w] = [issued |-> clock, lease |-> l, got |-> 0, expiry |-> 0]]
  /\ UNCHANGED <<singleton, providers, using, group, took, answer, since, clock, refusals>>

LoggedIn(w) ==
  /\ At(w, "granted")
  /\ LET t == [held[w] EXCEPT !.got = clock, !.expiry = Expiry(held[w].lease)]
     IN  Sends(w, t) /\ providers' =
            [providers EXCEPT ![using[w]] = [@ EXCEPT !.token = t, !.lock = "free"]]
  /\ UNCHANGED <<singleton, using, group, answer, since, clock, refusals>>

\* Rejected, or no answer that can be read: the token is left as it was.
LoginFails(w) ==
  /\ pc[w] \in {"login", "granted"} /\ Answers(w, "error")
  /\ providers' = [providers EXCEPT ![using[w]].lock = "free"]
  /\ UNCHANGED <<singleton, using, group, held, took, since, clock, refusals>>

\* A static token, which may be missing, or an AppID.
NoLogin(w) ==
  /\ At(w, "token") /\ Mine(w).kind # "approle"
  /\ \/ Goto(w, "send") /\ UNCHANGED answer
     \/ Mine(w).kind = "token" /\ Answers(w, "error")
  /\ UNCHANGED <<singleton, providers, using, group, held, took, since, clock, refusals>>

TooOld(w) == Mine(w).kind = "approle" /\ clock >= held[w].issued + held[w].lease

\* _fetch_secret, _fetch_account.  404 leads to the group's secret; every other
\* answer but a password, and 403 for an old token, ends the lookup.
Fetch(w) ==
  /\ At(w, "send")
  /\ IF TooOld(w)
     THEN /\ Answers(w, "error") /\ UNCHANGED group
          /\ refusals' = refusals \cup
               {<<held[w].lease, (held[w].got - held[w].issued) + (clock - took[w])>>}
     ELSE /\ \/ \E a \in {"ok", "error"} : Answers(w, a) /\ UNCHANGED group
             \/ group[w] /\ group' = [group EXCEPT ![w] = FALSE]
                /\ Goto(w, "token") /\ UNCHANGED answer
          /\ UNCHANGED refusals
  /\ UNCHANGED <<singleton, providers, using, held, took, since, clock>>

\* Time passes, in calls and between them.
Tick ==
  /\ clock < MaxTime /\ clock' = clock + 1
  /\ UNCHANGED <<singleton, providers, lookup, refusals>>

-----------------------------------------------------------------------------
Init ==
  /\ config = 1 /\ built = FALSE /\ current = 0 /\ providers = <<>> /\ lock = "free"
  /\ pc = [w \in Workers |-> "start"] /\ using = [w \in Workers |-> 0]
  /\ group = [w \in Workers |-> FALSE] /\ held = [w \in Workers |-> NoToken]
  /\ took = using /\ answer = [w \in Workers |-> "none"]
  /\ clock = 0 /\ reloads = 0 /\ settled = 0 /\ since = using /\ refusals = {}

Lookup(w) ==
  \/ Resolve(w) \/ CheckBuilt(w) \/ LockProvider(w) \/ BuildProvider(w) \/ BuildRaises(w)
  \/ SetProvider(w) \/ GetProvider(w) \/ LockToken(w) \/ Grant(w) \/ LoggedIn(w)
  \/ LoginFails(w) \/ NoLogin(w) \/ Fetch(w)

Next == (\E w \in Workers : Lookup(w)) \/ Reload \/ Edit \/ Tick
Spec == Init /\ [][Next]_vars

-----------------------------------------------------------------------------
\* A lookup that starts after a reload was answered uses a provider built from
\* netorch.toml as it was at the reload, or later: reload_provider() is not lost
\* on a thread that is just building (provider.py, _get_provider).
FreshProvider ==
  \A w \in Workers : using[w] # 0 => providers[using[w]].config >= since[w]

\* Workers that need a token together make one login: one is only started when
\* the last token has run out, and none is started while another is under way
\* ("concurrent workers don't trigger duplicate AppRole logins", openbao.py:54).
NoDuplicateLogin ==
  [][\A w \in Workers :
       pc[w] # "login" /\ pc'[w] = "login" =>
         /\ clock >= Mine(w).token.expiry
         /\ \A v \in Workers \ {w} : using[v] = using[w] => pc[v] \notin {"login", "granted"}]_vars

\* The vault refuses a token for its age only if the lease is shorter than two
\* minutes, or the answer to the login and the request that used the token took
\* more than 60 seconds together (openbao.py:222).
OldTokenNeedsDelay ==
  \A r \in refusals : r[1] >= 2 * Margin => r[2] > Margin
==============================================================================
