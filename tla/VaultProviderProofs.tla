------------------------- MODULE VaultProviderProofs -------------------------
(***************************************************************************)
(* Theorems about VaultProvider, for any number of lookups, any sequence   *)
(* of configurations, all leases and any positive margin, without bounds   *)
(* on reloads and time other than those of the specification.              *)
(***************************************************************************)
EXTENDS VaultProvider, TLAPS

-----------------------------------------------------------------------------
(* The inductive invariant                                                 *)

Token    == [issued : Nat, lease : Nat, got : Nat, expiry : Nat]
Provider == [kind : Kinds, config : Nat, lock : Workers \cup {"free"}, token : Token]
Made     == 1..Len(providers)
Places   == {"start", "check", "lock", "build", "set", "unlock", "get", "token",
             "login", "granted", "send", "done"}

\* Types of what the properties depend on.
VaultTypes ==
  /\ config \in 1..Len(Configs) /\ settled \in Nat /\ clock \in Nat
  /\ current \in Nat /\ lock \in Workers \cup {"free"}
  /\ providers \in Seq(Provider)
  /\ pc \in [Workers -> Places] /\ using \in [Workers -> Nat]
  /\ held \in [Workers -> Token] /\ took \in [Workers -> Nat] /\ since \in [Workers -> Nat]

Atleast(i, c) == i \in Made /\ providers[i].config >= c

\* Whoever builds has the lock, so that no reload comes between the look at
\* netorch.toml and _provider_built; what _provider_built vouches for, and what
\* a lookup is about to take, is not older than the reload it knows of.
Singleton ==
  /\ settled <= config
  /\ built => Atleast(current, settled)
  /\ \A w \in Workers :
       /\ pc[w] \in {"build", "set", "unlock"} => lock = w
       /\ pc[w] = "set" => Atleast(Len(providers), settled)
       /\ pc[w] = "unlock" => Atleast(current, settled)
       /\ since[w] <= settled
       /\ pc[w] = "get" => Atleast(current, since[w])
       /\ pc[w] = "start" => using[w] = 0
       /\ using[w] # 0 => Atleast(using[w], since[w])

\* A login is made by the holder of the instance's lock.
Logins ==
  \A w \in Workers :
    /\ pc[w] \in {"token", "login", "granted", "send"} => using[w] \in Made
    /\ pc[w] \in {"login", "granted"} => Mine(w).lock = w

\* Of a long lease, Margin is kept back; a token is sent before its expiry or
\* as soon as it has been got.
Early(t) == t.lease >= 2 * Margin => t.expiry + Margin <= t.got + t.lease

Tokens ==
  /\ \A i \in Made : Early(providers[i].token)
  /\ \A w \in Workers :
       pc[w] = "send" /\ Mine(w).kind = "approle" =>
         Early(held[w]) /\ (took[w] < held[w].expiry \/ took[w] = held[w].got)

VInv == VaultTypes /\ Singleton /\ Logins /\ Tokens /\ OldTokenNeedsDelay

-----------------------------------------------------------------------------
(* Instances of the provider                                               *)

\* Replacing an instance leaves the rest of the sequence alone.
LEMMA PutAt ==
  ASSUME NEW s \in Seq(Provider), NEW i \in 1..Len(s), NEW p \in Provider
  PROVE  /\ [s EXCEPT ![i] = p] \in Seq(Provider)
         /\ Len([s EXCEPT ![i] = p]) = Len(s)
         /\ [s EXCEPT ![i] = p][i] = p
         /\ \A j \in 1..Len(s) : j # i => [s EXCEPT ![i] = p][j] = s[j]
OBVIOUS

\* What a step may do to the instances: one is added or one is changed, in its
\* lock and token alone.
Changed(i, p) ==
  /\ i \in Made /\ providers' \in Seq(Provider) /\ Len(providers') = Len(providers)
  /\ p \in Provider /\ p.kind = providers[i].kind /\ p.config = providers[i].config
  /\ providers'[i] = p
  /\ \A j \in Made : j # i => providers'[j] = providers[j]

\* An instance replaced by one of its kind and configuration.
LEMMA PutChanged ==
  ASSUME providers \in Seq(Provider), NEW i \in Made, NEW p \in Provider,
         p.kind = providers[i].kind, p.config = providers[i].config,
         providers' = [providers EXCEPT ![i] = p]
  PROVE  Changed(i, p)
<1>1. i \in 1..Len(providers)
  BY DEF Made
<1>2. /\ [providers EXCEPT ![i] = p] \in Seq(Provider)
      /\ Len([providers EXCEPT ![i] = p]) = Len(providers)
      /\ [providers EXCEPT ![i] = p][i] = p
      /\ \A j \in 1..Len(providers) : j # i => [providers EXCEPT ![i] = p][j] = providers[j]
  BY <1>1, PutAt
<1> QED BY <1>2 DEF Changed, Made

\* Taking the lock or giving it back.
LEMMA LockChanged ==
  ASSUME VaultTypes, NEW i \in Made, NEW l \in Workers \cup {"free"},
         providers' = [providers EXCEPT ![i].lock = l]
  PROVE  Changed(i, [providers[i] EXCEPT !.lock = l])
<1> DEFINE p == [providers[i] EXCEPT !.lock = l]
<1>1. providers[i] \in Provider
  BY DEF VaultTypes, Made
<1>2. p \in Provider /\ p.kind = providers[i].kind /\ p.config = providers[i].config
  BY <1>1 DEF Provider
<1>3. providers' = [providers EXCEPT ![i] = p]
  OBVIOUS
<1> HIDE DEF p
<1>4. Changed(i, p)
  BY <1>2, <1>3, PutChanged DEF VaultTypes
<1> QED BY <1>4 DEF p

\* Keeping a new token and giving the lock back.
LEMMA TokenChanged ==
  ASSUME VaultTypes, NEW i \in Made, NEW t \in Token,
         providers' = [providers EXCEPT ![i] = [@ EXCEPT !.token = t, !.lock = "free"]]
  PROVE  Changed(i, [providers[i] EXCEPT !.token = t, !.lock = "free"])
<1> DEFINE p == [providers[i] EXCEPT !.token = t, !.lock = "free"]
<1>1. providers[i] \in Provider
  BY DEF VaultTypes, Made
<1>2. p \in Provider /\ p.kind = providers[i].kind /\ p.config = providers[i].config
  BY <1>1 DEF Provider
<1>3. providers' = [providers EXCEPT ![i] = p]
  OBVIOUS
<1> HIDE DEF p
<1>4. Changed(i, p)
  BY <1>2, <1>3, PutChanged DEF VaultTypes
<1> QED BY <1>4 DEF p

\* Instances that were there keep their kind and configuration.
Kept ==
  /\ providers' \in Seq(Provider) /\ Len(providers') >= Len(providers)
  /\ \A i \in Made : /\ providers'[i].config = providers[i].config
                     /\ providers'[i].kind = providers[i].kind

\* A new instance comes last, unlocked and without a token.
LEMMA BuiltLast ==
  ASSUME VaultTypes, NEW w \in Workers, BuildProvider(w)
  PROVE  /\ providers' \in Seq(Provider) /\ Len(providers') = Len(providers) + 1
         /\ \A i \in Made : providers'[i] = providers[i]
         /\ providers'[Len(providers) + 1].config = config
         /\ providers'[Len(providers) + 1].token = NoToken
<1>1. PICK k \in {Configs[config], "none"} :
        providers' = Append(providers, [kind |-> k, config |-> config,
                                        lock |-> "free", token |-> NoToken])
  BY DEF BuildProvider
<1> DEFINE p == [kind |-> k, config |-> config, lock |-> "free", token |-> NoToken]
<1>2. k \in Kinds
  BY VaultAssumption DEF VaultAssumption, VaultTypes, Kinds
<1>3. p \in Provider
  BY <1>2, VaultAssumption DEF Provider, NoToken, Token, VaultTypes, VaultAssumption
<1>4. p.config = config /\ p.token = NoToken
  OBVIOUS
<1>5. providers' = Append(providers, p)
  BY <1>1
<1> HIDE DEF p
<1> QED BY <1>3, <1>4, <1>5 DEF VaultTypes, Made

\* Logging in: what LockToken, LoggedIn and LoginFails do to the instance.
LEMMA LockTokenChanged ==
  ASSUME VaultTypes, Logins, NEW w \in Workers, LockToken(w)
  PROVE  \/ UNCHANGED providers
         \/ /\ Changed(using[w], [Mine(w) EXCEPT !.lock = w])
            /\ pc'[w] = "login" /\ clock >= Mine(w).token.expiry
<1>1. using[w] \in Made
  BY DEF Logins, LockToken, At
<1>2. Mine(w).token.expiry \in Nat
  <2>1. Mine(w) \in Provider
    BY <1>1 DEF VaultTypes, Mine, Made
  <2>2. Mine(w).token \in Token
    BY <2>1 DEF Provider
  <2> QED BY <2>2 DEF Token
<1>3. CASE clock < Mine(w).token.expiry
  BY <1>3 DEF LockToken
<1>4. CASE ~(clock < Mine(w).token.expiry)
  <2>1. providers' = [providers EXCEPT ![using[w]].lock = w] /\ pc'[w] = "login"
    BY <1>4 DEF LockToken, Goto, VaultTypes
  <2>2. Changed(using[w], [Mine(w) EXCEPT !.lock = w])
    BY <1>1, <2>1, LockChanged DEF Mine
  <2> QED BY <1>2, <1>4, <2>1, <2>2 DEF VaultTypes
<1> QED BY <1>3, <1>4

\* The token that LoggedIn keeps.
Fresh(w) == [held[w] EXCEPT !.got = clock, !.expiry = Expiry(held[w].lease)]

\* It is early enough for its lease.
LEMMA FreshToken ==
  ASSUME VaultTypes, NEW w \in Workers
  PROVE  Fresh(w) \in Token /\ Early(Fresh(w)) /\ Fresh(w).got = clock
<1>1. held[w] \in Token
  BY DEF VaultTypes
<1>2. Expiry(held[w].lease) \in Nat
  <2>1. held[w].lease \in Nat /\ clock \in Nat /\ Margin \in Nat \ {0}
    BY <1>1, VaultAssumption DEF Token, VaultTypes, VaultAssumption
  <2> QED BY <2>1 DEF Expiry
<1>3. Fresh(w) \in Token
  BY <1>1, <1>2 DEF Fresh, Token, VaultTypes
<1>4. /\ Fresh(w).got = clock /\ Fresh(w).expiry = Expiry(held[w].lease)
      /\ Fresh(w).lease = held[w].lease
  BY <1>1 DEF Fresh, Token
<1>5. Early(Fresh(w))
  BY <1>1, <1>4, VaultAssumption DEF Early, Expiry, Token, VaultTypes, VaultAssumption
<1> QED BY <1>3, <1>4, <1>5

\* The instance gets the new token and is free again.
LEMMA LoggedInChanged ==
  ASSUME VaultTypes, Logins, NEW w \in Workers, LoggedIn(w)
  PROVE  /\ Changed(using[w], [Mine(w) EXCEPT !.token = Fresh(w), !.lock = "free"])
         /\ pc'[w] = "send" /\ held' = [held EXCEPT ![w] = Fresh(w)]
         /\ took' = [took EXCEPT ![w] = clock]
<1>1. using[w] \in Made
  BY DEF Logins, LoggedIn, At
<1>2. providers' = [providers EXCEPT ![using[w]] = [@ EXCEPT !.token = Fresh(w), !.lock = "free"]]
  BY DEF LoggedIn, Fresh
<1>3. Changed(using[w], [Mine(w) EXCEPT !.token = Fresh(w), !.lock = "free"])
  BY <1>1, <1>2, FreshToken, TokenChanged DEF Mine
<1> QED BY <1>3 DEF LoggedIn, Fresh, Sends, Goto, VaultTypes

\* The instance keeps its old token and is free again.
LEMMA LoginFailsChanged ==
  ASSUME VaultTypes, Logins, NEW w \in Workers, LoginFails(w)
  PROVE  /\ Changed(using[w], [Mine(w) EXCEPT !.lock = "free"])
         /\ pc'[w] = "done"
<1>1. using[w] \in Made
  BY DEF Logins, LoginFails
<1>2. providers' = [providers EXCEPT ![using[w]].lock = "free"] /\ pc'[w] = "done"
  BY DEF LoginFails, Answers, Goto, VaultTypes
<1>3. Changed(using[w], [Mine(w) EXCEPT !.lock = "free"])
  BY <1>1, <1>2, LockChanged DEF Mine
<1> QED BY <1>2, <1>3

\* No step takes an instance away or turns it into another.
LEMMA KeptStep ==
  ASSUME VaultTypes, Logins, [Next]_vars
  PROVE  Kept
<1>1. UNCHANGED providers => Kept
  BY DEF Kept, VaultTypes
<1>2. ASSUME NEW i, NEW p, Changed(i, p) PROVE Kept
  <2>1. providers' \in Seq(Provider) /\ Len(providers') = Len(providers) /\ Len(providers) \in Nat
    BY <1>2 DEF Changed, VaultTypes
  <2>2. \A j \in Made : /\ providers'[j].config = providers[j].config
                        /\ providers'[j].kind = providers[j].kind
    BY <1>2 DEF Changed
  <2> QED BY <2>1, <2>2 DEF Kept
<1>3. ASSUME NEW w \in Workers, Lookup(w) PROVE Kept
  <2>1. CASE BuildProvider(w)
    BY <2>1, BuiltLast DEF Kept, VaultTypes, Made
  <2>2. CASE LockToken(w)
    BY <2>2, <1>1, <1>2, LockTokenChanged
  <2>3. CASE LoggedIn(w)
    BY <2>3, <1>2, LoggedInChanged
  <2>4. CASE LoginFails(w)
    BY <2>4, <1>2, LoginFailsChanged
  <2>5. CASE \/ Resolve(w) \/ CheckBuilt(w) \/ LockProvider(w) \/ BuildRaises(w) \/ SetProvider(w)
             \/ GetProvider(w) \/ Grant(w) \/ NoLogin(w) \/ Fetch(w)
    BY <2>5, <1>1 DEF Resolve, CheckBuilt, LockProvider, BuildRaises, SetProvider, GetProvider,
                      Grant, NoLogin, Fetch
  <2> QED BY <1>3, <2>1, <2>2, <2>3, <2>4, <2>5 DEF Lookup
<1>4. Reload \/ Edit \/ Tick \/ UNCHANGED vars => UNCHANGED providers
  BY DEF Reload, Edit, Tick, vars
<1> QED BY <1>1, <1>3, <1>4 DEF Next

-----------------------------------------------------------------------------
(* Types                                                                   *)

\* Every step keeps the types.
LEMMA TypesStep ==
  ASSUME VaultTypes, Singleton, Logins, [Next]_vars
  PROVE  VaultTypes'
<1>0. providers' \in Seq(Provider)
  BY KeptStep DEF Kept
<1>1. ASSUME NEW w \in Workers, Lookup(w) PROVE VaultTypes'
  <2>1. CASE Resolve(w)
    BY <1>0, <2>1 DEF VaultTypes, Places, Resolve, At, Goto, Answers, singleton
  <2>2. CASE CheckBuilt(w)
    BY <1>0, <2>2 DEF VaultTypes, Places, CheckBuilt, At, Goto, singleton
  <2>3. CASE LockProvider(w)
    BY <1>0, <2>3 DEF VaultTypes, Places, LockProvider, At, Goto
  <2>4. CASE BuildProvider(w)
    BY <1>0, <2>4 DEF VaultTypes, Places, BuildProvider, At, Goto, singleton
  <2>5. CASE SetProvider(w)
    <3>1. Len(providers) \in Nat
      BY DEF VaultTypes
    <3> QED BY <1>0, <2>5, <3>1 DEF VaultTypes, Places, SetProvider, At, Goto
  <2>6. CASE GetProvider(w)
    BY <1>0, <2>6 DEF VaultTypes, Places, GetProvider, At, Goto, Answers, singleton
  <2>7. CASE LockToken(w)
    <3>1. using[w] \in Made
      BY <2>7 DEF Logins, LockToken, At
    <3>2. Mine(w).token \in Token
      <4>1. Mine(w) \in Provider
        BY <3>1 DEF VaultTypes, Mine, Made
      <4> QED BY <4>1 DEF Provider
    <3> QED BY <1>0, <2>7, <3>2 DEF VaultTypes, Places, LockToken, At, Goto, Sends, singleton
  <2>8. CASE Grant(w)
    <3>1. PICK l \in Leases :
            held' = [held EXCEPT ![w] = [issued |-> clock, lease |-> l, got |-> 0, expiry |-> 0]]
      BY <2>8 DEF Grant
    <3>2. [issued |-> clock, lease |-> l, got |-> 0, expiry |-> 0] \in Token
      BY VaultAssumption DEF VaultAssumption, Token, VaultTypes
    <3> QED BY <1>0, <2>8, <3>1, <3>2 DEF VaultTypes, Places, Grant, At, Goto, singleton
  <2>9. CASE LoggedIn(w)
    <3>1. Fresh(w) \in Token
      BY FreshToken
    <3>2. held' = [held EXCEPT ![w] = Fresh(w)] /\ took' = [took EXCEPT ![w] = clock]
      BY <2>9, LoggedInChanged
    <3> QED BY <1>0, <2>9, <3>1, <3>2 DEF VaultTypes, Places, LoggedIn, Sends, Goto, singleton
  <2>10. CASE LoginFails(w)
    BY <1>0, <2>10 DEF VaultTypes, Places, LoginFails, Answers, Goto, singleton
  <2>11. CASE NoLogin(w)
    BY <1>0, <2>11 DEF VaultTypes, Places, NoLogin, Answers, Goto, singleton
  <2>12. CASE Fetch(w)
    BY <1>0, <2>12 DEF VaultTypes, Places, Fetch, Answers, Goto, singleton
  <2>13. CASE BuildRaises(w)
    BY <1>0, <2>13 DEF VaultTypes, Places, BuildRaises, Answers, Goto
  <2> QED BY <1>1, <2>1, <2>2, <2>3, <2>4, <2>5, <2>6, <2>7, <2>8, <2>9, <2>10,
             <2>11, <2>12, <2>13 DEF Lookup
<1>2. Reload \/ Edit \/ Tick \/ UNCHANGED vars => VaultTypes'
  BY <1>0, VaultAssumption DEF VaultTypes, Places, VaultAssumption, Reload, Edit, Tick, vars, singleton, lookup
<1> QED BY <1>1, <1>2 DEF Next

-----------------------------------------------------------------------------
(* The provider singleton                                                  *)

\* An instance stays as new as it was.
LEMMA StaysNew ==
  ASSUME VaultTypes, Kept, NEW i, NEW c, Atleast(i, c)
  PROVE  Atleast(i, c)'
BY DEF Atleast, Kept, Made, VaultTypes

\* Steps of a lookup that has its instance.
LEMMA SingletonKept ==
  ASSUME VaultTypes, Singleton, Kept, NEW w \in Workers, NEW to,
         pc' = [pc EXCEPT ![w] = to], to \notin {"start", "build", "set", "unlock", "get"},
         UNCHANGED <<singleton, using, since>>, Len(providers') = Len(providers)
  PROVE  Singleton'
<1> USE DEF singleton
<1>1. \A i, c : Atleast(i, c) => Atleast(i, c)'
  BY StaysNew
<1>2. (settled <= config /\ (built => Atleast(current, settled)))'
  BY <1>1 DEF Singleton
<1>3. ASSUME NEW v \in Workers
      PROVE  /\ (pc[v] \in {"build", "set", "unlock"} => lock = v)'
             /\ (pc[v] = "unlock" => Atleast(current, settled))'
             /\ (since[v] <= settled)'
             /\ (pc[v] = "get" => Atleast(current, since[v]))'
             /\ (pc[v] = "start" => using[v] = 0)'
             /\ (using[v] # 0 => Atleast(using[v], since[v]))'
             /\ (pc[v] = "set" => Atleast(Len(providers), settled))'
  BY <1>1 DEF Singleton, VaultTypes
<1> QED BY <1>2, <1>3 DEF Singleton

\* An instance is as new as all that it is newer than.
LEMMA NewEnough ==
  ASSUME VaultTypes, NEW i, NEW c \in Nat, NEW d \in Nat, Atleast(i, c), d <= c
  PROVE  Atleast(i, d)
<1>1. i \in Made /\ providers[i] \in Provider
  BY DEF Atleast, Made, VaultTypes
<1>2. providers[i].config \in Nat
  BY <1>1 DEF Provider
<1> QED BY <1>1, <1>2 DEF Atleast

\* The singleton is never older than the last reload.
LEMMA SingletonStep ==
  ASSUME VaultTypes, Singleton, Logins, [Next]_vars
  PROVE  Singleton'
<1> USE DEF singleton
<1>1. Kept /\ VaultTypes'
  BY KeptStep, TypesStep
<1>2. \A i, c : Atleast(i, c) => Atleast(i, c)'
  BY <1>1, StaysNew
<1>3. \A i : Atleast(i, settled) => \A v \in Workers : Atleast(i, since[v])
  BY NewEnough DEF Singleton, VaultTypes
<1>4. ASSUME NEW w \in Workers, Lookup(w) PROVE Singleton'
  <2>1. CASE Resolve(w)
    <3>1. \/ pc' = [pc EXCEPT ![w] = "done"]
          \/ pc' = [pc EXCEPT ![w] = "check"]
      BY <2>1 DEF Resolve, Answers, Goto
    <3>2. using[w] = 0
      BY <2>1 DEF Resolve, At, Singleton
    <3> QED BY <1>2, <2>1, <3>1, <3>2 DEF Resolve, Singleton, VaultTypes
  <2>2. CASE CheckBuilt(w)
    <3>1. pc' = [pc EXCEPT ![w] = IF built THEN "get" ELSE "lock"]
      BY <2>2 DEF CheckBuilt, Goto
    <3> QED BY <1>2, <1>3, <2>2, <3>1 DEF CheckBuilt, Singleton, VaultTypes
  <2>3. CASE LockProvider(w)
    <3>1. CASE built
      BY <1>2, <1>3, <2>3, <3>1 DEF LockProvider, Goto, Singleton, VaultTypes
    <3>2. CASE ~built
      <4>1. \A v \in Workers : pc[v] \notin {"build", "set", "unlock"}
        BY <2>3, VaultAssumption DEF LockProvider, Singleton, VaultAssumption
      <4> QED BY <1>2, <2>3, <3>2, <4>1 DEF LockProvider, Goto, Singleton, VaultTypes
    <3> QED BY <3>1, <3>2
  <2>4. CASE BuildProvider(w)
    <3>1. lock = w /\ pc' = [pc EXCEPT ![w] = "set"]
      BY <2>4 DEF BuildProvider, At, Goto, Singleton
    <3>2. /\ providers' \in Seq(Provider) /\ Len(providers') = Len(providers) + 1
          /\ providers'[Len(providers) + 1].config = config
      BY <2>4, BuiltLast
    <3>3. Atleast(Len(providers), settled)'
      BY <1>1, <2>4, <3>2 DEF Atleast, Made, BuildProvider, Singleton, VaultTypes
    <3> QED BY <1>2, <2>4, <3>1, <3>3 DEF BuildProvider, Singleton, VaultTypes
  <2>5. CASE SetProvider(w)
    <3>1. lock = w
      BY <2>5 DEF SetProvider, At, Singleton
    <3>2. CASE pc[w] = "set"
      <4>1. current' = Len(providers) /\ pc' = [pc EXCEPT ![w] = "unlock"]
        BY <2>5, <3>2 DEF SetProvider, At, Goto
      <4> QED BY <1>2, <1>3, <2>5, <3>1, <3>2, <4>1 DEF SetProvider, At, Singleton, VaultTypes
    <3>3. CASE pc[w] = "unlock"
      <4>1. pc' = [pc EXCEPT ![w] = "get"] /\ current' = current
        BY <2>5, <3>3 DEF SetProvider, At, Goto
      <4> QED BY <1>2, <1>3, <2>5, <3>1, <3>3, <4>1 DEF SetProvider, At, Singleton, VaultTypes
    <3> QED BY <2>5, <3>2, <3>3 DEF SetProvider, At
  <2>6. CASE GetProvider(w)
    <3>1. \/ pc' = [pc EXCEPT ![w] = "done"]
          \/ pc' = [pc EXCEPT ![w] = "token"]
      BY <2>6 DEF GetProvider, Answers, Goto
    <3> QED BY <1>2, <2>6, <3>1 DEF GetProvider, At, Singleton, VaultTypes
  <2>7. CASE LockToken(w)
    <3>1. Len(providers') = Len(providers)
      BY <2>7, LockTokenChanged DEF Changed
    <3>2. PICK to \in {"send", "login"} : pc' = [pc EXCEPT ![w] = to]
      BY <2>7 DEF LockToken, Sends, Goto
    <3> QED BY <1>1, <2>7, <3>1, <3>2, SingletonKept DEF LockToken
  <2>8. CASE LoggedIn(w)
    <3>1. Len(providers') = Len(providers)
      BY <2>8, LoggedInChanged DEF Changed
    <3> QED BY <1>1, <2>8, <3>1, SingletonKept DEF LoggedIn, Sends, Goto
  <2>9. CASE LoginFails(w)
    <3>1. Len(providers') = Len(providers)
      BY <2>9, LoginFailsChanged DEF Changed
    <3> QED BY <1>1, <2>9, <3>1, SingletonKept DEF LoginFails, Answers, Goto
  <2>10. CASE Grant(w) \/ NoLogin(w) \/ Fetch(w)
    <3>1. PICK to \in {"granted", "send", "done", "token"} : pc' = [pc EXCEPT ![w] = to]
      BY <2>10 DEF Grant, NoLogin, Fetch, Answers, Goto
    <3> QED BY <1>1, <2>10, <3>1, SingletonKept DEF Grant, NoLogin, Fetch
  <2>11. CASE BuildRaises(w)
    <3>1. lock = w /\ pc' = [pc EXCEPT ![w] = "done"]
      BY <2>11 DEF BuildRaises, At, Answers, Goto, Singleton
    <3>2. \A v \in Workers \ {w} : pc[v] \notin {"build", "set", "unlock"}
      BY <3>1 DEF Singleton
    <3> QED BY <1>2, <2>11, <3>1, <3>2 DEF BuildRaises, Singleton, VaultTypes
  <2> QED BY <1>4, <2>1, <2>2, <2>3, <2>4, <2>5, <2>6, <2>7, <2>8, <2>9, <2>10, <2>11 DEF Lookup
<1>5. CASE Reload
  <2>1. \A v \in Workers : pc[v] \notin {"build", "set", "unlock"}
    BY <1>5, VaultAssumption DEF Reload, Singleton, VaultAssumption
  <2> QED BY <1>2, <1>5, <2>1 DEF Reload, lookup, Singleton, VaultTypes
<1>6. CASE Edit
  BY <1>2, <1>6 DEF Edit, lookup, Singleton, VaultTypes
<1>7. CASE Tick \/ UNCHANGED vars
  BY <1>2, <1>7 DEF Tick, vars, lookup, Singleton, VaultTypes
<1> QED BY <1>4, <1>5, <1>6, <1>7 DEF Next

-----------------------------------------------------------------------------
(* Logins                                                                  *)

\* A step on an instance that no other lookup logs in with.
LEMMA LoginsKept ==
  ASSUME VaultTypes, Logins, Kept, NEW w \in Workers, NEW p, Changed(using[w], p),
         NEW to \in {"login", "send", "done"}, pc' = [pc EXCEPT ![w] = to],
         to = "login" => p.lock = w, UNCHANGED using, using[w] \in Made,
         \A v \in Workers \ {w} : using[v] = using[w] => pc[v] \notin {"login", "granted"}
  PROVE  Logins'
<1>1. SUFFICES ASSUME NEW v \in Workers
      PROVE  /\ pc'[v] \in {"token", "login", "granted", "send"} => using[v] \in Made'
             /\ pc'[v] \in {"login", "granted"} => providers'[using[v]].lock = v
  BY DEF Logins, Mine
<1>2. CASE v = w
  BY <1>2 DEF Changed, Made, VaultTypes
<1>3. CASE v # w
  <2>1. pc'[v] = pc[v]
    BY <1>3 DEF VaultTypes
  <2>2. pc[v] \in {"login", "granted"} =>
          using[v] \in Made /\ using[v] # using[w] /\ providers[using[v]].lock = v
    BY <1>3 DEF Logins, Mine
  <2>3. Made' = Made
    BY DEF Changed, Made
  <2> QED BY <2>1, <2>2, <2>3 DEF Changed, Logins
<1> QED BY <1>2, <1>3

\* Only the holder of the instance's lock logs in with it.
LEMMA NoOtherLogin ==
  ASSUME Logins, NEW w \in Workers, Mine(w).lock \in {"free", w}
  PROVE  \A v \in Workers \ {w} : using[v] = using[w] => pc[v] \notin {"login", "granted"}
BY VaultAssumption DEF VaultAssumption, Logins, Mine

\* Logins stay with the holder of the lock.
LEMMA LoginsStep ==
  ASSUME VaultTypes, Singleton, Logins, [Next]_vars
  PROVE  Logins'
<1>1. Kept
  BY KeptStep
<1>2. Made \subseteq Made'
  BY <1>1 DEF Kept, Made, VaultTypes
<1>3. ASSUME NEW w \in Workers, Lookup(w) PROVE Logins'
  <2>1. CASE BuildProvider(w)
    <3>1. \A i \in Made : providers'[i] = providers[i]
      BY <2>1, BuiltLast
    <3> QED BY <1>2, <2>1, <3>1 DEF BuildProvider, Goto, Logins, Mine, VaultTypes
  <2>2. CASE GetProvider(w)
    <3>1. current \in Made
      BY <2>2 DEF GetProvider, At, Singleton, Atleast
    <3>2. PICK to \in {"done", "token"} : pc' = [pc EXCEPT ![w] = to]
      BY <2>2 DEF GetProvider, Answers, Goto
    <3> QED BY <1>2, <2>2, <3>1, <3>2 DEF GetProvider, Logins, Mine, VaultTypes
  <2>3. CASE LockToken(w)
    <3>1. using[w] \in Made
      BY <2>3 DEF Logins, LockToken, At
    <3>2. CASE UNCHANGED providers /\ Sends(w, Mine(w).token)
      BY <1>2, <2>3, <3>1, <3>2 DEF LockToken, Sends, Goto, Logins, Mine, VaultTypes
    <3>3. CASE ~(UNCHANGED providers /\ Sends(w, Mine(w).token))
      <4>1. /\ providers' = [providers EXCEPT ![using[w]].lock = w]
            /\ pc' = [pc EXCEPT ![w] = "login"] /\ UNCHANGED using
        BY <2>3, <3>3 DEF LockToken, Goto
      <4>2. Changed(using[w], [Mine(w) EXCEPT !.lock = w])
        BY <3>1, <4>1, LockChanged DEF Mine
      <4>3. [Mine(w) EXCEPT !.lock = w].lock = w
        <5>1. Mine(w) \in Provider
          BY <3>1 DEF VaultTypes, Mine, Made
        <5> QED BY <5>1 DEF Provider
      <4>4. Mine(w).lock = "free"
        BY <2>3 DEF LockToken
      <4>5. \A v \in Workers \ {w} : using[v] = using[w] => pc[v] \notin {"login", "granted"}
        BY <4>4, NoOtherLogin
      <4> DEFINE p == [Mine(w) EXCEPT !.lock = w]
      <4>6. Changed(using[w], p) /\ p.lock = w
        BY <4>2, <4>3
      <4> HIDE DEF p
      <4> QED BY <1>1, <3>1, <4>1, <4>5, <4>6, LoginsKept
    <3> QED BY <3>2, <3>3
  <2>4. CASE LoggedIn(w)
    <3>1. using[w] \in Made /\ Mine(w).lock = w
      BY <2>4 DEF Logins, LoggedIn, At
    <3> DEFINE p == [Mine(w) EXCEPT !.token = Fresh(w), !.lock = "free"]
    <3>2. Changed(using[w], p)
      BY <2>4, LoggedInChanged
    <3>3. \A v \in Workers \ {w} : using[v] = using[w] => pc[v] \notin {"login", "granted"}
      BY <3>1, NoOtherLogin
    <3>4. pc' = [pc EXCEPT ![w] = "send"] /\ UNCHANGED using
      BY <2>4 DEF LoggedIn, Sends, Goto
    <3> HIDE DEF p
    <3> QED BY <1>1, <3>1, <3>2, <3>3, <3>4, LoginsKept
  <2>5. CASE LoginFails(w)
    <3>1. using[w] \in Made /\ Mine(w).lock = w
      BY <2>5 DEF Logins, LoginFails
    <3> DEFINE p == [Mine(w) EXCEPT !.lock = "free"]
    <3>2. Changed(using[w], p)
      BY <2>5, LoginFailsChanged
    <3>3. \A v \in Workers \ {w} : using[v] = using[w] => pc[v] \notin {"login", "granted"}
      BY <3>1, NoOtherLogin
    <3>4. pc' = [pc EXCEPT ![w] = "done"] /\ UNCHANGED using
      BY <2>5 DEF LoginFails, Answers, Goto
    <3> HIDE DEF p
    <3> QED BY <1>1, <3>1, <3>2, <3>3, <3>4, LoginsKept
  <2>6. CASE Grant(w) \/ NoLogin(w) \/ Fetch(w)
    <3>1. /\ UNCHANGED <<providers, using>>
          /\ pc[w] \in {"token", "login", "send"}
          /\ pc' = [pc EXCEPT ![w] = "granted"] => pc[w] = "login"
      BY <2>6 DEF Grant, NoLogin, Fetch, Answers, Goto, At, VaultTypes
    <3>2. PICK to \in {"granted", "send", "done", "token"} : pc' = [pc EXCEPT ![w] = to]
      BY <2>6 DEF Grant, NoLogin, Fetch, Answers, Goto
    <3> QED BY <1>2, <3>1, <3>2 DEF Logins, Mine, VaultTypes
  <2>7. CASE Resolve(w) \/ CheckBuilt(w) \/ LockProvider(w) \/ BuildRaises(w) \/ SetProvider(w)
    <3>1. UNCHANGED <<providers, using>>
      BY <2>7 DEF Resolve, CheckBuilt, LockProvider, BuildRaises, SetProvider
    <3>2. PICK to \in {"done", "check", "get", "lock", "build", "unlock"} :
            pc' = [pc EXCEPT ![w] = to]
      BY <2>7 DEF Resolve, CheckBuilt, LockProvider, BuildRaises, SetProvider, Answers, Goto
    <3> QED BY <1>2, <3>1, <3>2 DEF Logins, Mine, VaultTypes
  <2> QED BY <1>3, <2>1, <2>2, <2>3, <2>4, <2>5, <2>6, <2>7 DEF Lookup
<1>4. Reload \/ Edit \/ Tick \/ UNCHANGED vars => UNCHANGED <<providers, pc, using>>
  BY DEF Reload, Edit, Tick, vars, lookup
<1>5. UNCHANGED <<providers, pc, using>> => Logins'
  BY DEF Logins, Mine, Made
<1> QED BY <1>3, <1>4, <1>5 DEF Next

-----------------------------------------------------------------------------
(* Tokens                                                                  *)

\* Every kept token is early, and so is every token that a lookup sends.
EarlyKept == \A i \in Made : Early(providers[i].token)
EarlySent(w) ==
  pc[w] = "send" /\ Mine(w).kind = "approle" =>
    Early(held[w]) /\ (took[w] < held[w].expiry \/ took[w] = held[w].got)

\* A lookup whose place, token and instance stay sends what it did.
LEMMA SentStays ==
  ASSUME VaultTypes, Logins, Kept, NEW v \in Workers, EarlySent(v),
         pc'[v] = pc[v], using'[v] = using[v], held'[v] = held[v], took'[v] = took[v]
  PROVE  EarlySent(v)'
<1>1. pc[v] = "send" => using[v] \in Made
  BY DEF Logins
<1>2. pc[v] = "send" => Mine(v)'.kind = Mine(v).kind
  BY <1>1 DEF Kept, Mine
<1> QED BY <1>2 DEF EarlySent

\* A changed instance with an early token leaves them all early.
LEMMA ChangedEarly ==
  ASSUME VaultTypes, EarlyKept, NEW i, NEW p, Changed(i, p), Early(p.token)
  PROVE  EarlyKept'
BY DEF EarlyKept, Changed, Made, Early

\* Tokens run out Margin before their lease.
LEMMA TokensStep ==
  ASSUME VaultTypes, Singleton, Logins, Tokens, [Next]_vars
  PROVE  Tokens'
<1>1. Kept
  BY KeptStep
<1>2. EarlyKept /\ \A v \in Workers : EarlySent(v)
  BY DEF Tokens, EarlyKept, EarlySent
<1>3. EarlyKept' /\ (\A v \in Workers : EarlySent(v)') => Tokens'
  BY DEF Tokens, EarlyKept, EarlySent
<1>4. UNCHANGED providers => EarlyKept'
  BY <1>2 DEF EarlyKept, Made
<1>5. ASSUME NEW w \in Workers, Lookup(w) PROVE EarlyKept' /\ EarlySent(w)'
  <2>1. CASE BuildProvider(w)
    <3>1. pc'[w] = "set"
      BY <2>1 DEF BuildProvider, Goto, VaultTypes
    <3>2. /\ Len(providers') = Len(providers) + 1
          /\ \A i \in Made : providers'[i] = providers[i]
          /\ providers'[Len(providers) + 1].token = NoToken
      BY <2>1, BuiltLast
    <3>3. Early(NoToken)
      BY VaultAssumption DEF VaultAssumption, Early, NoToken
    <3>4. Len(providers) \in Nat
      BY DEF VaultTypes
    <3>5. \A i \in Made' : i \in Made \/ i = Len(providers) + 1
      BY <3>2, <3>4 DEF Made
    <3> QED BY <1>2, <3>1, <3>2, <3>3, <3>5 DEF EarlyKept, EarlySent, Early
  <2>2. CASE LockToken(w)
    <3>1. using[w] \in Made
      BY <2>2 DEF Logins, LockToken, At
    <3>2. Mine(w) \in Provider /\ Early(Mine(w).token)
      BY <1>2, <3>1 DEF VaultTypes, Made, Mine, EarlyKept
    <3>3. CASE UNCHANGED providers
      <4>1. CASE Sends(w, Mine(w).token) /\ clock < Mine(w).token.expiry
        <5>1. held'[w] = Mine(w).token /\ took'[w] = clock
          BY <4>1 DEF Sends, VaultTypes
        <5> QED BY <1>4, <3>2, <3>3, <4>1, <5>1 DEF EarlySent
      <4>2. CASE ~(Sends(w, Mine(w).token) /\ clock < Mine(w).token.expiry)
        <5>1. pc'[w] = "login"
          BY <2>2, <4>2 DEF LockToken, Goto, VaultTypes
        <5> QED BY <1>4, <3>3, <5>1 DEF EarlySent
      <4> QED BY <4>1, <4>2
    <3>4. CASE ~UNCHANGED providers
      <4> DEFINE p == [Mine(w) EXCEPT !.lock = w]
      <4>1. Changed(using[w], p) /\ pc'[w] = "login"
        BY <2>2, <3>4, LockTokenChanged
      <4>2. p.token = Mine(w).token
        BY <3>2 DEF Provider
      <4> HIDE DEF p
      <4>3. EarlyKept'
        BY <1>2, <3>2, <4>1, <4>2, ChangedEarly
      <4> QED BY <4>1, <4>3 DEF EarlySent
    <3> QED BY <3>3, <3>4
  <2>3. CASE LoggedIn(w)
    <3>1. Mine(w) \in Provider
      BY <2>3 DEF Logins, LoggedIn, At, VaultTypes, Made, Mine
    <3>2. Fresh(w) \in Token /\ Early(Fresh(w)) /\ Fresh(w).got = clock
      BY FreshToken
    <3> DEFINE p == [Mine(w) EXCEPT !.token = Fresh(w), !.lock = "free"]
    <3>3. Changed(using[w], p) /\ held' = [held EXCEPT ![w] = Fresh(w)]
          /\ took' = [took EXCEPT ![w] = clock]
      BY <2>3, LoggedInChanged
    <3>4. p.token = Fresh(w)
      BY <3>1 DEF Provider
    <3> HIDE DEF p
    <3>5. EarlyKept'
      BY <1>2, <3>2, <3>3, <3>4, ChangedEarly
    <3>6. held'[w] = Fresh(w) /\ took'[w] = clock
      BY <3>3 DEF VaultTypes
    <3> QED BY <3>2, <3>5, <3>6 DEF EarlySent
  <2>4. CASE LoginFails(w)
    <3>1. Mine(w) \in Provider /\ Early(Mine(w).token)
      BY <1>2, <2>4 DEF Logins, LoginFails, VaultTypes, Made, Mine, EarlyKept
    <3> DEFINE p == [Mine(w) EXCEPT !.lock = "free"]
    <3>2. Changed(using[w], p) /\ pc'[w] = "done"
      BY <2>4, LoginFailsChanged
    <3>3. p.token = Mine(w).token
      BY <3>1 DEF Provider
    <3> HIDE DEF p
    <3>4. EarlyKept'
      BY <1>2, <3>1, <3>2, <3>3, ChangedEarly
    <3> QED BY <3>2, <3>4 DEF EarlySent
  <2>5. CASE NoLogin(w)
    <3>1. Mine(w).kind # "approle" /\ UNCHANGED <<providers, using>>
      BY <2>5 DEF NoLogin
    <3> QED BY <1>4, <3>1 DEF EarlySent, Mine
  <2>6. CASE \/ Resolve(w) \/ CheckBuilt(w) \/ LockProvider(w) \/ BuildRaises(w) \/ SetProvider(w)
             \/ GetProvider(w) \/ Grant(w) \/ Fetch(w)
    <3>1. UNCHANGED providers
      BY <2>6 DEF Resolve, CheckBuilt, LockProvider, BuildRaises, SetProvider, GetProvider, Grant, Fetch
    <3>2. pc'[w] # "send"
      BY <2>6 DEF Resolve, CheckBuilt, LockProvider, BuildRaises, SetProvider, GetProvider, Grant,
                  Fetch, Answers, Goto, VaultTypes
    <3> QED BY <1>4, <3>1, <3>2 DEF EarlySent
  <2> QED BY <1>5, <2>1, <2>2, <2>3, <2>4, <2>5, <2>6 DEF Lookup
<1>6. ASSUME NEW w \in Workers, Lookup(w), NEW v \in Workers \ {w}
      PROVE  pc'[v] = pc[v] /\ using'[v] = using[v] /\ held'[v] = held[v] /\ took'[v] = took[v]
  BY <1>6 DEF Lookup, Resolve, CheckBuilt, LockProvider, BuildProvider, BuildRaises, SetProvider, GetProvider,
     LockToken, Grant, LoggedIn, LoginFails, NoLogin, Fetch, Sends, Answers, Goto, VaultTypes
<1>7. ASSUME NEW w \in Workers, Lookup(w) PROVE Tokens'
  <2>1. \A v \in Workers \ {w} : EarlySent(v)'
    BY <1>1, <1>2, <1>6, <1>7, SentStays
  <2> QED BY <1>3, <1>5, <1>7, <2>1
<1>8. Reload \/ Edit \/ Tick \/ UNCHANGED vars => UNCHANGED <<providers, lookup>>
  BY DEF Reload, Edit, Tick, vars
<1>9. UNCHANGED <<providers, lookup>> => Tokens'
  BY DEF Tokens, Made, Mine, Early, lookup
<1> QED BY <1>7, <1>8, <1>9 DEF Next

\* A refused token was early, so that what is left of its lease was spent on
\* calls to the vault.
LEMMA RefusalStep ==
  ASSUME VaultTypes, Tokens, OldTokenNeedsDelay, [Next]_vars
  PROVE  OldTokenNeedsDelay'
<1>1. UNCHANGED refusals => OldTokenNeedsDelay'
  BY DEF OldTokenNeedsDelay
<1>2. ASSUME NEW w \in Workers, Fetch(w), TooOld(w) PROVE OldTokenNeedsDelay'
  <2> DEFINE h == held[w]
             delay == (h.got - h.issued) + (clock - took[w])
  <2>1. refusals' = refusals \cup {<<h.lease, delay>>}
    BY <1>2 DEF Fetch
  <2>2. /\ h.issued \in Nat /\ h.lease \in Nat /\ h.got \in Nat /\ h.expiry \in Nat
        /\ clock \in Nat /\ took[w] \in Nat /\ Margin \in Nat \ {0}
    BY VaultAssumption DEF VaultTypes, Token, VaultAssumption
  <2>3. Early(h) /\ (took[w] < h.expiry \/ took[w] = h.got) /\ clock >= h.issued + h.lease
    BY <1>2 DEF Fetch, At, TooOld, Tokens
  <2>4. h.lease >= 2 * Margin => delay > Margin
    BY <2>2, <2>3 DEF Early
  <2> HIDE DEF h, delay
  <2> QED BY <2>1, <2>4 DEF OldTokenNeedsDelay
<1>3. ASSUME NEW w \in Workers, Lookup(w), ~(Fetch(w) /\ TooOld(w)) PROVE UNCHANGED refusals
  BY <1>3 DEF Lookup, Resolve, CheckBuilt, LockProvider, BuildProvider, BuildRaises, SetProvider, GetProvider,
              LockToken, Grant, LoggedIn, LoginFails, NoLogin, Fetch
<1>4. Reload \/ Edit \/ Tick \/ UNCHANGED vars => UNCHANGED refusals
  BY DEF Reload, Edit, Tick, vars
<1> QED BY <1>1, <1>2, <1>3, <1>4 DEF Next

-----------------------------------------------------------------------------
(* Theorems                                                                *)

\* The invariant holds before the first lookup.
LEMMA InitVInv ==
  ASSUME Init
  PROVE  VInv
<1>1. 1 \in 1..Len(Configs)
  BY VaultAssumption DEF VaultAssumption
<1>2. VaultTypes
  BY <1>1 DEF Init, VaultTypes, Places, Token, NoToken
<1>3. Singleton
  BY DEF Init, Singleton
<1>4. Logins /\ Tokens
  BY DEF Init, Logins, Tokens, Made
<1>5. OldTokenNeedsDelay
  BY DEF Init, OldTokenNeedsDelay
<1> QED BY <1>2, <1>3, <1>4, <1>5 DEF VInv

\* Every step keeps it.
LEMMA StepVInv ==
  ASSUME VInv, [Next]_vars
  PROVE  VInv'
BY TypesStep, SingletonStep, LoginsStep, TokensStep, RefusalStep DEF VInv

\* The invariant holds throughout.
LEMMA VInvHolds == Spec => []VInv
<1>1. Init => VInv
  BY InitVInv
<1>2. VInv /\ [Next]_vars => VInv'
  BY StepVInv
<1> QED BY <1>1, <1>2, PTL DEF Spec

\* A reload is not lost on a thread that is just building the provider: no
\* lookup uses an instance older than the reload answered before it started
\* (_get_provider and reload_provider, provider.py).
THEOREM FreshProviderHolds == Spec => []FreshProvider
<1>1. VInv => FreshProvider
  BY DEF VInv, Singleton, Atleast, FreshProvider
<1> QED BY <1>1, VInvHolds, PTL

\* The vault refuses a token for its age only after a short lease or slow calls,
\* whatever leases it grants (_get_token, openbao.py).
THEOREM OldTokenHolds == Spec => []OldTokenNeedsDelay
<1>1. VInv => OldTokenNeedsDelay
  BY DEF VInv
<1> QED BY <1>1, VInvHolds, PTL

\* Only LockToken starts a login.
LEMMA LoginStarts ==
  ASSUME VInv, [Next]_vars, NEW w \in Workers, pc[w] # "login", pc'[w] = "login"
  PROVE  LockToken(w)
<1>1. ASSUME NEW v \in Workers, Lookup(v) PROVE LockToken(w)
  <2>1. v = w
    BY <1>1 DEF VInv, Lookup, Resolve, CheckBuilt, LockProvider, BuildProvider, BuildRaises, SetProvider,
       GetProvider, LockToken, Grant, LoggedIn, LoginFails, NoLogin, Fetch, Sends, Answers,
       Goto, VaultTypes
  <2>2. \/ Resolve(w) \/ CheckBuilt(w) \/ LockProvider(w) \/ BuildProvider(w) \/ BuildRaises(w)
        \/ SetProvider(w) \/ GetProvider(w) \/ Grant(w) \/ LoggedIn(w) \/ LoginFails(w) \/ NoLogin(w) \/ Fetch(w)
        => pc'[w] # "login"
    BY DEF VInv, Resolve, CheckBuilt, LockProvider, BuildProvider, BuildRaises, SetProvider, GetProvider,
       Grant, LoggedIn, LoginFails, NoLogin, Fetch, Sends, Answers, Goto, VaultTypes
  <2> QED BY <1>1, <2>1, <2>2 DEF Lookup
<1>2. Reload \/ Edit \/ Tick \/ UNCHANGED vars => pc' = pc
  BY DEF Reload, Edit, Tick, vars, lookup
<1> QED BY <1>1, <1>2 DEF Next

\* However many workers need a token together, one of them logs in, and only
\* when the last token has run out (OpenBaoProvider._get_token).
THEOREM LoginOnce == Spec => NoDuplicateLogin
<1> DEFINE Once(w) == pc[w] # "login" /\ pc'[w] = "login" =>
             /\ clock >= Mine(w).token.expiry
             /\ \A v \in Workers \ {w} : using[v] = using[w] => pc[v] \notin {"login", "granted"}
<1>1. ASSUME VInv, [Next]_vars, NEW w \in Workers PROVE Once(w)
  <2>1. SUFFICES ASSUME pc[w] # "login", pc'[w] = "login" PROVE Once(w)
    OBVIOUS
  <2>2. LockToken(w)
    BY <1>1, <2>1, LoginStarts
  <2>3. Mine(w).lock = "free"
    BY <2>2 DEF LockToken
  <2>4. \A v \in Workers \ {w} : using[v] = using[w] => pc[v] \notin {"login", "granted"}
    BY <1>1, <2>3, NoOtherLogin DEF VInv
  <2>5. using[w] \in Made /\ Mine(w) \in Provider
    BY <1>1, <2>2 DEF VInv, Logins, LockToken, At, VaultTypes, Made, Mine
  <2>6. Mine(w).token.expiry \in Nat /\ clock \in Nat
    <3>1. Mine(w).token \in Token
      BY <2>5 DEF Provider
    <3> QED BY <1>1, <3>1 DEF Token, VInv, VaultTypes
  <2>7. clock >= Mine(w).token.expiry
    <3>1. pc \in [Workers -> Places] /\ pc'[w] = "login"
      BY <1>1, <2>1 DEF VInv, VaultTypes
    <3>2. ~(clock < Mine(w).token.expiry)
      BY <2>2, <3>1 DEF LockToken, Sends, Goto
    <3> QED BY <2>6, <3>2
  <2> QED BY <2>4, <2>7
<1>2. VInv /\ [Next]_vars => [\A w \in Workers : Once(w)]_vars
  BY <1>1
<1> QED BY <1>2, VInvHolds, PTL DEF Spec, NoDuplicateLogin
==============================================================================
