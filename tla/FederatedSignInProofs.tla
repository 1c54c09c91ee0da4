------------------------ MODULE FederatedSignInProofs ------------------------
(***************************************************************************)
(* Proofs about FederatedSignIn, for every set of environments, providers    *)
(* and browsers and every bound: one inductive invariant (IInv) ties the     *)
(* cookies of a browser, the caches of request ids and the callbacks in      *)
(* progress to the logins they belong to. A lemma per part of it follows     *)
(* the lemmas on what a step may do to the logins, the calls and the caches. *)
(***************************************************************************)
EXTENDS FederatedSignIn, FiniteSetTheorems, TLAPS

--------------------------------------------------------------------------------
\* The cache of request ids.

\* The end of a sequence without repetitions has none, and nothing new.
LEMMA SuffixProps ==
  ASSUME NEW S, NEW q \in Seq(S), NEW n \in Nat, IsInjective(q)
  PROVE  LET r == SubSeq(q, 1 + n, Len(q))
         IN  r \in Seq(S) /\ Len(r) <= Len(q) /\ ToSet(r) \subseteq ToSet(q) /\ IsInjective(r)
<1> DEFINE r == SubSeq(q, 1 + n, Len(q))
<1>1. /\ r \in Seq(S) /\ Len(r) <= Len(q)
      /\ \A i \in 1..Len(r) : i + n \in 1..Len(q) /\ r[i] = q[i + n]
  OBVIOUS
<1>2. DOMAIN r = 1..Len(r) /\ DOMAIN q = 1..Len(q)
  BY <1>1
<1> HIDE DEF r
<1>3. ToSet(r) \subseteq ToSet(q)
  BY <1>1, <1>2 DEF ToSet
<1>4. ASSUME NEW i \in 1..Len(r), NEW j \in 1..Len(r), r[i] = r[j] PROVE i = j
  <2>1. i + n = j + n
    BY <1>1, <1>2, <1>4 DEF IsInjective
  <2> QED
    BY <2>1
<1>5. IsInjective(r)
  BY <1>2, <1>4 DEF IsInjective
<1> QED
  BY <1>1, <1>3, <1>5 DEF r

\* So is what is left of it without one element.
LEMMA RemoveAtProps ==
  ASSUME NEW S, NEW q \in Seq(S), NEW k \in 1..Len(q), IsInjective(q)
  PROVE  LET r == RemoveAt(q, k)
         IN  /\ r \in Seq(S) /\ Len(r) <= Len(q)
             /\ ToSet(r) \subseteq ToSet(q) \ {q[k]} /\ IsInjective(r)
<1> DEFINE a == SubSeq(q, 1, k - 1)
           b == SubSeq(q, k + 1, Len(q))
           r == RemoveAt(q, k)
           at(i) == IF i < k THEN i ELSE i + 1
<1>1. /\ a \in Seq(S) /\ Len(a) = k - 1
      /\ \A i \in 1..(k - 1) : a[i] = q[i]
  OBVIOUS
<1>2. /\ b \in Seq(S) /\ Len(b) = Len(q) - k
      /\ \A i \in 1..(Len(q) - k) : b[i] = q[k + i]
  OBVIOUS
<1>3. r = a \o b
  BY DEF RemoveAt
<1> HIDE DEF a, b, r
<1>4. /\ r \in Seq(S) /\ Len(r) = Len(q) - 1
      /\ \A i \in 1..(k - 1) : r[i] = a[i]
      /\ \A i \in k..(Len(q) - 1) : r[i] = b[i - (k - 1)]
  BY <1>1, <1>2, <1>3
<1>5. \A i \in 1..Len(r) : at(i) \in 1..Len(q) /\ at(i) # k /\ r[i] = q[at(i)]
  <2> TAKE i \in 1..Len(r)
  <2>1. CASE i < k
    BY <2>1, <1>1, <1>4
  <2>2. CASE i >= k
    <3>1. r[i] = b[i - (k - 1)] /\ i - (k - 1) \in 1..(Len(q) - k)
      BY <2>2, <1>4
    <3>2. b[i - (k - 1)] = q[k + (i - (k - 1))]
      BY <3>1, <1>2
    <3> QED
      BY <2>2, <3>1, <3>2, <1>4
  <2> QED
    BY <2>1, <2>2
<1>6. DOMAIN r = 1..Len(r) /\ DOMAIN q = 1..Len(q)
  BY <1>4
<1>7. ToSet(r) \subseteq ToSet(q) \ {q[k]}
  BY <1>5, <1>6 DEF ToSet, IsInjective
<1>8. ASSUME NEW i \in 1..Len(r), NEW j \in 1..Len(r), r[i] = r[j] PROVE i = j
  <2>1. at(i) = at(j)
    BY <1>5, <1>6, <1>8 DEF IsInjective
  <2> QED
    BY <2>1
<1>9. IsInjective(r)
  BY <1>6, <1>8 DEF IsInjective
<1> QED
  BY <1>4, <1>7, <1>9 DEF r

\* A new element at the end.
LEMMA AppendProps ==
  ASSUME NEW S, NEW q \in Seq(S), NEW l, l \notin ToSet(q), IsInjective(q)
  PROVE  /\ Append(q, l) \in Seq(S \cup {l}) /\ Len(Append(q, l)) = Len(q) + 1
         /\ ToSet(Append(q, l)) \subseteq ToSet(q) \cup {l}
         /\ IsInjective(Append(q, l))
<1> DEFINE r == Append(q, l)
<1>1. /\ r \in Seq(S \cup {l}) /\ Len(r) = Len(q) + 1
      /\ \A i \in 1..Len(q) : r[i] = q[i]
      /\ r[Len(q) + 1] = l
  OBVIOUS
<1>2. DOMAIN r = 1..(Len(q) + 1) /\ DOMAIN q = 1..Len(q)
  BY <1>1
<1> HIDE DEF r
<1>3. ToSet(r) \subseteq ToSet(q) \cup {l}
  BY <1>1, <1>2 DEF ToSet
<1>4. \A i \in 1..Len(q) : r[i] # l
  BY <1>1, <1>2 DEF ToSet
<1>5. IsInjective(r)
  BY <1>1, <1>2, <1>4 DEF IsInjective
<1> QED
  BY <1>1, <1>3, <1>5 DEF r

\* A saved id joins ids that were there before, never more of them than the limit.
LEMMA SaveProps ==
  ASSUME NEW S, NEW q \in Seq(S), NEW l, l \notin ToSet(q), IsInjective(q), Len(q) <= CacheMax
  PROVE  /\ Save(q, l) \in Seq(S \cup {l}) /\ Len(Save(q, l)) <= CacheMax
         /\ ToSet(Save(q, l)) \subseteq ToSet(q) \cup {l}
         /\ IsInjective(Save(q, l))
<1> DEFINE I == {i \in DOMAIN q : IdTooOld(q[i])}
           live == Prune(q)
           kept == IF Len(live) >= CacheMax THEN Tail(live) ELSE live
<1>1. Cardinality(I) \in Nat
  <2>1. DOMAIN q = 1..Len(q)
    OBVIOUS
  <2>2. IsFiniteSet(1..Len(q))
    BY FS_Interval
  <2>3. IsFiniteSet(I)
    BY <2>1, <2>2, FS_Subset
  <2> QED
    BY <2>3, FS_CardinalityType
<1>2. live = SubSeq(q, 1 + Cardinality(I), Len(q))
  BY DEF Prune
<1> HIDE DEF I, live
<1>3. /\ live \in Seq(S) /\ Len(live) <= Len(q)
      /\ ToSet(live) \subseteq ToSet(q) /\ IsInjective(live)
  BY <1>1, <1>2, SuffixProps
<1>4. /\ kept \in Seq(S) /\ Len(kept) < CacheMax
      /\ ToSet(kept) \subseteq ToSet(q) /\ IsInjective(kept)
  <2>1. CASE Len(live) >= CacheMax
    <3>1. Len(live) = CacheMax /\ Len(live) > 0
      BY <2>1, <1>3, BoundsAssumption
    <3>2. Tail(live) = SubSeq(live, 1 + 1, Len(live)) /\ Len(Tail(live)) = Len(live) - 1
      BY <3>1, <1>3
    <3>3. kept = Tail(live)
      BY <2>1
    <3>4. /\ Tail(live) \in Seq(S) /\ IsInjective(Tail(live))
          /\ ToSet(Tail(live)) \subseteq ToSet(live)
      <4> DEFINE r == SubSeq(live, 1 + 1, Len(live))
      <4>1. r \in Seq(S) /\ ToSet(r) \subseteq ToSet(live) /\ IsInjective(r)
        BY <1>3, SuffixProps, Zenon
      <4> QED
        BY <3>2, <4>1
    <3>5. Len(Tail(live)) < CacheMax
      BY <3>1, <3>2, BoundsAssumption
    <3> QED
      BY <3>3, <3>4, <3>5, <1>3
  <2>2. CASE Len(live) < CacheMax
    BY <2>2, <1>3, BoundsAssumption
  <2> QED
    BY <2>1, <2>2, <1>3, BoundsAssumption
<1>5. Save(q, l) = Append(kept, l)
  BY DEF Save, live
<1> HIDE DEF kept
<1>6. l \notin ToSet(kept)
  BY <1>4
<1>7. /\ Append(kept, l) \in Seq(S \cup {l}) /\ Len(Append(kept, l)) = Len(kept) + 1
      /\ ToSet(Append(kept, l)) \subseteq ToSet(kept) \cup {l}
      /\ IsInjective(Append(kept, l))
  BY <1>4, <1>6, AppendProps
<1>8. Len(kept) + 1 <= CacheMax
  BY <1>4, BoundsAssumption
<1> QED
  BY <1>4, <1>5, <1>7, <1>8

\* A forgotten id is gone; nothing else comes in.
LEMMA ForgetProps ==
  ASSUME NEW S, NEW q \in Seq(S), NEW l, IsInjective(q)
  PROVE  /\ Forget(q, l) \in Seq(S) /\ Len(Forget(q, l)) <= Len(q)
         /\ ToSet(Forget(q, l)) \subseteq ToSet(q) \ {l}
         /\ IsInjective(Forget(q, l))
<1>1. DOMAIN q = 1..Len(q)
  OBVIOUS
<1>2. CASE ~Contains(q, l)
  BY <1>1, <1>2 DEF Forget, Contains, ToSet
<1>3. CASE Contains(q, l)
  <2> DEFINE k == CHOOSE i \in DOMAIN q : q[i] = l
  <2>1. k \in 1..Len(q) /\ q[k] = l
    BY <1>1, <1>3 DEF Contains
  <2>2. Forget(q, l) = RemoveAt(q, k)
    BY <1>3 DEF Forget
  <2> HIDE DEF k
  <2> QED
    BY <2>1, <2>2, RemoveAtProps
<1> QED
  BY <1>2, <1>3

--------------------------------------------------------------------------------
\* The invariant.

Cached(k) == \E p \in ProviderIds : k \in ToSet(cache[p])

\* The answer to this login cannot lead to a session any more.
Spent(l) == IF logins[l].protocol = "oidc" THEN l \in redeemed ELSE ~Cached(l)

\* The jar j of browser b when the logins are L and those of P have parted from their
\* hints: a transaction cookie and a session are those of a login this browser began, the
\* session is of the provider it was begun with and has its hint beside it.
JarFine(b, j, L, P) ==
  /\ \A q \in Protocols : j[q] # None => j[q] \in DOMAIN L /\ L[j[q]].browser = b
  /\ j.session # None =>
       LET l == j.session
       IN  /\ l \in DOMAIN L /\ L[l].browser = b /\ L[l].issuer = j.via
           /\ l \in P \/ j[HintOf[L[l].protocol]] = l

JarOK == \A b \in Browsers : JarFine(b, jar[b], logins, parted)

\* A refresh answer renews a session that its browser had.
RenewalsOK ==
  \A r \in renewals :
    /\ r \in Renewal
    /\ logins[r.session].browser = r.browser /\ logins[r.session].issuer = r.via

\* What a cache holds is a login that was begun with its provider as it is configured
\* now, or a finished logout's request; a login that led to a session is spent.
Item(p, k) ==
  \/ /\ k \in LoginIds /\ logins[k].protocol = "saml" /\ logins[k].provider = p
     /\ logins[k].issuer = Config(p).issuer
  \/ k - MaxLogins \in DOMAIN calls /\ calls[k - MaxLogins].pc \in {"leave", "done"}

CacheOK ==
  /\ \A p \in ProviderIds : IsInjective(cache[p]) /\ \A k \in ToSet(cache[p]) : Item(p, k)
  /\ \A l \in LoginIds : logins[l].used => Spent(l)
  /\ Len(logins) <= MaxLogins

\* A callback past its first step has the transaction of its browser and its path; one
\* that was accepted answers it, as the provider it was begun with, and spends it.
CallOK(c) ==
  LET l == calls[c].login
      tx == calls[c].tx
      pc == calls[c].pc
  IN  /\ l \in LoginIds /\ calls[c].kind = logins[l].protocol
      /\ calls[c].at \in ProviderIds /\ calls[c].issuer \in Issuers
      /\ pc \notin {"revoke", "idp", "leave"}
      /\ pc = "refused" \/ /\ tx \in LoginIds /\ logins[tx].browser = calls[c].browser
                           /\ logins[tx].provider = calls[c].at
      /\ pc \in {"client", "exchange"} => calls[c].kind = "oidc"
      /\ pc \in {"validate", "consume"} => calls[c].kind = "saml"
      /\ calls[c].kind = "oidc" => calls[c].issuer = logins[l].issuer
      /\ pc = "consume" => logins[l].issuer = Config(calls[c].at).issuer
      /\ pc \in {"resolve", "record", "accepted"} =>
           tx = l /\ calls[c].issuer = logins[l].issuer /\ Spent(l)
      /\ calls[c].replay =>
           logins[l].used /\ pc \notin {"consume", "resolve", "record", "accepted"}

CallbackOK ==
  \A c \in DOMAIN calls : calls[c].kind # "logout" /\ calls[c].pc # "done" => CallOK(c)

\* A logout that asks for a client has a hint of a login.
LogoutOK ==
  \A c \in DOMAIN calls :
    /\ calls[c].kind = "logout" \/ calls[c].pc = "done" => ~calls[c].replay
    /\ calls[c].kind = "logout" => calls[c].pc \in {"revoke", "idp", "leave", "done"}
    /\ calls[c].pc = "idp" => calls[c].login \in LoginIds

IInv == TypeOK /\ JarOK /\ RenewalsOK /\ CacheOK /\ CallbackOK /\ LogoutOK

--------------------------------------------------------------------------------
\* Types.

\* An element is replaced by another of its set.
LEMMA UpdateSeq ==
  ASSUME NEW S, NEW q \in Seq(S), NEW i \in DOMAIN q, NEW x \in S
  PROVE  /\ [q EXCEPT ![i] = x] \in Seq(S)
         /\ DOMAIN [q EXCEPT ![i] = x] = DOMAIN q /\ Len([q EXCEPT ![i] = x]) = Len(q)
  OBVIOUS

\* A sequence over a set is one over a larger set.
LEMMA MonoSeq ==
  ASSUME NEW S, NEW T, S \subseteq T, NEW q \in Seq(S)
  PROVE  q \in Seq(T)
  OBVIOUS

LEMMA LoginTyped ==
  ASSUME logins \in Seq(Login), NEW k \in LoginIds
  PROVE  /\ logins[k] \in Login
         /\ logins[k].browser \in Browsers /\ logins[k].provider \in ProviderIds
         /\ logins[k].protocol \in Protocols /\ logins[k].issuer \in Issuers
         /\ logins[k].used \in BOOLEAN
<1>1. logins[k] \in Login
  BY DEF LoginIds
<1> QED
  BY <1>1 DEF Login

\* What a login is never changes, nor that it led to a session; later ones are appended.
Fixed(l) ==
  /\ logins'[l].browser = logins[l].browser /\ logins'[l].provider = logins[l].provider
  /\ logins'[l].protocol = logins[l].protocol /\ logins'[l].issuer = logins[l].issuer
  /\ logins[l].used => logins'[l].used

LoginsGrow ==
  /\ logins' \in Seq(Login) /\ Len(logins) <= Len(logins') /\ Len(logins') <= MaxLogins
  /\ \A l \in LoginIds : Fixed(l)

\* A step that changes the progress of one login, or of none.
LEMMA LoginEdited ==
  ASSUME logins \in Seq(Login), Len(logins) <= MaxLogins, NEW l \in LoginIds, NEW r \in Login,
         r.browser = logins[l].browser, r.provider = logins[l].provider,
         r.protocol = logins[l].protocol, r.issuer = logins[l].issuer, logins[l].used => r.used,
         logins' = [logins EXCEPT ![l] = r]
  PROVE  LoginsGrow
<1>1. logins' \in Seq(Login) /\ Len(logins') = Len(logins)
  BY UpdateSeq DEF LoginIds
<1>2. \A k \in LoginIds : logins'[k] = IF k = l THEN r ELSE logins[k]
  BY DEF LoginIds
<1> QED
  BY <1>1, <1>2 DEF LoginsGrow, Fixed

LEMMA LoginsKept ==
  ASSUME logins \in Seq(Login), Len(logins) <= MaxLogins, logins' = logins
  PROVE  LoginsGrow
  BY DEF LoginsGrow, Fixed

\* A provider that is offered has an issuer.
LEMMA ConfigIssuer ==
  ASSUME NEW p \in PublicProviders
  PROVE  Config(p).issuer \in Issuers /\ p \in ProviderIds
<1> DEFINE mine == {r \in Entries : r.env = env}
           P(r) == r.env = env /\ r.id = p /\ r.protocol = ProtocolOf(p)
<1>1. PICK r \in Entries : r.env = env /\ r.id = p
  BY DEF PublicProviders
<1>2. r.protocol \in {"oidc", "saml"}
  BY DEF Entries, Declarations, Protocols
<1>3. \E s \in Entries : P(s)
  <2>1. CASE \E s \in Entries : s.env = env /\ s.protocol = "oidc" /\ s.id = p
    BY <2>1 DEF ProtocolOf, Served
  <2>2. CASE ~ \E s \in Entries : s.env = env /\ s.protocol = "oidc" /\ s.id = p
    BY <2>2, <1>1, <1>2 DEF ProtocolOf, Served
  <2> QED
    BY <2>1, <2>2
<1>4. Config(p) = (CHOOSE s \in Entries : P(s)).config
  BY DEF Config
<1>5. (CHOOSE s \in Entries : P(s)) \in Entries
  BY <1>3
<1>6. p \in ProviderIds
  BY <1>1 DEF ProviderIds
<1> QED
  BY <1>4, <1>5, <1>6, IssuersAssumption

\* A renewal or the end of a hint only touches the jar.
LEMMA SessionQuiet ==
  SessionStep => /\ UNCHANGED <<env, clients, cache, old, logins, calls, redeemed, disturbed>>
                 /\ faults' = faults \/ Fault
  BY DEF SessionStep, Refresh, RefreshAnswered, RefreshRejected, HintExpires

\* No step changes what a login is.
LEMMA LoginsStep == IInv /\ [Next]_vars => LoginsGrow
<1> SUFFICES ASSUME IInv, [Next]_vars PROVE LoginsGrow
  OBVIOUS
<1>0. logins \in Seq(Login) /\ Len(logins) <= MaxLogins /\ calls \in Seq(Call)
  BY DEF IInv, TypeOK, CacheOK
<1>1. ASSUME NEW b \in Browsers, NEW p \in ProviderIds, StartLogin(b, p) PROVE LoginsGrow
  <2> DEFINE q == ProtocolOf(p)
             r == [browser |-> b, provider |-> p, protocol |-> q, issuer |-> Config(p).issuer,
                   step |-> IF q = "saml" THEN "answer" ELSE "discover",
                   saved |-> q = "saml", taken |-> FALSE, used |-> FALSE]
  <2>1. Config(p).issuer \in Issuers /\ q \in Protocols
    BY <1>1, ConfigIssuer DEF StartLogin, ProtocolOf, Protocols
  <2>2. r \in Login
    BY <2>1 DEF Login
  <2>3. logins' = Append(logins, r) /\ Len(logins) + 1 <= MaxLogins
    BY <1>1 DEF StartLogin
  <2> HIDE DEF r
  <2> QED
    BY <1>0, <2>2, <2>3, BoundsAssumption DEF LoginsGrow, Fixed, LoginIds
<1>2. ASSUME NEW k \in LoginIds, Discovered(k) PROVE LoginsGrow
  <2> DEFINE l == k
             r == [logins[l] EXCEPT !.step = "answer"]
  <2>1. l \in LoginIds
    OBVIOUS
  <2>2. logins[l] \in Login
    BY <1>0, <2>1 DEF LoginIds
  <2>3. /\ r \in Login
        /\ r.browser = logins[l].browser /\ r.provider = logins[l].provider
        /\ r.protocol = logins[l].protocol /\ r.issuer = logins[l].issuer
        /\ (logins[l].used => r.used)
    BY <2>2 DEF Login
  <2>4. logins' = [logins EXCEPT ![l] = r] \/ logins' = logins
    BY <1>2 DEF Discovered
  <2> HIDE DEF l, r
  <2> QED
    BY <1>0, <2>1, <2>2, <2>3, <2>4, LoginEdited, LoginsKept
<1>3. ASSUME NEW k \in LoginIds, LoginAnswered(k) PROVE LoginsGrow
  <2> DEFINE l == k
             r == [logins[l] EXCEPT !.step = "asked"]
  <2>1. l \in LoginIds
    OBVIOUS
  <2>2. logins[l] \in Login
    BY <1>0, <2>1 DEF LoginIds
  <2>3. /\ r \in Login
        /\ r.browser = logins[l].browser /\ r.provider = logins[l].provider
        /\ r.protocol = logins[l].protocol /\ r.issuer = logins[l].issuer
        /\ (logins[l].used => r.used)
    BY <2>2 DEF Login
  <2>4. logins' = [logins EXCEPT ![l] = r] \/ logins' = logins
    BY <1>3 DEF LoginAnswered
  <2> HIDE DEF l, r
  <2> QED
    BY <1>0, <2>1, <2>2, <2>3, <2>4, LoginEdited, LoginsKept
<1>4. ASSUME NEW k \in LoginIds, LoginFails(k) PROVE LoginsGrow
  <2> DEFINE l == k
             r == [logins[l] EXCEPT !.step = "over"]
  <2>1. l \in LoginIds
    OBVIOUS
  <2>2. logins[l] \in Login
    BY <1>0, <2>1 DEF LoginIds
  <2>3. /\ r \in Login
        /\ r.browser = logins[l].browser /\ r.provider = logins[l].provider
        /\ r.protocol = logins[l].protocol /\ r.issuer = logins[l].issuer
        /\ (logins[l].used => r.used)
    BY <2>2 DEF Login
  <2>4. logins' = [logins EXCEPT ![l] = r] \/ logins' = logins
    BY <1>4 DEF LoginFails
  <2> HIDE DEF l, r
  <2> QED
    BY <1>0, <2>1, <2>2, <2>3, <2>4, LoginEdited, LoginsKept
<1>5. ASSUME NEW c \in DOMAIN calls, Consume(c) PROVE LoginsGrow
  <2> DEFINE l == calls[c].login
             r == [logins[l] EXCEPT !.taken = TRUE]
  <2>1. l \in LoginIds
    BY <1>5 DEF IInv, CallbackOK, CallOK, LogoutOK, Consume, At
  <2>2. logins[l] \in Login
    BY <1>0, <2>1 DEF LoginIds
  <2>3. /\ r \in Login
        /\ r.browser = logins[l].browser /\ r.provider = logins[l].provider
        /\ r.protocol = logins[l].protocol /\ r.issuer = logins[l].issuer
        /\ (logins[l].used => r.used)
    BY <2>2 DEF Login
  <2>4. logins' = [logins EXCEPT ![l] = r] \/ logins' = logins
    BY <1>5 DEF Consume
  <2> HIDE DEF l, r
  <2> QED
    BY <1>0, <2>1, <2>2, <2>3, <2>4, LoginEdited, LoginsKept
<1>6. ASSUME NEW c \in DOMAIN calls, CallbackFails(c) PROVE LoginsGrow
  <2> DEFINE l == calls[c].login
             r == [logins[l] EXCEPT !.taken = TRUE]
  <2>1. l \in LoginIds
    BY <1>6 DEF IInv, CallbackOK, CallOK, LogoutOK, CallbackFails, At
  <2>2. logins[l] \in Login
    BY <1>0, <2>1 DEF LoginIds
  <2>3. /\ r \in Login
        /\ r.browser = logins[l].browser /\ r.provider = logins[l].provider
        /\ r.protocol = logins[l].protocol /\ r.issuer = logins[l].issuer
        /\ (logins[l].used => r.used)
    BY <2>2 DEF Login
  <2>4. logins' = [logins EXCEPT ![l] = r] \/ logins' = logins
    BY <1>6 DEF CallbackFails
  <2> HIDE DEF l, r
  <2> QED
    BY <1>0, <2>1, <2>2, <2>3, <2>4, LoginEdited, LoginsKept
<1>7. ASSUME NEW c \in DOMAIN calls, Record(c) PROVE LoginsGrow
  <2> DEFINE l == calls[c].login
             r == [logins[l] EXCEPT !.used = TRUE]
  <2>1. l \in LoginIds
    BY <1>7 DEF IInv, CallbackOK, CallOK, LogoutOK, Record, At, Goto
  <2>2. logins[l] \in Login
    BY <1>0, <2>1 DEF LoginIds
  <2>3. /\ r \in Login
        /\ r.browser = logins[l].browser /\ r.provider = logins[l].provider
        /\ r.protocol = logins[l].protocol /\ r.issuer = logins[l].issuer
        /\ (logins[l].used => r.used)
    BY <2>2 DEF Login
  <2>4. logins' = [logins EXCEPT ![l] = r] \/ logins' = logins
    BY <1>7 DEF Record
  <2> HIDE DEF l, r
  <2> QED
    BY <1>0, <2>1, <2>2, <2>3, <2>4, LoginEdited, LoginsKept
<1>8. ASSUME NEW p \in ProviderIds, NEW k \in 1..(MaxLogins + MaxCalls), LogoutCallback(p, k)
      PROVE  LoginsGrow
  <2>1. CASE k \notin LoginIds
    BY <1>0, <1>8, <2>1, LoginsKept DEF LogoutCallback
  <2>2. CASE k \in LoginIds
    <3> DEFINE r == [logins[k] EXCEPT !.taken = TRUE]
    <3>1. logins[k] \in Login
      BY <1>0, <2>2 DEF LoginIds
    <3>2. /\ r \in Login
          /\ r.browser = logins[k].browser /\ r.provider = logins[k].provider
          /\ r.protocol = logins[k].protocol /\ r.issuer = logins[k].issuer
          /\ (logins[k].used => r.used)
      BY <3>1 DEF Login
    <3>3. logins' = [logins EXCEPT ![k] = r]
      BY <1>8, <2>2 DEF LogoutCallback
    <3> HIDE DEF r
    <3> QED
      BY <1>0, <2>2, <3>1, <3>2, <3>3, LoginEdited
  <2> QED
    BY <2>1, <2>2
<1>9. ASSUME NEW e \in Bootable, Restart(e) PROVE LoginsGrow
  <2> DEFINE new(l) == [logins[l] EXCEPT !.saved = FALSE, !.step = IF @ = "asked" THEN @ ELSE "over"]
  <2>1. LoginIds = 1..Len(logins)
    BY <1>0 DEF LoginIds
  <2>2. ASSUME NEW l \in LoginIds
        PROVE  /\ new(l) \in Login
               /\ new(l).browser = logins[l].browser /\ new(l).provider = logins[l].provider
               /\ new(l).protocol = logins[l].protocol /\ new(l).issuer = logins[l].issuer
               /\ logins[l].used => new(l).used
    <3>1. logins[l] \in Login
      BY <1>0 DEF LoginIds
    <3> QED
      BY <3>1 DEF Login
  <2>3. logins' = [l \in 1..Len(logins) |-> new(l)]
    BY <1>9, <2>1 DEF Restart
  <2> HIDE DEF new
  <2>4. logins' \in Seq(Login) /\ Len(logins') = Len(logins)
    BY <1>0, <2>1, <2>2, <2>3
  <2> QED
    BY <1>0, <2>1, <2>2, <2>3, <2>4 DEF LoginsGrow, Fixed
<1>10. CASE logins' = logins
  BY <1>0, <1>10, LoginsKept
<1> QED
  BY <1>1, <1>2, <1>3, <1>4, <1>5, <1>6, <1>7, <1>8, <1>9, <1>10, SessionQuiet
  DEF Next, LoginStep, CallbackStep, LogoutStep, Adversity, vars, Callback, CallbackClient,
      Exchange, Validate, Resolve, CallbackAnswered, Logout, PlainLogout, LogoutRevoked,
      LogoutClient, LogoutNoClient, LogoutAnswered, AnswerLost, CookiesExpire, IdsExpire

CallsGrow == calls' \in Seq(Call') /\ Len(calls) <= Len(calls')

\* What could be said of a call can still be said when there are more logins.
LEMMA CallMono ==
  logins \in Seq(Login) /\ LoginsGrow => LoginIds \subseteq LoginIds' /\ Call \subseteq Call'
<1> SUFFICES ASSUME logins \in Seq(Login), LoginsGrow
             PROVE  LoginIds \subseteq LoginIds' /\ Call \subseteq Call'
  OBVIOUS
<1>1. LoginIds \subseteq LoginIds'
  BY DEF LoginsGrow, LoginIds
<1>2. Call \subseteq Call'
  BY <1>1 DEF Call
<1> QED
  BY <1>1, <1>2

LEMMA CallEdited ==
  ASSUME calls \in Seq(Call), Call \subseteq Call', NEW c \in DOMAIN calls, NEW r \in Call,
         calls' = [calls EXCEPT ![c] = r]
  PROVE  CallsGrow
<1>1. calls' \in Seq(Call) /\ Len(calls') = Len(calls)
  BY UpdateSeq
<1>2. calls' \in Seq(Call')
  BY <1>1, MonoSeq
<1>3. Len(calls) \in Nat
  OBVIOUS
<1> QED
  BY <1>1, <1>2, <1>3 DEF CallsGrow

LEMMA CallsKept ==
  ASSUME calls \in Seq(Call), Call \subseteq Call', calls' = calls
  PROVE  CallsGrow
<1>1. calls \in Seq(Call') /\ Len(calls) \in Nat
  BY MonoSeq
<1> QED
  BY <1>1 DEF CallsGrow

\* Calls only move on.
LEMMA CallsStep == IInv /\ [Next]_vars => CallsGrow
<1> SUFFICES ASSUME IInv, [Next]_vars PROVE CallsGrow
  OBVIOUS
<1>0. /\ calls \in Seq(Call) /\ Call \subseteq Call' /\ LoginIds \subseteq LoginIds'
      /\ \A c \in DOMAIN calls : calls[c] \in Call
  <2>1. calls \in Seq(Call) /\ logins \in Seq(Login)
    BY DEF IInv, TypeOK
  <2>2. \A c \in DOMAIN calls : calls[c] \in Call
    BY <2>1
  <2> QED
    BY <2>1, <2>2, LoginsStep, CallMono
<1>1. ASSUME NEW c \in DOMAIN calls,
             NEW x \in {"client", "exchange", "validate", "consume", "resolve", "record",
                        "accepted", "refused", "revoke", "idp", "leave", "done"},
             calls' = [calls EXCEPT ![c].pc = x]
      PROVE  CallsGrow
  <2> DEFINE r == [calls[c] EXCEPT !.pc = x]
  <2>1. r \in Call
    BY <1>0 DEF Call
  <2>2. calls' = [calls EXCEPT ![c] = r]
    BY <1>1
  <2> HIDE DEF r
  <2> QED
    BY <1>0, <2>1, <2>2, CallEdited
<1>2. ASSUME NEW c \in DOMAIN calls, Finish(c) PROVE CallsGrow
  <2>1. Finished(calls[c]) \in Call
    BY <1>0 DEF Call, Finished
  <2>2. calls' = [calls EXCEPT ![c] = Finished(calls[c])]
    BY <1>2 DEF Finish
  <2> QED
    BY <1>0, <2>1, <2>2, CallEdited
<1>3. ASSUME NEW c \in DOMAIN calls, NEW p \in ProviderIds \cup {None}, NEW n \in 0..MaxLogins,
             calls' = [calls EXCEPT ![c].pc = "leave", ![c].at = p, ![c].saved = n]
      PROVE  CallsGrow
  <2> DEFINE r == [calls[c] EXCEPT !.pc = "leave", !.at = p, !.saved = n]
  <2>1. r \in Call
    BY <1>0 DEF Call
  <2>2. calls' = [calls EXCEPT ![c] = r]
    BY <1>3
  <2> HIDE DEF r
  <2> QED
    BY <1>0, <2>1, <2>2, CallEdited
<1>4. ASSUME NEW r \in Call, calls' = Append(calls, r) PROVE CallsGrow
  <2>1. calls' \in Seq(Call) /\ Len(calls') = Len(calls) + 1 /\ Len(calls) \in Nat
    BY <1>0, <1>4
  <2>2. calls' \in Seq(Call')
    BY <1>0, <2>1, MonoSeq
  <2> QED
    BY <2>1, <2>2 DEF CallsGrow
<1>5. ASSUME NEW b \in Browsers, NEW l \in LoginIds, NEW p \in ProviderIds,
             NEW i \in Issuers, Callback(b, l, p, i)
      PROVE  CallsGrow
  <2> DEFINE q == logins[l].protocol
             tx == ReadTransaction(b, q)
             r == [browser |-> b, kind |-> q, login |-> l, at |-> p, issuer |-> i,
                   tx |-> tx, replay |-> logins[l].used, saved |-> 0,
                   pc |-> CallbackFirstStep(q, tx, p)]
  <2>1. logins[l] \in Login /\ jar[b] \in Jar
    BY DEF IInv, TypeOK, LoginIds
  <2>2. q \in Protocols /\ logins[l].used \in BOOLEAN
    BY <2>1 DEF Login
  <2>3. tx \in LoginIds \cup {None}
    BY <2>1, <2>2 DEF ReadTransaction, Jar, Protocols
  <2>4. r \in Call
    BY <2>2, <2>3, BoundsAssumption DEF Call, CallbackFirstStep
  <2>5. calls' = Append(calls, r)
    BY <1>5 DEF Callback
  <2> HIDE DEF r
  <2> QED
    BY <2>4, <2>5, <1>4
<1>6. ASSUME NEW b \in Browsers, Logout(b) PROVE CallsGrow
  <2> DEFINE r == [browser |-> b, kind |-> "logout", login |-> jar[b].oidcHint, at |-> None,
                   issuer |-> None, tx |-> jar[b].samlHint, replay |-> FALSE, saved |-> 0,
                   pc |-> "revoke"]
  <2>1. jar[b] \in Jar
    BY DEF IInv, TypeOK
  <2>2. r \in Call
    BY <2>1, BoundsAssumption DEF Call, Jar
  <2>3. calls' = Append(calls, r)
    BY <1>6 DEF Logout
  <2> HIDE DEF r
  <2> QED
    BY <2>2, <2>3, <1>4
<1>7. ASSUME NEW c \in DOMAIN calls, SloRedirect(c) PROVE CallsGrow
  <2>1. SloProvider(c) \in ProviderIds \cup {None}
    BY DEF SloProvider, Servable, Served, ProviderIds
  <2>2. Len(logins) \in 0..MaxLogins /\ 0 \in 0..MaxLogins
    BY BoundsAssumption DEF IInv, TypeOK, CacheOK
  <2> DEFINE p == SloProvider(c)
             n == IF p = None THEN 0 ELSE Len(logins)
  <2>3. calls' = [calls EXCEPT ![c].pc = "leave", ![c].at = p, ![c].saved = n]
    BY <1>7 DEF SloRedirect
  <2>4. p \in ProviderIds \cup {None} /\ n \in 0..MaxLogins
    BY <2>1, <2>2
  <2> HIDE DEF p, n
  <2> QED
    BY <2>3, <2>4, <1>3
<1>8. ASSUME NEW c \in DOMAIN calls, LogoutRevoked(c) PROVE CallsGrow
  BY <1>1, <1>7, <1>8 DEF LogoutRevoked, Goto
<1>9. ASSUME NEW c \in DOMAIN calls, LogoutClient(c) PROVE CallsGrow
  <2> DEFINE p == logins[calls[c].login].provider
             n == calls[c].saved
  <2>0. calls[c].login \in LoginIds
    BY <1>9 DEF IInv, LogoutOK, LogoutClient, At
  <2>1. p \in ProviderIds
    <3>1. logins[calls[c].login] \in Login
      BY <2>0 DEF IInv, TypeOK, LoginIds
    <3> QED
      BY <3>1 DEF Login
  <2>2. n \in 0..MaxLogins
    BY <1>0 DEF Call
  <2>3. calls' = [calls EXCEPT ![c].pc = "leave", ![c].at = p, ![c].saved = n]
    BY <1>0, <1>9 DEF LogoutClient, Call
  <2> HIDE DEF p, n
  <2> QED
    BY <2>1, <2>2, <2>3, <1>3
<1>10. ASSUME NEW e \in Bootable, Restart(e) PROVE CallsGrow
  <2>0. DOMAIN calls = 1..Len(calls)
    BY <1>0
  <2>1. \A c \in 1..Len(calls) : Finished(calls[c]) \in Call
    <3> TAKE c \in 1..Len(calls)
    <3>1. calls[c] \in Call
      BY <1>0, <2>0
    <3> QED
      BY <3>1 DEF Call, Finished
  <2>2. calls' = [c \in 1..Len(calls) |-> Finished(calls[c])]
    BY <2>0, <1>10 DEF Restart
  <2>3. calls' \in Seq(Call) /\ Len(calls') = Len(calls) /\ Len(calls) \in Nat
    BY <1>0, <2>1, <2>2
  <2>4. calls' \in Seq(Call')
    BY <1>0, <2>3, MonoSeq
  <2> QED
    BY <2>3, <2>4 DEF CallsGrow
<1>11. CASE calls' = calls
  BY <1>0, <1>11, CallsKept
<1>12. CASE LoginStep \/ UNCHANGED vars
  BY <1>11, <1>12 DEF LoginStep, StartLogin, Discovered, LoginAnswered, LoginFails, vars
<1>13. CASE CallbackStep
  <2>1. ASSUME NEW c \in DOMAIN calls,
               CallbackClient(c) \/ Exchange(c) \/ Validate(c) \/ Consume(c)
                 \/ Resolve(c) \/ Record(c) \/ CallbackFails(c)
        PROVE  CallsGrow
    BY <1>1, <2>1 DEF CallbackClient, Exchange, Validate, Consume, Resolve, Record,
                      CallbackFails, Goto
  <2>2. ASSUME NEW c \in DOMAIN calls, CallbackAnswered(c) PROVE CallsGrow
    BY <1>2, <2>2 DEF CallbackAnswered
  <2> QED
    BY <1>13, <1>5, <2>1, <2>2 DEF CallbackStep
<1>14. CASE LogoutStep
  <2>1. ASSUME NEW c \in DOMAIN calls, LogoutNoClient(c) PROVE CallsGrow
    BY <1>7, <2>1 DEF LogoutNoClient
  <2>2. ASSUME NEW c \in DOMAIN calls, LogoutAnswered(c) PROVE CallsGrow
    BY <1>2, <2>2 DEF LogoutAnswered
  <2> QED
    BY <1>14, <1>6, <1>8, <1>9, <1>11, <2>1, <2>2 DEF LogoutStep, PlainLogout, LogoutCallback
<1>15. CASE Adversity
  BY <1>15, <1>2, <1>10, <1>11 DEF Adversity, AnswerLost, CookiesExpire, IdsExpire
<1>16. CASE SessionStep
  BY <1>16, <1>11, SessionQuiet
<1> QED
  BY <1>12, <1>13, <1>14, <1>15, <1>16 DEF Next

--------------------------------------------------------------------------------
\* The cookies of a browser.

LEMMA JarDomain ==
  ASSUME NEW j \in Jar
  PROVE  /\ DOMAIN j = {"oidc", "saml", "session", "via", "oidcHint", "samlHint"}
         /\ j.oidc \in LoginIds \cup {None} /\ j.saml \in LoginIds \cup {None}
         /\ j.session \in LoginIds \cup {None} /\ j.via \in Issuers \cup {None}
         /\ j.oidcHint \in LoginIds \cup {None} /\ j.samlHint \in LoginIds \cup {None}
  BY DEF Jar

\* The transaction cookie of a login the browser began.
LEMMA SetTransactionProps ==
  ASSUME NEW b \in Browsers, NEW j \in Jar, JarFine(b, j, logins, parted), NEW q \in Protocols,
         NEW l \in LoginIds, logins[l].browser = b, logins \in Seq(Login)
  PROVE  LET r == SetTransaction(j, q, l) IN r \in Jar /\ JarFine(b, r, logins, parted)
<1>0. \A k \in LoginIds : logins[k].protocol \in Protocols
  BY LoginTyped
<1>1. CASE q = "oidc"
  BY <1>0, <1>1 DEF SetTransaction, Jar, JarFine, LoginIds, HintOf, Protocols
<1>2. CASE q = "saml"
  BY <1>0, <1>2 DEF SetTransaction, Jar, JarFine, LoginIds, HintOf, Protocols
<1> QED
  BY <1>1, <1>2 DEF Protocols

\* It is cleared.
LEMMA ClearTransactionProps ==
  ASSUME NEW b \in Browsers, NEW j \in Jar, JarFine(b, j, logins, parted), NEW q \in Protocols,
         logins \in Seq(Login)
  PROVE  LET r == ClearTransaction(j, q) IN r \in Jar /\ JarFine(b, r, logins, parted)
<1>0. \A k \in LoginIds : logins[k].protocol \in Protocols
  BY LoginTyped
<1>1. CASE q = "oidc"
  BY <1>0, <1>1 DEF ClearTransaction, Jar, JarFine, LoginIds, HintOf, Protocols
<1>2. CASE q = "saml"
  BY <1>0, <1>2 DEF ClearTransaction, Jar, JarFine, LoginIds, HintOf, Protocols
<1> QED
  BY <1>1, <1>2 DEF Protocols

\* The session of an accepted answer.
LEMMA GrantedProps ==
  ASSUME NEW b \in Browsers, NEW j \in Jar, JarFine(b, j, logins, parted), logins \in Seq(Login),
         NEW c \in DOMAIN calls, CallOK(c), calls[c].pc = "accepted", calls[c].browser = b
  PROVE  LET r == Granted(j, c) IN r \in Jar /\ JarFine(b, r, logins, parted)
<1> DEFINE l == calls[c].login
<1>0. /\ l \in LoginIds /\ logins[l].browser = b /\ logins[l].issuer = calls[c].issuer
      /\ calls[c].issuer \in Issuers /\ logins[l].protocol = calls[c].kind
      /\ calls[c].kind \in Protocols
  <2>1. l \in LoginIds
    BY DEF CallOK
  <2> QED
    BY <2>1, LoginTyped DEF CallOK
<1>1. Granted(j, c) = SetHint([j EXCEPT !.session = l, !.via = calls[c].issuer], calls[c].kind, l)
  BY DEF Granted
<1> HIDE DEF l
<1>2. CASE calls[c].kind = "oidc"
  <2> DEFINE r == [[j EXCEPT !.session = l, !.via = calls[c].issuer] EXCEPT !.oidcHint = l]
  <2>1. Granted(j, c) = r
    <3>1. HintOf[calls[c].kind] = "oidcHint"
      BY <1>2 DEF HintOf
    <3> QED
      BY <1>1, <3>1 DEF SetHint
  <2>2. r \in Jar /\ r.oidc = j.oidc /\ r.saml = j.saml /\ r.session = l
        /\ r.via = calls[c].issuer /\ r.oidcHint = l
    BY <1>0 DEF Jar
  <2> HIDE DEF r
  <2>3. HintOf[logins[l].protocol] = "oidcHint"
    BY <1>0, <1>2 DEF HintOf
  <2>4. JarFine(b, r, logins, parted)
    BY <1>0, <2>2, <2>3 DEF JarFine, LoginIds, Protocols
  <2> QED
    BY <2>1, <2>2, <2>4
<1>3. CASE calls[c].kind = "saml"
  <2> DEFINE r == [[j EXCEPT !.session = l, !.via = calls[c].issuer] EXCEPT !.samlHint = l]
  <2>1. Granted(j, c) = r
    <3>1. HintOf[calls[c].kind] = "samlHint"
      BY <1>3 DEF HintOf
    <3> QED
      BY <1>1, <3>1 DEF SetHint
  <2>2. r \in Jar /\ r.oidc = j.oidc /\ r.saml = j.saml /\ r.session = l
        /\ r.via = calls[c].issuer /\ r.samlHint = l
    BY <1>0 DEF Jar
  <2> HIDE DEF r
  <2>3. HintOf[logins[l].protocol] = "samlHint"
    BY <1>0, <1>3 DEF HintOf
  <2>4. JarFine(b, r, logins, parted)
    BY <1>0, <2>2, <2>3 DEF JarFine, LoginIds, Protocols
  <2> QED
    BY <2>1, <2>2, <2>4
<1> QED
  BY <1>0, <1>2, <1>3 DEF Protocols

\* The session ends, with its hint or without.
LEMMA EndProps ==
  ASSUME NEW b \in Browsers, NEW j \in Jar, JarFine(b, j, logins, parted), NEW P
  PROVE  LET r == ClearHints(EndSession(j), P) IN r \in Jar /\ JarFine(b, r, logins, parted)
<1> DEFINE e == EndSession(j)
           r == ClearHints(e, P)
           K == {HintOf[q] : q \in P}
<1>1. /\ e \in Jar /\ e.session = None /\ e.oidc = j.oidc /\ e.saml = j.saml
  BY DEF EndSession, Jar
<1>2. r = [k \in {"oidc", "saml", "session", "via", "oidcHint", "samlHint"} |->
             IF k \in K THEN None ELSE e[k]]
  BY <1>1, JarDomain DEF ClearHints
<1> HIDE DEF e, r, K
<1>3. r \in Jar
  BY <1>1, <1>2 DEF Jar
<1>4. r.session = None /\ r.oidc \in {j.oidc, None} /\ r.saml \in {j.saml, None}
  BY <1>1, <1>2
<1>5. JarFine(b, r, logins, parted)
  BY <1>4 DEF JarFine, Protocols
<1> QED
  BY <1>3, <1>5 DEF r, e

\* Transaction cookies expire.
LEMMA ExpireProps ==
  ASSUME NEW b \in Browsers, NEW j \in Jar, JarFine(b, j, logins, parted), NEW n,
         logins \in Seq(Login)
  PROVE  LET r == [k \in DOMAIN j |-> IF k \in Protocols /\ j[k] \in 1..n THEN None ELSE j[k]]
         IN  r \in Jar /\ JarFine(b, r, logins, parted)
<1> DEFINE r == [k \in DOMAIN j |-> IF k \in Protocols /\ j[k] \in 1..n THEN None ELSE j[k]]
<1>0. \A k \in LoginIds : logins[k].protocol \in Protocols
  BY LoginTyped
<1>1. DOMAIN j = {"oidc", "saml", "session", "via", "oidcHint", "samlHint"}
  BY JarDomain
<1>2. r = [k \in {"oidc", "saml", "session", "via", "oidcHint", "samlHint"} |->
             IF k \in Protocols /\ j[k] \in 1..n THEN None ELSE j[k]]
  BY <1>1
<1>3. /\ r.oidc \in {j.oidc, None} /\ r.saml \in {j.saml, None}
      /\ r.session = j.session /\ r.via = j.via
      /\ r.oidcHint = j.oidcHint /\ r.samlHint = j.samlHint
  BY <1>2 DEF Protocols
<1>4. r \in Jar
  BY <1>2, <1>3, JarDomain DEF Jar
<1> HIDE DEF r
<1>5. \A q \in Protocols : r[q] # None => r[q] = j[q]
  BY <1>3 DEF Protocols
<1>6. j.session # None =>
        /\ j.session \in LoginIds /\ logins[j.session].browser = b
        /\ logins[j.session].issuer = j.via
        /\ j.session \in parted \/ j[HintOf[logins[j.session].protocol]] = j.session
        /\ logins[j.session].protocol \in Protocols
  BY <1>0 DEF JarFine, LoginIds
<1>7. r.session # None =>
        r.session \in parted \/ r[HintOf[logins[r.session].protocol]] = r.session
  BY <1>3, <1>6 DEF HintOf, Protocols
<1>8. JarFine(b, r, logins, parted)
  BY <1>3, <1>5, <1>6, <1>7 DEF JarFine, LoginIds
<1> QED
  BY <1>4, <1>8 DEF r

\* A refresh answer sets the session: the jar's own, or one that is counted as parted.
LEMMA RenewedProps ==
  ASSUME NEW b \in Browsers, NEW j \in Jar, JarFine(b, j, logins, parted), NEW r \in Renewal,
         logins \in Seq(Login), r.browser = b, logins[r.session].browser = b,
         logins[r.session].issuer = r.via, r.session # None,
         NEW P, parted \subseteq P, j.session = r.session \/ r.session \in P
  PROVE  LET x == Renewed(j, r) IN x \in Jar /\ JarFine(b, x, logins, P)
<1> DEFINE x == Renewed(j, r)
<1>1. r.session \in LoginIds /\ r.via \in Issuers /\ logins[r.session].protocol \in Protocols
  BY LoginTyped DEF Renewal
<1>2. /\ x \in Jar /\ x.oidc = j.oidc /\ x.saml = j.saml /\ x.oidcHint = j.oidcHint
      /\ x.samlHint = j.samlHint /\ x.session = r.session /\ x.via = r.via
  BY <1>1 DEF Renewed, Jar
<1> HIDE DEF x
<1>3. \A q \in Protocols : x[q] = j[q] /\ x[HintOf[q]] = j[HintOf[q]]
  BY <1>2 DEF Protocols, HintOf
<1>4. r.session \in P \/ j[HintOf[logins[r.session].protocol]] = r.session
  BY <1>1 DEF JarFine, LoginIds, Jar
<1>5. JarFine(b, x, logins, P)
  BY <1>1, <1>2, <1>3, <1>4 DEF JarFine, LoginIds
<1> QED
  BY <1>2, <1>5 DEF x

\* A hint goes, and the login it was of is counted as parted.
LEMMA HintGoneProps ==
  ASSUME NEW b \in Browsers, NEW j \in Jar, JarFine(b, j, logins, parted), logins \in Seq(Login),
         NEW q \in Protocols, NEW P, parted \subseteq P, j[HintOf[q]] \in P
  PROVE  LET x == ClearHints(j, {q}) IN x \in Jar /\ JarFine(b, x, logins, P)
<1> DEFINE x == ClearHints(j, {q})
<1>0. \A k \in LoginIds : logins[k].protocol \in Protocols
  BY LoginTyped
<1>1. x = [k \in {"oidc", "saml", "session", "via", "oidcHint", "samlHint"} |->
             IF k \in {HintOf[q]} THEN None ELSE j[k]]
  <2>1. {HintOf[p] : p \in {q}} = {HintOf[q]}
    OBVIOUS
  <2> QED
    BY <2>1, JarDomain DEF ClearHints
<1>2. HintOf[q] \in {"oidcHint", "samlHint"}
  BY DEF HintOf, Protocols
<1> HIDE DEF x
<1>3. x \in Jar
  BY <1>1, JarDomain DEF Jar
<1>4. /\ x.oidc = j.oidc /\ x.saml = j.saml /\ x.session = j.session /\ x.via = j.via
      /\ \A p \in Protocols : HintOf[p] = HintOf[q] \/ x[HintOf[p]] = j[HintOf[p]]
  BY <1>1, <1>2 DEF HintOf, Protocols
<1>5. \A p \in Protocols : x[p] = j[p]
  BY <1>4 DEF Protocols
<1>6. j.session # None =>
        /\ j.session \in LoginIds /\ logins[j.session].browser = b
        /\ logins[j.session].issuer = j.via
        /\ j.session \in parted \/ j[HintOf[logins[j.session].protocol]] = j.session
        /\ logins[j.session].protocol \in Protocols
  BY <1>0 DEF JarFine, LoginIds
<1>7. j.session # None => j.session \in P \/ x[HintOf[logins[j.session].protocol]] = j.session
  BY <1>4, <1>6
<1>8. JarFine(b, x, logins, P)
  BY <1>4, <1>5, <1>6, <1>7 DEF JarFine, LoginIds
<1> QED
  BY <1>3, <1>8 DEF x

\* The session cookie goes.
LEMMA SessionGoneProps ==
  ASSUME NEW b \in Browsers, NEW j \in Jar, NEW P, JarFine(b, j, logins, P)
  PROVE  LET x == EndSession(j) IN x \in Jar /\ JarFine(b, x, logins, P)
<1> DEFINE x == EndSession(j)
<1>1. x \in Jar /\ x.session = None /\ x.oidc = j.oidc /\ x.saml = j.saml
  BY DEF EndSession, Jar
<1> HIDE DEF x
<1>2. JarFine(b, x, logins, P)
  BY <1>1 DEF JarFine, Protocols
<1> QED
  BY <1>1, <1>2 DEF x

\* No step takes a login off those that parted.
LEMMA PartedGrows ==
  ASSUME [Next]_vars
  PROVE  parted \subseteq parted' /\ (refreshVars' = refreshVars \/ SessionStep)
  BY DEF refreshVars, Next, LoginStep, CallbackStep, LogoutStep, SessionStep, Adversity, vars,
         StartLogin, Discovered, LoginAnswered, LoginFails, Callback, CallbackClient, Exchange,
         Validate, Consume, Resolve, Record, CallbackFails, CallbackAnswered, Logout, PlainLogout,
         LogoutCallback, LogoutRevoked, LogoutClient, LogoutNoClient, LogoutAnswered, AnswerLost,
         CookiesExpire, IdsExpire, Restart, Refresh, RefreshAnswered, RefreshRejected, HintExpires

\* A jar stays fine when the logins go on.
LEMMA JarMono ==
  ASSUME NEW b \in Browsers, NEW j \in Jar, NEW P, JarFine(b, j, logins, P), LoginsGrow,
         logins \in Seq(Login), P \subseteq parted'
  PROVE  j \in Jar' /\ JarFine(b, j, logins', parted')
<1>1. LoginIds \subseteq LoginIds' /\ LoginIds = DOMAIN logins /\ LoginIds' = DOMAIN logins'
  BY DEF LoginsGrow, LoginIds
<1>2. j \in Jar'
  BY <1>1 DEF Jar
<1>3. JarFine(b, j, logins', parted')
  BY <1>1 DEF JarFine, LoginsGrow, Fixed
<1> QED
  BY <1>2, <1>3

\* Every cookie a step leaves in a jar is fine.
LEMMA JarStep == IInv /\ [Next]_vars => jar' \in [Browsers -> Jar'] /\ JarOK'
<1> SUFFICES ASSUME IInv, [Next]_vars PROVE jar' \in [Browsers -> Jar'] /\ JarOK'
  OBVIOUS
<1> DEFINE Kept == /\ jar' \in [Browsers -> Jar]
                   /\ \E P : /\ P \subseteq parted'
                            /\ \A b \in Browsers : JarFine(b, jar'[b], logins, P)
<1>0. /\ logins \in Seq(Login) /\ calls \in Seq(Call) /\ jar \in [Browsers -> Jar]
      /\ \A b \in Browsers : jar[b] \in Jar /\ JarFine(b, jar[b], logins, parted)
      /\ \A c \in DOMAIN calls : calls[c].browser \in Browsers
      /\ parted \subseteq parted'
  <2>1. calls \in Seq(Call) /\ logins \in Seq(Login) /\ jar \in [Browsers -> Jar]
    BY DEF IInv, TypeOK
  <2>2. \A c \in DOMAIN calls : calls[c].browser \in Browsers
    <3> TAKE c \in DOMAIN calls
    <3>1. calls[c] \in Call
      BY <2>1
    <3> QED
      BY <3>1 DEF Call
  <2> QED
    BY <2>1, <2>2, PartedGrows DEF IInv, JarOK
<1>1. ASSUME NEW b \in Browsers, NEW r \in Jar, JarFine(b, r, logins, parted),
             jar' = [jar EXCEPT ![b] = r]
      PROVE  Kept
  BY <1>0, <1>1
<1>2. ASSUME NEW l \in LoginIds, LoginAnswered(l) PROVE Kept
  <2> DEFINE b == logins[l].browser
             q == logins[l].protocol
             r == SetTransaction(jar[b], q, l)
  <2>1. b \in Browsers /\ q \in Protocols
    BY <1>0, LoginTyped
  <2>2. r \in Jar /\ JarFine(b, r, logins, parted)
    BY <1>0, <2>1, SetTransactionProps
  <2>3. jar' = [jar EXCEPT ![b] = r]
    BY <1>2 DEF LoginAnswered
  <2> HIDE DEF b, r
  <2> QED
    BY <1>1, <2>1, <2>2, <2>3
<1>3. ASSUME NEW c \in DOMAIN calls, CallbackAnswered(c) PROVE Kept
  <2> DEFINE b == calls[c].browser
             q == calls[c].kind
             j == ClearTransaction(jar[b], q)
             r == IF At(c, "accepted") THEN Granted(j, c) ELSE j
  <2>1. CallOK(c) /\ b \in Browsers
    BY <1>0, <1>3 DEF IInv, CallbackOK, LogoutOK, CallbackAnswered
  <2>2. q \in Protocols
    BY <1>0, <2>1, LoginTyped DEF CallOK
  <2>3. j \in Jar /\ JarFine(b, j, logins, parted)
    BY <1>0, <2>1, <2>2, ClearTransactionProps
  <2>4. jar' = [jar EXCEPT ![b] = r]
    BY <1>3 DEF CallbackAnswered
  <2> HIDE DEF j, q
  <2>5. calls[c].pc = "accepted" =>
          Granted(j, c) \in Jar /\ JarFine(b, Granted(j, c), logins, parted)
    BY <1>0, <2>1, <2>3, GrantedProps
  <2>6. r \in Jar /\ JarFine(b, r, logins, parted)
    BY <2>3, <2>5 DEF At
  <2> HIDE DEF b, r
  <2> QED
    BY <1>1, <2>1, <2>4, <2>6
<1>4. ASSUME NEW b \in Browsers, NEW P, jar' = [jar EXCEPT ![b] = ClearHints(EndSession(@), P)]
      PROVE  Kept
  <2> DEFINE r == ClearHints(EndSession(jar[b]), P)
  <2>1. r \in Jar /\ JarFine(b, r, logins, parted)
    BY <1>0, EndProps
  <2>2. jar' = [jar EXCEPT ![b] = r]
    BY <1>4
  <2> HIDE DEF r
  <2> QED
    BY <1>1, <2>1, <2>2
<1>5. ASSUME NEW l \in LoginIds, CookiesExpire(l) PROVE Kept
  <2> DEFINE r(j) == [k \in DOMAIN j |-> IF k \in Protocols /\ j[k] \in 1..l THEN None ELSE j[k]]
  <2>1. ASSUME NEW b \in Browsers PROVE r(jar[b]) \in Jar /\ JarFine(b, r(jar[b]), logins, parted)
    BY <1>0, ExpireProps
  <2>2. jar' = [b \in Browsers |-> r(jar[b])]
    BY <1>5 DEF CookiesExpire
  <2> HIDE DEF r
  <2> QED
    BY <1>0, <2>1, <2>2
<1>6. ASSUME jar' = jar PROVE Kept
  BY <1>0, <1>6
<1>7. ASSUME NEW b \in Browsers, NEW r \in Jar, JarFine(b, r, logins, parted'),
              jar' = [jar EXCEPT ![b] = r]
       PROVE  Kept
  <2>1. \A a \in Browsers : JarFine(a, jar[a], logins, parted')
    BY <1>0 DEF JarFine
  <2> QED
    BY <1>0, <1>7, <2>1
<1> HIDE DEF Kept
<1>8. ASSUME NEW r \in renewals, RefreshAnswered(r) \/ RefreshRejected(r) PROVE Kept
  <2> DEFINE b == r.browser
  <2>1. /\ r \in Renewal /\ b \in Browsers /\ logins[r.session].browser = b
        /\ logins[r.session].issuer = r.via
    BY DEF IInv, RenewalsOK, Renewal
  <2>4. r.session # None
    <3>1. r.session \in DOMAIN logins /\ Len(logins) <= MaxLogins
      BY <2>1 DEF Renewal, LoginIds, IInv, CacheOK
    <3> QED
      BY <1>0, <3>1, BoundsAssumption
  <2>2. CASE RefreshAnswered(r)
    <3> DEFINE x == Renewed(jar[b], r)
    <3>1. jar[b].session = r.session \/ r.session \in parted'
      BY <2>2 DEF RefreshAnswered
    <3>2. x \in Jar /\ JarFine(b, x, logins, parted')
      BY <1>0, <2>1, <2>4, <3>1, RenewedProps
    <3>3. jar' = [jar EXCEPT ![b] = x]
      BY <2>2 DEF RefreshAnswered
    <3> HIDE DEF x, b
    <3> QED
      BY <1>7, <2>1, <3>2, <3>3
  <2>3. CASE RefreshRejected(r)
    <3> DEFINE x == EndSession(jar[b])
    <3>1. x \in Jar /\ JarFine(b, x, logins, parted)
      BY <1>0, <2>1, SessionGoneProps
    <3>2. jar' = [jar EXCEPT ![b] = x]
      BY <2>3 DEF RefreshRejected
    <3> HIDE DEF x, b
    <3> QED
      BY <1>1, <2>1, <3>1, <3>2
  <2> QED
    BY <1>8, <2>2, <2>3
<1>9. ASSUME NEW b \in Browsers, NEW q \in Protocols, HintExpires(b, q) PROVE Kept
  <2> DEFINE j == ClearHints(jar[b], {q})
             e == EndSession(j)
  <2>1. jar[b][HintOf[q]] \in parted'
    BY <1>9 DEF HintExpires
  <2>2. j \in Jar /\ JarFine(b, j, logins, parted')
    BY <1>0, <2>1, HintGoneProps
  <2>3. jar' = [jar EXCEPT ![b] = j] \/ jar' = [jar EXCEPT ![b] = e]
    BY <1>9 DEF HintExpires
  <2> HIDE DEF j
  <2>4. e \in Jar /\ JarFine(b, e, logins, parted')
    BY <2>2, SessionGoneProps
  <2> HIDE DEF e
  <2> QED
    BY <1>7, <2>2, <2>3, <2>4
<1>10. ASSUME NEW b \in Browsers, Refresh(b) PROVE Kept
  BY <1>6, <1>10 DEF Refresh
<1>11. ASSUME NEW c \in DOMAIN calls, LogoutAnswered(c) PROVE Kept
  BY <1>0, <1>4, <1>11 DEF LogoutAnswered
<1>12. ASSUME NEW b \in Browsers, PlainLogout(b) PROVE Kept
  BY <1>4, <1>12 DEF PlainLogout
<1>13. Kept
  <2>1. CASE LoginStep \/ UNCHANGED vars
    BY <2>1, <1>2, <1>6 DEF LoginStep, StartLogin, Discovered, LoginFails, vars
  <2>2. CASE CallbackStep
    BY <2>2, <1>3, <1>6 DEF CallbackStep, Callback, CallbackClient, Exchange, Validate, Consume,
                            Resolve, Record, CallbackFails
  <2>3. CASE LogoutStep
    BY <2>3, <1>6, <1>11, <1>12 DEF LogoutStep, Logout, LogoutCallback, LogoutRevoked, LogoutClient,
                                  LogoutNoClient
  <2>4. CASE Adversity
    BY <2>4, <1>5, <1>6 DEF Adversity, AnswerLost, IdsExpire, Restart
  <2>5. CASE SessionStep
    BY <2>5, <1>8, <1>10, <1>9 DEF SessionStep
  <2> QED
    BY <2>1, <2>2, <2>3, <2>4, <2>5 DEF Next
<1>14. LoginsGrow
  BY LoginsStep
<1>15. \A b \in Browsers : jar'[b] \in Jar' /\ JarFine(b, jar'[b], logins', parted')
  <2>1. PICK P : P \subseteq parted' /\ \A b \in Browsers : JarFine(b, jar'[b], logins, P)
    BY <1>13 DEF Kept
  <2>2. \A b \in Browsers : jar'[b] \in Jar
    BY <1>13 DEF Kept
  <2> QED
    BY <1>0, <1>14, <2>1, <2>2, JarMono
<1> QED
  BY <1>13, <1>15 DEF JarOK, Kept

\* A renewal begins with the session of a jar, and what its login is never changes.
LEMMA RenewalsStep ==
  IInv /\ [Next]_vars =>
    renewals' \subseteq Renewal' /\ RenewalsOK' /\ parted' \subseteq LoginIds'
<1> SUFFICES ASSUME IInv, [Next]_vars
             PROVE  renewals' \subseteq Renewal' /\ RenewalsOK' /\ parted' \subseteq LoginIds'
  OBVIOUS
<1> DEFINE Mine(r) == /\ r \in Renewal
                      /\ logins[r.session].browser = r.browser
                      /\ logins[r.session].issuer = r.via
<1>1. /\ LoginsGrow /\ LoginIds \subseteq LoginIds' /\ parted \subseteq LoginIds
      /\ \A r \in renewals : Mine(r)
  BY LoginsStep, CallMono DEF IInv, TypeOK, RenewalsOK
<1>2. ASSUME NEW b \in Browsers, Refresh(b) PROVE \A r \in renewals' : Mine(r)
  <2> DEFINE n == [browser |-> b, session |-> jar[b].session, via |-> jar[b].via]
  <2>1. /\ jar[b].session \in LoginIds /\ logins[jar[b].session].browser = b
        /\ logins[jar[b].session].issuer = jar[b].via
    BY <1>2 DEF Refresh, IInv, JarOK, JarFine, LoginIds
  <2>2. jar[b].via \in Issuers
    BY <2>1, LoginTyped DEF IInv, TypeOK
  <2>3. Mine(n)
    BY <2>1, <2>2 DEF Renewal
  <2>4. renewals' = renewals \cup {n}
    BY <1>2 DEF Refresh
  <2> QED
    BY <1>1, <2>3, <2>4
<1>3. \A r \in renewals' : Mine(r)
  <2>1. CASE SessionStep
    BY <1>1, <1>2, <2>1 DEF SessionStep, RefreshAnswered, RefreshRejected, HintExpires
  <2> QED
    BY <1>1, <2>1, PartedGrows DEF refreshVars
<1>4. ASSUME NEW r \in renewals' PROVE Mine(r)' /\ r \in Renewal'
  <2>1. r \in Renewal /\ r.session \in LoginIds
    BY <1>3 DEF Renewal
  <2>2. r \in Renewal'
    BY <1>1, <2>1 DEF Renewal
  <2> QED
    BY <1>1, <1>3, <2>1, <2>2 DEF LoginsGrow, Fixed
<1>5. parted' \subseteq LoginIds
  <2>1. ASSUME NEW r \in renewals PROVE r.session \in LoginIds
    BY <1>1 DEF Renewal
  <2>2. ASSUME NEW b \in Browsers, NEW q \in Protocols
        PROVE  jar[b][HintOf[q]] \in LoginIds \cup {None}
    BY JarDomain DEF IInv, TypeOK, HintOf, Protocols
  <2>3. CASE SessionStep
    <3>1. ASSUME NEW b \in Browsers, Refresh(b) PROVE parted' \subseteq LoginIds
      BY <1>1, <3>1 DEF Refresh
    <3>2. ASSUME NEW r \in renewals, RefreshAnswered(r) PROVE parted' \subseteq LoginIds
      BY <1>1, <2>1, <3>2 DEF RefreshAnswered
    <3>3. ASSUME NEW r \in renewals, RefreshRejected(r) PROVE parted' \subseteq LoginIds
      BY <1>1, <3>3 DEF RefreshRejected
    <3>4. ASSUME NEW b \in Browsers, NEW q \in Protocols, HintExpires(b, q)
          PROVE  parted' \subseteq LoginIds
      BY <1>1, <2>2, <3>4 DEF HintExpires
    <3> QED
      BY <2>3, <3>1, <3>2, <3>3, <3>4 DEF SessionStep
  <2> QED
    BY <1>1, <2>3, PartedGrows DEF refreshVars
<1> QED
  BY <1>1, <1>4, <1>5 DEF RenewalsOK

--------------------------------------------------------------------------------
\* Which calls a step changes.

Moved(d) ==
  \/ CallbackClient(d) \/ Exchange(d) \/ Validate(d) \/ Consume(d) \/ Resolve(d)
  \/ Record(d) \/ CallbackFails(d)
  \/ LogoutRevoked(d) \/ LogoutClient(d) \/ LogoutNoClient(d)

\* A call stays, finishes, or takes its next step.
LEMMA CallCases ==
  ASSUME IInv, [Next]_vars, NEW d \in DOMAIN calls
  PROVE  calls'[d] = calls[d] \/ calls'[d] = Finished(calls[d]) \/ Moved(d)
<1> DEFINE Fine == calls'[d] = calls[d] \/ calls'[d] = Finished(calls[d]) \/ Moved(d)
<1>0. calls \in Seq(Call)
  BY DEF IInv, TypeOK
<1>1. ASSUME calls' = calls PROVE Fine
  BY <1>1
<1>2. ASSUME NEW r, calls' = Append(calls, r) PROVE Fine
  BY <1>0, <1>2
<1>3. ASSUME NEW c \in DOMAIN calls, NEW r, calls' = [calls EXCEPT ![c] = r], c # d PROVE Fine
  BY <1>0, <1>3
<1>4. ASSUME NEW c \in DOMAIN calls, Finish(c) PROVE Fine
  BY <1>0, <1>4 DEF Finish
<1>5. ASSUME NEW c \in DOMAIN calls, SloRedirect(c), c # d PROVE Fine
  BY <1>0, <1>5 DEF SloRedirect
<1>6. ASSUME NEW c \in DOMAIN calls, LogoutClient(c), c # d PROVE Fine
  BY <1>0, <1>6 DEF LogoutClient
<1>7. ASSUME NEW c \in DOMAIN calls, NEW x, Goto(c, x), c # d PROVE Fine
  BY <1>0, <1>7 DEF Goto
<1>8. ASSUME NEW e \in Bootable, Restart(e) PROVE Fine
  BY <1>0, <1>8 DEF Restart
<1>9. ASSUME NEW c \in DOMAIN calls, Moved(c) PROVE Fine
  <2>1. CASE c = d
    BY <1>9, <2>1
  <2>2. CASE c # d
    <3> HIDE DEF Fine
    <3> QED
      BY <1>9, <2>2, <1>5, <1>6, <1>7
      DEF Moved, CallbackClient, Exchange, Validate, Consume, Resolve, Record, CallbackFails,
          LogoutRevoked, LogoutNoClient
  <2> QED
    BY <2>1, <2>2
<1> HIDE DEF Fine
<1>10. ASSUME NEW b \in Browsers, NEW l \in LoginIds, NEW p \in ProviderIds, NEW i \in Issuers,
              Callback(b, l, p, i) PROVE Fine
  BY <1>2, <1>10 DEF Callback
<1>11. Fine
  <2>1. CASE LoginStep \/ UNCHANGED vars
    BY <2>1, <1>1 DEF LoginStep, StartLogin, Discovered, LoginAnswered, LoginFails, vars
  <2>2. CASE CallbackStep
    BY <2>2, <1>4, <1>9, <1>10 DEF CallbackStep, Moved, CallbackAnswered
  <2>3. CASE LogoutStep
    BY <2>3, <1>1, <1>2, <1>4, <1>9 DEF LogoutStep, Moved, Logout, PlainLogout, LogoutCallback,
                                        LogoutAnswered
  <2>4. CASE Adversity
    BY <2>4, <1>1, <1>4, <1>8 DEF Adversity, AnswerLost, CookiesExpire, IdsExpire
  <2>5. CASE SessionStep
    BY <2>5, <1>1, SessionQuiet
  <2> QED
    BY <2>1, <2>2, <2>3, <2>4, <2>5 DEF Next
<1> QED
  BY <1>11 DEF Fine

\* A call that was not there before is the first step of a callback or of a logout.
LEMMA NewCall ==
  ASSUME IInv, [Next]_vars, NEW d \in DOMAIN calls', d \notin DOMAIN calls
  PROVE  /\ d = Len(calls) + 1
         /\ \/ \E b \in Browsers : Logout(b)
            \/ \E b \in Browsers, l \in LoginIds, p \in ProviderIds, i \in Issuers :
                 Callback(b, l, p, i)
<1> DEFINE New == \/ \E b \in Browsers : Logout(b)
                  \/ \E b \in Browsers, l \in LoginIds, p \in ProviderIds, i \in Issuers :
                       Callback(b, l, p, i)
<1>0. calls \in Seq(Call)
  BY DEF IInv, TypeOK
<1>1. ASSUME DOMAIN calls' = DOMAIN calls PROVE FALSE
  BY <1>1
<1>2. ASSUME NEW c \in DOMAIN calls, Moved(c) PROVE FALSE
  BY <1>1, <1>2
  DEF Moved, CallbackClient, Exchange, Validate, Consume, Resolve, Record, CallbackFails,
      LogoutRevoked, LogoutNoClient, LogoutClient, SloRedirect, Goto
<1>3. New
  <2>1. CASE LoginStep \/ UNCHANGED vars
    BY <2>1, <1>1 DEF LoginStep, StartLogin, Discovered, LoginAnswered, LoginFails, vars
  <2>2. CASE CallbackStep
    BY <2>2, <1>1, <1>2 DEF CallbackStep, Moved, CallbackAnswered, Finish
  <2>3. CASE LogoutStep
    BY <2>3, <1>1, <1>2 DEF LogoutStep, Moved, PlainLogout, LogoutCallback,
                            LogoutAnswered, Finish
  <2>4. CASE Adversity
    BY <2>4, <1>1 DEF Adversity, AnswerLost, CookiesExpire, IdsExpire, Restart, Finish
  <2>5. CASE SessionStep
    BY <2>5, <1>1, SessionQuiet
  <2> QED
    BY <2>1, <2>2, <2>3, <2>4, <2>5 DEF Next
<1>4. ASSUME NEW r, calls' = Append(calls, r) PROVE d = Len(calls) + 1
  BY <1>0, <1>4
<1>5. d = Len(calls) + 1
  BY <1>3, <1>4 DEF Logout, Callback
<1> QED
  BY <1>3, <1>5

\* A logout that has left, and a finished call, stay so.
LEMMA DoneStays ==
  ASSUME IInv, [Next]_vars, NEW d \in DOMAIN calls, calls[d].pc \in {"leave", "done"}
  PROVE  calls'[d].pc \in {"leave", "done"}
<1>1. calls[d] \in Call
  BY DEF IInv, TypeOK
<1>2. Finished(calls[d]).pc = "done"
  BY <1>1 DEF Finished, Call
<1>3. ~Moved(d)
  BY DEF Moved, CallbackClient, Exchange, Validate, Consume, Resolve, Record, CallbackFails,
         LogoutRevoked, LogoutClient, LogoutNoClient, At
<1> QED
  BY <1>2, <1>3, CallCases

--------------------------------------------------------------------------------
\* What the caches hold.

LEMMA EnvStep ==
  ASSUME [Next]_vars
  PROVE  env' = env \/ \E e \in Bootable : Restart(e)
  BY SessionQuiet
     DEF Next, LoginStep, CallbackStep, LogoutStep, Adversity, vars, StartLogin, Discovered,
         LoginAnswered, LoginFails, Callback, CallbackClient, Exchange, Validate, Consume, Resolve,
         Record, CallbackFails, CallbackAnswered, Logout, PlainLogout, LogoutCallback,
         LogoutRevoked, LogoutClient, LogoutNoClient, LogoutAnswered, AnswerLost, CookiesExpire,
         IdsExpire

LEMMA ConfigKept ==
  ASSUME env' = env, NEW p
  PROVE  Config(p)' = Config(p)
  BY DEF Config, ProtocolOf, Served

\* The id a step saves: of the login it begins or of the logout it redirects.
NewItem(p, k) ==
  \/ \E b \in Browsers : StartLogin(b, p) /\ ProtocolOf(p) = "saml" /\ k = Len(logins) + 1
  \/ \E c \in DOMAIN calls :
       SloRedirect(c) /\ calls[c].pc \in {"revoke", "idp"} /\ k = MaxLogins + c

\* The cache of a provider after a step.
Holds(p, r) ==
  /\ r \in Seq(1..(MaxLogins + Len(calls'))) /\ Len(r) <= CacheMax /\ IsInjective(r)
  /\ \A k \in ToSet(r) : (k \in ToSet(cache[p]) \/ NewItem(p, k)) /\ env' = env

\* An id that is new is in no cache.
LEMMA NewIsFresh ==
  ASSUME IInv, NEW p \in ProviderIds, NEW k, NewItem(p, k)
  PROVE  k \notin ToSet(cache[p]) /\ k \in Nat \ LoginIds
<1>0. /\ logins \in Seq(Login) /\ calls \in Seq(Call) /\ Len(logins) <= MaxLogins
      /\ LoginIds = 1..Len(logins) /\ DOMAIN calls = 1..Len(calls)
      /\ Len(logins) \in Nat /\ Len(calls) \in Nat /\ MaxLogins \in Nat
  <2>1. logins \in Seq(Login) /\ calls \in Seq(Call) /\ Len(logins) <= MaxLogins
    BY DEF IInv, TypeOK, CacheOK
  <2> QED
    BY <2>1, BoundsAssumption DEF LoginIds
<1>1. \A i \in ToSet(cache[p]) : Item(p, i)
  BY DEF IInv, CacheOK
<1>2. CASE k = Len(logins) + 1 /\ k <= MaxLogins
  BY <1>0, <1>1, <1>2 DEF Item
<1>3. ASSUME NEW c \in DOMAIN calls, calls[c].pc \in {"revoke", "idp"}, k = MaxLogins + c
      PROVE  k \notin ToSet(cache[p]) /\ k \in Nat \ LoginIds
  <2>1. k - MaxLogins = c /\ k \notin LoginIds /\ k \in Nat
    BY <1>0, <1>3
  <2> QED
    BY <2>1, <1>1, <1>3 DEF Item
<1> QED
  BY <1>2, <1>3 DEF NewItem, StartLogin

LEMMA CacheStep ==
  ASSUME IInv, [Next]_vars
  PROVE  /\ cache' \in [ProviderIds -> Seq(1..(MaxLogins + Len(calls')))]
         /\ \A p \in ProviderIds : Holds(p, cache'[p])
<1> DEFINE n == MaxLogins + Len(calls')
           Good == /\ cache' \in [ProviderIds -> Seq(1..n)]
                   /\ \A p \in ProviderIds : Holds(p, cache'[p])
<1>0. /\ Len(calls) \in Nat /\ Len(calls') \in Nat /\ Len(calls) <= Len(calls') /\ MaxLogins \in Nat
      /\ DOMAIN calls = 1..Len(calls) /\ Len(logins) \in Nat
      /\ 1..(MaxLogins + Len(calls)) \subseteq 1..n
  <2>1. calls \in Seq(Call) /\ CallsGrow /\ logins \in Seq(Login)
    BY CallsStep DEF IInv, TypeOK
  <2> QED
    BY <2>1, BoundsAssumption DEF CallsGrow
<1>1. /\ cache \in [ProviderIds -> Seq(1..n)]
      /\ \A p \in ProviderIds : Len(cache[p]) <= CacheMax /\ IsInjective(cache[p])
  <2>1. cache \in [ProviderIds -> Seq(1..(MaxLogins + Len(calls)))]
    BY DEF IInv, TypeOK
  <2>2. \A p \in ProviderIds : cache[p] \in Seq(1..n)
    BY <1>0, <2>1, MonoSeq
  <2> QED
    BY <2>1, <2>2 DEF IInv, TypeOK, CacheOK
<1>2. ASSUME cache' = cache, env' = env PROVE Good
  BY <1>1, <1>2 DEF Holds
<1>3. ASSUME NEW p \in ProviderIds, NEW r, Holds(p, r), env' = env,
             cache' = [cache EXCEPT ![p] = r]
      PROVE  Good
  <2>1. \A q \in ProviderIds : Holds(q, cache[q])
    BY <1>1, <1>3 DEF Holds
  <2>2. r \in Seq(1..n)
    BY <1>3 DEF Holds
  <2> QED
    BY <1>1, <1>3, <2>1, <2>2
<1> HIDE DEF Good
<1>4. ASSUME NEW p \in ProviderIds, NEW k, env' = env, cache' = [cache EXCEPT ![p] = Forget(@, k)]
      PROVE  Good
  <2> DEFINE r == Forget(cache[p], k)
  <2>1. r \in Seq(1..n) /\ Len(r) <= Len(cache[p]) /\ IsInjective(r)
        /\ ToSet(r) \subseteq ToSet(cache[p]) \ {k}
    BY <1>1, ForgetProps
  <2>2. cache' = [cache EXCEPT ![p] = r]
    BY <1>4
  <2> HIDE DEF r
  <2>3. Len(r) <= CacheMax
    <3>1. Len(r) \in Nat /\ Len(cache[p]) \in Nat /\ CacheMax \in Nat /\ Len(cache[p]) <= CacheMax
      BY <1>1, <2>1, BoundsAssumption
    <3> QED
      BY <2>1, <3>1
  <2>4. Holds(p, r)
    BY <2>1, <2>3, <1>4 DEF Holds
  <2> QED
    BY <1>3, <1>4, <2>2, <2>4
<1>5. ASSUME NEW p \in ProviderIds, NEW k \in 1..n, NewItem(p, k), env' = env,
             cache' = [cache EXCEPT ![p] = Save(@, k)]
      PROVE  Good
  <2> DEFINE r == Save(cache[p], k)
  <2>1. k \notin ToSet(cache[p])
    BY <1>5, NewIsFresh
  <2>2. r \in Seq((1..n) \cup {k}) /\ Len(r) <= CacheMax /\ IsInjective(r)
        /\ ToSet(r) \subseteq ToSet(cache[p]) \cup {k}
    <3> DEFINE S == 1..n
               q == cache[p]
    <3>1. q \in Seq(S) /\ IsInjective(q) /\ Len(q) <= CacheMax /\ k \notin ToSet(q)
      BY <1>1, <2>1
    <3> HIDE DEF S, q
    <3>2. /\ Save(q, k) \in Seq(S \cup {k}) /\ Len(Save(q, k)) <= CacheMax
          /\ ToSet(Save(q, k)) \subseteq ToSet(q) \cup {k} /\ IsInjective(Save(q, k))
      BY <3>1, SaveProps
    <3> QED
      BY <3>2 DEF S, q
  <2>3. (1..n) \cup {k} = 1..n
    OBVIOUS
  <2>4. cache' = [cache EXCEPT ![p] = r]
    BY <1>5
  <2> HIDE DEF r
  <2>5. Holds(p, r)
    BY <2>2, <2>3, <1>5 DEF Holds
  <2> QED
    BY <1>3, <1>5, <2>4, <2>5
<1>6. ASSUME NEW b \in Browsers, NEW p \in ProviderIds, StartLogin(b, p) PROVE Good
  <2>1. env' = env
    BY <1>6 DEF StartLogin
  <2>2. CASE ProtocolOf(p) = "saml"
    <3> DEFINE k == Len(logins) + 1
    <3>1. NewItem(p, k)
      BY <1>6, <2>2 DEF NewItem
    <3>2. k \in 1..n
      BY <1>0, <1>6 DEF StartLogin
    <3>3. cache' = [cache EXCEPT ![p] = Save(@, k)]
      BY <1>6, <2>2 DEF StartLogin, CacheOf
    <3> HIDE DEF k
    <3> QED
      BY <1>5, <2>1, <3>1, <3>2, <3>3
  <2>3. CASE ProtocolOf(p) # "saml"
    BY <1>2, <1>6, <2>1, <2>3 DEF StartLogin
  <2> QED
    BY <2>2, <2>3
<1>7. ASSUME NEW c \in DOMAIN calls, SloRedirect(c), calls[c].pc \in {"revoke", "idp"}, env' = env
      PROVE  Good
  <2>1. CASE SloProvider(c) = None
    BY <1>2, <1>7, <2>1 DEF SloRedirect
  <2>2. CASE SloProvider(c) # None
    <3> DEFINE p == SloProvider(c)
               k == MaxLogins + c
    <3>1. p \in ProviderIds
      BY <2>2 DEF SloProvider, Servable, Served, ProviderIds
    <3>2. NewItem(p, k)
      BY <1>7 DEF NewItem
    <3>3. k \in 1..n
      BY <1>0
    <3>4. cache' = [cache EXCEPT ![p] = Save(@, k)]
      BY <1>7, <2>2 DEF SloRedirect, CacheOf
    <3> HIDE DEF k, p
    <3> QED
      BY <1>5, <1>7, <3>1, <3>2, <3>3, <3>4
  <2> QED
    BY <2>1, <2>2
<1>8. ASSUME NEW c \in DOMAIN calls, Consume(c) \/ CallbackFails(c) PROVE Good
  <2>1. CASE calls[c].pc = "consume"
    <3>1. calls[c].at \in ProviderIds
      BY <2>1 DEF IInv, CallbackOK, CallOK, LogoutOK
    <3>2. env' = env /\ cache' = [cache EXCEPT ![calls[c].at] = Forget(@, calls[c].login)]
      BY <1>8, <2>1 DEF Consume, CallbackFails, CacheOf, At
    <3> QED
      BY <1>4, <3>1, <3>2
  <2>2. CASE calls[c].pc # "consume"
    BY <1>2, <1>8, <2>2 DEF Consume, CallbackFails, At
  <2> QED
    BY <2>1, <2>2
<1>9. ASSUME NEW p \in ProviderIds, NEW k \in 1..(MaxLogins + MaxCalls), LogoutCallback(p, k)
      PROVE  Good
  BY <1>4, <1>9 DEF LogoutCallback, CacheOf
<1>10. ASSUME NEW e \in Bootable, Restart(e) PROVE Good
  <2>1. cache' = [p \in ProviderIds |-> <<>>]
    BY <1>10 DEF Restart
  <2>2. \A p \in ProviderIds : Holds(p, <<>>)
    BY BoundsAssumption DEF Holds, ToSet, IsInjective
  <2>3. <<>> \in Seq(1..n)
    OBVIOUS
  <2> QED
    BY <2>1, <2>2, <2>3 DEF Good
<1>11. ASSUME NEW c \in DOMAIN calls, LogoutRevoked(c) \/ LogoutNoClient(c) PROVE Good
  BY <1>2, <1>7, <1>11 DEF LogoutRevoked, LogoutNoClient, At
<1>12. Good
  <2>1. CASE LoginStep \/ UNCHANGED vars
    BY <2>1, <1>2, <1>6 DEF LoginStep, Discovered, LoginAnswered, LoginFails, vars
  <2>2. CASE CallbackStep
    BY <2>2, <1>2, <1>8 DEF CallbackStep, Callback, CallbackClient, Exchange, Validate, Resolve,
                            Record, CallbackAnswered
  <2>3. CASE LogoutStep
    BY <2>3, <1>2, <1>9, <1>11 DEF LogoutStep, Logout, PlainLogout, LogoutClient, LogoutAnswered
  <2>4. CASE Adversity
    BY <2>4, <1>2, <1>10 DEF Adversity, AnswerLost, CookiesExpire, IdsExpire
  <2>5. CASE SessionStep
    BY <2>5, <1>2, SessionQuiet
  <2> QED
    BY <2>1, <2>2, <2>3, <2>4, <2>5 DEF Next
<1> QED
  BY <1>12 DEF Good

\* What the caches hold stays what they should hold.
LEMMA ItemsStep ==
  ASSUME IInv, [Next]_vars, NEW p \in ProviderIds, NEW k \in ToSet(cache'[p])
  PROVE  Item(p, k)'
<1>0. /\ logins \in Seq(Login) /\ logins' \in Seq(Login)
      /\ calls \in Seq(Call) /\ calls' \in Seq(Call')
      /\ LoginsGrow /\ CallsGrow /\ MaxLogins \in Nat /\ Len(logins) \in Nat
      /\ LoginIds = 1..Len(logins) /\ LoginIds' = 1..Len(logins')
      /\ DOMAIN calls = 1..Len(calls) /\ DOMAIN calls' = 1..Len(calls')
  <2>1. logins \in Seq(Login) /\ calls \in Seq(Call) /\ LoginsGrow /\ CallsGrow
    BY LoginsStep, CallsStep DEF IInv, TypeOK
  <2> QED
    BY <2>1, BoundsAssumption DEF LoginIds, LoginsGrow, CallsGrow
<1>1. LoginIds \subseteq LoginIds' /\ DOMAIN calls \subseteq DOMAIN calls'
  BY <1>0 DEF LoginsGrow, CallsGrow
<1>2. (k \in ToSet(cache[p]) \/ NewItem(p, k)) /\ env' = env
  BY CacheStep DEF Holds
<1>3. Config(p)' = Config(p)
  BY <1>2, ConfigKept
<1>4. CASE k \in ToSet(cache[p])
  <2>1. Item(p, k)
    BY <1>4 DEF IInv, CacheOK
  <2>2. CASE k \in LoginIds /\ logins[k].protocol = "saml" /\ logins[k].provider = p
             /\ logins[k].issuer = Config(p).issuer
    BY <1>0, <1>1, <1>3, <2>2 DEF Item, LoginsGrow, Fixed
  <2>3. CASE k - MaxLogins \in DOMAIN calls /\ calls[k - MaxLogins].pc \in {"leave", "done"}
    BY <1>1, <2>3, DoneStays DEF Item
  <2> QED
    BY <2>1, <2>2, <2>3 DEF Item
<1>5. ASSUME NEW b \in Browsers, StartLogin(b, p), ProtocolOf(p) = "saml", k = Len(logins) + 1
      PROVE  Item(p, k)'
  <2>1. /\ logins'[k].protocol = "saml" /\ logins'[k].provider = p
        /\ logins'[k].issuer = Config(p).issuer /\ k \in LoginIds'
    BY <1>0, <1>5 DEF StartLogin
  <2> QED
    BY <1>3, <2>1 DEF Item
<1>6. ASSUME NEW c \in DOMAIN calls, SloRedirect(c), k = MaxLogins + c
      PROVE  Item(p, k)'
  <2>1. k - MaxLogins = c /\ c \in DOMAIN calls'
    BY <1>0, <1>1, <1>6
  <2>2. calls'[c].pc = "leave"
    <3>1. calls[c] \in Call
      BY <1>0
    <3> QED
      BY <1>0, <1>6, <3>1 DEF SloRedirect, Call
  <2> QED
    BY <2>1, <2>2 DEF Item
<1> QED
  BY <1>2, <1>4, <1>5, <1>6 DEF NewItem

\* No cache gets the id of a login that had begun before.
LEMMA CachedShrinks ==
  ASSUME IInv, [Next]_vars, NEW l \in LoginIds, Cached(l)'
  PROVE  Cached(l)
<1>1. PICK p \in ProviderIds : l \in ToSet(cache'[p])
  BY DEF Cached
<1>2. l \in ToSet(cache[p]) \/ NewItem(p, l)
  BY <1>1, CacheStep DEF Holds
<1>3. ~NewItem(p, l)
  BY NewIsFresh
<1> QED
  BY <1>2, <1>3 DEF Cached

LEMMA RedeemedGrows ==
  ASSUME [Next]_vars
  PROVE  redeemed \subseteq redeemed'
  BY SessionQuiet
     DEF Next, LoginStep, CallbackStep, LogoutStep, Adversity, vars, StartLogin, Discovered,
         LoginAnswered, LoginFails, Callback, CallbackClient, Exchange, Validate, Consume, Resolve,
         Record, CallbackFails, CallbackAnswered, Logout, PlainLogout, LogoutCallback,
         LogoutRevoked, LogoutClient, LogoutNoClient, LogoutAnswered, AnswerLost, CookiesExpire,
         IdsExpire, Restart

\* An answer that cannot lead to a session never will again.
LEMMA SpentStays ==
  ASSUME IInv, [Next]_vars, NEW l \in LoginIds, Spent(l)
  PROVE  Spent(l)'
<1>1. logins'[l].protocol = logins[l].protocol
  BY LoginsStep DEF LoginsGrow, Fixed
<1> QED
  BY <1>1, CachedShrinks, RedeemedGrows DEF Spent

\* Only a record makes a login one that led to a session.
LEMMA UsedStep ==
  ASSUME IInv, [Next]_vars, NEW l \in LoginIds', logins'[l].used
  PROVE  /\ l \in LoginIds
         /\ logins[l].used \/ \E c \in DOMAIN calls : Record(c) /\ l = calls[c].login
<1> DEFINE Fine ==
             /\ l \in LoginIds
             /\ logins[l].used \/ \E c \in DOMAIN calls : Record(c) /\ l = calls[c].login
<1>0. logins \in Seq(Login) /\ LoginIds = DOMAIN logins /\ \A k \in LoginIds : logins[k] \in Login
  BY LoginTyped DEF IInv, TypeOK, LoginIds
<1>1. ASSUME logins' = logins PROVE Fine
  BY <1>1 DEF LoginIds
<1>2. ASSUME NEW b \in Browsers, NEW p \in ProviderIds, StartLogin(b, p) PROVE Fine
  BY <1>0, <1>2 DEF StartLogin, LoginIds
<1>3. ASSUME NEW k, NEW r \in Login, k \in LoginIds => r.used = logins[k].used,
             logins' = [logins EXCEPT ![k] = r]
      PROVE  Fine
  BY <1>0, <1>3 DEF LoginIds
<1>4. ASSUME NEW k, NEW x \in {"answer", "asked", "over"}, k \in LoginIds,
             logins' = [logins EXCEPT ![k].step = x]
      PROVE  Fine
  <2> DEFINE r == [logins[k] EXCEPT !.step = x]
  <2>1. r \in Login /\ r.used = logins[k].used
    BY <1>0, <1>4 DEF Login
  <2>2. logins' = [logins EXCEPT ![k] = r]
    BY <1>4
  <2> HIDE DEF r, Fine
  <2> QED
    BY <2>1, <2>2, <1>3
<1>5. ASSUME NEW k, logins' = [logins EXCEPT ![k].taken = TRUE] PROVE Fine
  <2>1. CASE k \notin LoginIds
    BY <1>0, <1>1, <1>5, <2>1
  <2>2. CASE k \in LoginIds
    <3> DEFINE r == [logins[k] EXCEPT !.taken = TRUE]
    <3>1. r \in Login /\ r.used = logins[k].used
      BY <1>0, <2>2 DEF Login
    <3>2. logins' = [logins EXCEPT ![k] = r]
      BY <1>5
    <3> HIDE DEF r, Fine
    <3> QED
      BY <3>1, <3>2, <1>3
  <2> QED
    BY <2>1, <2>2
<1>6. ASSUME NEW c \in DOMAIN calls, Record(c) PROVE Fine
  <2>1. CASE l = calls[c].login
    BY <1>0, <1>6, <2>1 DEF Record, LoginIds
  <2>2. CASE l # calls[c].login
    BY <1>0, <1>6, <2>2 DEF Record, LoginIds
  <2> QED
    BY <2>1, <2>2
<1>7. ASSUME NEW e \in Bootable, Restart(e) PROVE Fine
  <2>1. l \in LoginIds /\ logins'[l] = [logins[l] EXCEPT !.saved = FALSE,
                                                      !.step = IF @ = "asked" THEN @ ELSE "over"]
    BY <1>0, <1>7 DEF Restart, LoginIds
  <2>2. logins[l] \in Login
    BY <1>0, <2>1
  <2>3. logins'[l].used = logins[l].used
    BY <2>1, <2>2 DEF Login
  <2> QED
    BY <2>1, <2>3
<1> HIDE DEF Fine
<1>8. Fine
  <2>1. CASE LoginStep \/ UNCHANGED vars
    BY <2>1, <1>1, <1>2, <1>4 DEF LoginStep, Discovered, LoginAnswered, LoginFails, vars
  <2>2. CASE CallbackStep
    BY <2>2, <1>1, <1>5, <1>6 DEF CallbackStep, Callback, CallbackClient, Exchange, Validate,
                                  Consume, Resolve, CallbackFails, CallbackAnswered
  <2>3. CASE LogoutStep
    BY <2>3, <1>1, <1>5 DEF LogoutStep, Logout, PlainLogout, LogoutCallback, LogoutRevoked,
                            LogoutClient, LogoutNoClient, LogoutAnswered
  <2>4. CASE Adversity
    BY <2>4, <1>1, <1>7 DEF Adversity, AnswerLost, CookiesExpire, IdsExpire
  <2>5. CASE SessionStep
    BY <2>5, <1>1, SessionQuiet
  <2> QED
    BY <2>1, <2>2, <2>3, <2>4, <2>5 DEF Next
<1> QED
  BY <1>8 DEF Fine

LEMMA CacheOKStep == IInv /\ [Next]_vars => CacheOK'
<1> SUFFICES ASSUME IInv, [Next]_vars PROVE CacheOK'
  OBVIOUS
<1>1. \A p \in ProviderIds : IsInjective(cache'[p]) /\ \A k \in ToSet(cache'[p]) : Item(p, k)'
  BY CacheStep, ItemsStep DEF Holds
<1>2. Len(logins') <= MaxLogins
  BY LoginsStep DEF LoginsGrow
<1>3. ASSUME NEW l \in LoginIds', logins'[l].used PROVE Spent(l)'
  <2>1. /\ l \in LoginIds
        /\ logins[l].used \/ \E c \in DOMAIN calls : Record(c) /\ l = calls[c].login
    BY <1>3, UsedStep
  <2>2. ASSUME NEW c \in DOMAIN calls, Record(c), l = calls[c].login PROVE Spent(l)
    BY <2>2 DEF Record, At, IInv, CallbackOK, CallOK, LogoutOK
  <2>3. logins[l].used => Spent(l)
    BY <2>1 DEF IInv, CacheOK
  <2> QED
    BY <2>1, <2>2, <2>3, SpentStays
<1> QED
  BY <1>1, <1>2, <1>3 DEF CacheOK

--------------------------------------------------------------------------------
\* The steps of a call.

\* A call that did not move is as good as it was.
LEMMA CallStable ==
  ASSUME IInv, [Next]_vars, NEW d \in DOMAIN calls, calls'[d] = calls[d], env' = env, CallOK(d)
  PROVE  CallOK(d)'
<1> DEFINE l == calls[d].login
           tx == calls[d].tx
<1>1. LoginsGrow /\ LoginIds \subseteq LoginIds'
  BY LoginsStep, CallMono DEF IInv, TypeOK
<1>2. l \in LoginIds /\ Fixed(l) /\ (tx \in LoginIds => Fixed(tx))
  BY <1>1 DEF CallOK, LoginsGrow
<1>3. \A p : Config(p)' = Config(p)
  BY ConfigKept
<1>4. Spent(l) => Spent(l)'
  BY <1>2, SpentStays
<1> QED
  BY <1>1, <1>2, <1>3, <1>4 DEF CallOK, Fixed

\* A callback that goes on to x: what its new place demands.
LEMMA CallGoes ==
  ASSUME IInv, [Next]_vars, NEW d \in DOMAIN calls, CallOK(d), env' = env,
         NEW x \in {"exchange", "consume", "resolve", "record", "accepted", "refused"}, Goto(d, x),
         x = "refused" \/ calls[d].pc # "refused",
         x = "exchange" => calls[d].kind = "oidc",
         x = "consume" => /\ calls[d].kind = "saml"
                          /\ logins[calls[d].login].issuer = Config(calls[d].at).issuer,
         x \in {"resolve", "record", "accepted"} =>
           /\ calls[d].tx = calls[d].login
           /\ calls[d].issuer = logins[calls[d].login].issuer /\ Spent(calls[d].login)',
         calls[d].replay => x \in {"exchange", "refused"}
  PROVE  CallOK(d)'
<1> DEFINE l == calls[d].login
           tx == calls[d].tx
<1>0. calls[d] \in Call /\ d \in DOMAIN calls
  BY DEF IInv, TypeOK
<1>1. LoginsGrow /\ LoginIds \subseteq LoginIds'
  BY LoginsStep, CallMono DEF IInv, TypeOK
<1>2. l \in LoginIds /\ Fixed(l) /\ (tx \in LoginIds => Fixed(tx))
  BY <1>1 DEF CallOK, LoginsGrow
<1>3. \A p : Config(p)' = Config(p)
  BY ConfigKept
<1>4. /\ calls'[d].pc = x /\ calls'[d].kind = calls[d].kind /\ calls'[d].login = l
      /\ calls'[d].tx = tx /\ calls'[d].at = calls[d].at /\ calls'[d].issuer = calls[d].issuer
      /\ calls'[d].browser = calls[d].browser /\ calls'[d].replay = calls[d].replay
  <2>1. calls'[d] = [calls[d] EXCEPT !.pc = x]
    BY DEF Goto
  <2> QED
    BY <1>0, <2>1 DEF Call
<1> QED
  BY <1>1, <1>2, <1>3, <1>4 DEF CallOK, Fixed

\* An answer that is consumed with the id of its own login leaves no id of it.
LEMMA ConsumeSpends ==
  ASSUME IInv, [Next]_vars, NEW d \in DOMAIN calls, Consume(d), CallOK(d),
         calls[d].tx = calls[d].login
  PROVE  Spent(calls[d].login)'
<1> DEFINE l == calls[d].login
           at == calls[d].at
<1>0. /\ l \in LoginIds /\ at \in ProviderIds /\ logins[l].provider = at
      /\ logins[l].protocol = "saml" /\ calls'[d].login = l
  <2>1. calls[d] \in Call
    BY DEF IInv, TypeOK
  <2>2. calls'[d].login = l
    BY <2>1 DEF Consume, Goto, Call
  <2> QED
    BY <2>2 DEF CallOK, Consume, At
<1>1. cache' = [cache EXCEPT ![at] = Forget(@, l)]
  BY DEF Consume, CacheOf
<1>2. cache[at] \in Seq(1..(MaxLogins + Len(calls))) /\ IsInjective(cache[at])
      /\ cache \in [ProviderIds -> Seq(1..(MaxLogins + Len(calls)))]
  BY <1>0 DEF IInv, TypeOK, CacheOK
<1> HIDE DEF l, at
<1>3. l \notin ToSet(cache'[at])
  <2>1. ToSet(Forget(cache[at], l)) \subseteq ToSet(cache[at]) \ {l}
    BY <1>2, ForgetProps
  <2> QED
    BY <1>0, <1>1, <1>2, <2>1
<1>4. ASSUME NEW p \in ProviderIds, l \in ToSet(cache'[p]) PROVE FALSE
  <2>1. p # at
    BY <1>3, <1>4
  <2>2. l \in ToSet(cache[p])
    BY <1>1, <1>2, <1>4, <2>1
  <2>3. Item(p, l)
    BY <2>2 DEF IInv, CacheOK
  <2>4. l - MaxLogins \notin DOMAIN calls
    <3>1. l \in 1..Len(logins) /\ Len(logins) <= MaxLogins /\ Len(logins) \in Nat
      BY <1>0 DEF IInv, TypeOK, CacheOK, LoginIds
    <3>2. DOMAIN calls = 1..Len(calls)
      BY DEF IInv, TypeOK
    <3> QED
      BY <3>1, <3>2, BoundsAssumption
  <2> QED
    BY <1>0, <2>1, <2>3, <2>4 DEF Item
<1>5. logins'[l].protocol = "saml"
  BY <1>0, LoginsStep DEF LoginsGrow, Fixed
<1>6. ~ \E p \in ProviderIds : l \in ToSet(cache'[p])
  BY <1>4
<1>7. calls'[d].login = l
  BY <1>0
<1> QED
  BY <1>5, <1>6, <1>7 DEF Spent, Cached

\* Whatever a callback does next, it is fine.
LEMMA CallMoves ==
  ASSUME IInv, [Next]_vars, NEW d \in DOMAIN calls, Moved(d), calls[d].kind # "logout"
  PROVE  CallOK(d)'
<1> DEFINE l == calls[d].login
           pc == calls[d].pc
<1>0. /\ CallOK(d) /\ env' = env /\ pc \in {"client", "exchange", "validate", "consume",
                                               "resolve", "record"}
  <2>1. pc \in {"client", "exchange", "validate", "consume", "resolve", "record", "revoke", "idp"}
        /\ env' = env
    BY DEF Moved, CallbackClient, Exchange, Validate, Consume, Resolve, Record, CallbackFails,
           LogoutRevoked, LogoutClient, LogoutNoClient, At
  <2>2. CallOK(d)
    BY <2>1 DEF IInv, CallbackOK
  <2> QED
    BY <2>1, <2>2 DEF CallOK
<1>1. calls[d] \in Call /\ l \in LoginIds /\ logins[l].protocol = calls[d].kind
      /\ logins'[l].protocol = logins[l].protocol
  BY <1>0, LoginsStep DEF IInv, TypeOK, CallOK, LoginsGrow, Fixed
<1>2. calls[d].replay => Spent(l)
  BY <1>0, <1>1 DEF CallOK, IInv, CacheOK
<1>3. pc # "refused"
  BY <1>0
<1>4. CASE CallbackClient(d)
  BY <1>0, <1>4, CallGoes DEF CallbackClient, CallOK, At
<1>5. CASE Exchange(d)
  <2>1. calls[d].kind = "oidc" /\ calls[d].issuer = logins[l].issuer
    BY <1>0, <1>5 DEF CallOK, Exchange, At
  <2>2. CASE Goto(d, "refused")
    BY <1>0, <1>3, <2>2, CallGoes
  <2>3. CASE ~Goto(d, "refused")
    <3>1. calls[d].tx = l /\ l \notin redeemed /\ redeemed' = redeemed \cup {l} /\ Goto(d, "resolve")
      BY <1>5, <2>3 DEF Exchange, StateMatches
    <3>2. ~calls[d].replay
      BY <1>1, <1>2, <2>1, <3>1 DEF Spent
    <3>3. calls'[d].login = l
      BY <1>1, <3>1 DEF Goto, Call
    <3>4. Spent(l)'
      BY <1>1, <2>1, <3>1, <3>3 DEF Spent
    <3> QED
      BY <1>0, <1>3, <2>1, <3>1, <3>2, <3>4, CallGoes
  <2> QED
    BY <2>2, <2>3
<1>6. CASE Validate(d)
  <2>1. calls[d].kind = "saml" /\ calls[d].at \in ProviderIds
    BY <1>0, <1>6 DEF CallOK, Validate, At
  <2>2. CASE Goto(d, "refused")
    BY <1>0, <1>3, <2>2, CallGoes
  <2>3. CASE ~Goto(d, "refused")
    <3>1. Contains(cache[calls[d].at], l) /\ Goto(d, "consume")
      BY <1>6, <2>3 DEF Validate, Knows, CacheOf
    <3>2. l \in ToSet(cache[calls[d].at])
      <4>1. cache[calls[d].at] \in Seq(1..(MaxLogins + Len(calls)))
        BY <2>1 DEF IInv, TypeOK
      <4> QED
        BY <3>1, <4>1 DEF Contains, ToSet
    <3>3. ~calls[d].replay
      BY <1>1, <1>2, <2>1, <3>2 DEF Spent, Cached
    <3>4. Item(calls[d].at, l)
      BY <2>1, <3>2 DEF IInv, CacheOK
    <3>5. l - MaxLogins \notin DOMAIN calls
      <4>1. l \in 1..Len(logins) /\ Len(logins) <= MaxLogins /\ Len(logins) \in Nat
        BY <1>1 DEF IInv, TypeOK, CacheOK, LoginIds
      <4>2. DOMAIN calls = 1..Len(calls)
        BY DEF IInv, TypeOK
      <4> QED
        BY <4>1, <4>2, BoundsAssumption
    <3>6. logins[l].issuer = Config(calls[d].at).issuer
      BY <3>4, <3>5 DEF Item
    <3> QED
      BY <1>0, <1>3, <2>1, <3>1, <3>3, <3>6, CallGoes
  <2> QED
    BY <2>2, <2>3
<1>7. CASE Consume(d)
  <2>1. pc = "consume"
    BY <1>7 DEF Consume, At
  <2>2. ~calls[d].replay /\ logins[l].issuer = Config(calls[d].at).issuer
    BY <1>0, <2>1 DEF CallOK
  <2>3. CASE Goto(d, "refused")
    BY <1>0, <1>3, <2>3, CallGoes
  <2>4. CASE ~Goto(d, "refused")
    <3>1. IssuerPinned(d) /\ l = calls[d].tx /\ Goto(d, "resolve")
      BY <1>7, <2>4 DEF Consume
    <3>2. calls[d].issuer = logins[l].issuer
      BY <2>2, <3>1 DEF IssuerPinned
    <3>3. Spent(l)'
      BY <1>0, <1>7, <3>1, ConsumeSpends
    <3> QED
      BY <1>0, <1>3, <2>2, <3>1, <3>2, <3>3, CallGoes
  <2> QED
    BY <2>3, <2>4
<1>8. CASE Resolve(d) \/ Record(d)
  <2>1. pc \in {"resolve", "record"} /\ (Goto(d, "record") \/ Goto(d, "accepted"))
    BY <1>8 DEF Resolve, Record, At
  <2>2. calls[d].tx = l /\ calls[d].issuer = logins[l].issuer /\ Spent(l) /\ ~calls[d].replay
    BY <1>0, <2>1 DEF CallOK
  <2>3. calls'[d].login = l
    BY <1>1, <2>1 DEF Goto, Call
  <2>4. Spent(l)'
    BY <1>1, <2>2, <2>3, SpentStays
  <2> QED
    BY <1>0, <1>3, <2>1, <2>2, <2>4, CallGoes
<1>9. CASE CallbackFails(d)
  BY <1>0, <1>3, <1>9, CallGoes DEF CallbackFails
<1>10. ~LogoutRevoked(d) /\ ~LogoutClient(d) /\ ~LogoutNoClient(d)
  BY <1>0 DEF LogoutRevoked, LogoutClient, LogoutNoClient, At
<1> QED
  BY <1>4, <1>5, <1>6, <1>7, <1>8, <1>9, <1>10 DEF Moved

\* So is a callback that begins.
LEMMA CallBegins ==
  ASSUME IInv, [Next]_vars, NEW b \in Browsers, NEW l \in LoginIds, NEW p \in ProviderIds,
         NEW i \in Issuers, Callback(b, l, p, i), NEW d, d = Len(calls) + 1
  PROVE  CallOK(d)'
<1> DEFINE q == logins[l].protocol
           tx == ReadTransaction(b, q)
<1>1. /\ logins' = logins /\ LoginIds' = LoginIds
      /\ q \in Protocols /\ logins[l].used \in BOOLEAN /\ jar[b] \in Jar
      /\ JarFine(b, jar[b], logins, parted)
  <2>1. logins' = logins
    BY DEF Callback
  <2> QED
    BY <2>1, LoginTyped DEF IInv, TypeOK, JarOK, LoginIds
<1>2. tx # None => tx \in LoginIds /\ logins[tx].browser = b
  BY <1>1 DEF ReadTransaction, JarFine, LoginIds
<1>3. calls'[d] = [browser |-> b, kind |-> q, login |-> l, at |-> p, issuer |-> i, tx |-> tx,
                   replay |-> logins[l].used, saved |-> 0, pc |-> CallbackFirstStep(q, tx, p)]
  <2>1. calls \in Seq(Call)
    BY DEF IInv, TypeOK
  <2> QED
    BY <2>1 DEF Callback
<1>4. q = "oidc" => i = logins[l].issuer
  BY DEF Callback
<1> DEFINE x == CallbackFirstStep(q, tx, p)
<1>5. /\ x \in {"refused", "client", "validate"}
      /\ x # "refused" => tx # None /\ logins[tx].provider = p
      /\ x = "client" => q = "oidc"
      /\ x = "validate" => q = "saml"
  BY <1>1 DEF CallbackFirstStep, Protocols
<1> HIDE DEF x
<1>6. /\ calls'[d].browser = b /\ calls'[d].kind = q /\ calls'[d].login = l /\ calls'[d].at = p
      /\ calls'[d].issuer = i /\ calls'[d].tx = tx /\ calls'[d].replay = logins[l].used
      /\ calls'[d].pc = x
  BY <1>3 DEF x
<1> HIDE DEF tx
<1> QED
  BY <1>1, <1>2, <1>4, <1>5, <1>6 DEF CallOK

LEMMA CallbackOKStep == IInv /\ [Next]_vars => CallbackOK'
<1> SUFFICES ASSUME IInv, [Next]_vars, NEW d \in DOMAIN calls',
                    calls'[d].kind # "logout", calls'[d].pc # "done"
             PROVE  CallOK(d)'
  BY DEF CallbackOK
<1>1. CASE d \in DOMAIN calls
  <2>1. calls[d] \in Call
    BY <1>1 DEF IInv, TypeOK
  <2>2. Finished(calls[d]).pc = "done"
    BY <2>1 DEF Finished, Call
  <2>3. CASE calls'[d] = calls[d]
    <3>1. CallOK(d)
      BY <1>1, <2>3 DEF IInv, CallbackOK
    <3>2. ASSUME NEW e \in Bootable, Restart(e) PROVE FALSE
      BY <1>1, <2>2, <3>2 DEF Restart
    <3> QED
      BY <1>1, <2>3, <3>1, <3>2, EnvStep, CallStable
  <2>4. CASE Moved(d)
    <3>1. calls[d].kind # "logout"
      BY <1>1, <2>1, <2>4
      DEF Moved, CallbackClient, Exchange, Validate, Consume, Resolve, Record, CallbackFails,
          LogoutRevoked, LogoutClient, LogoutNoClient, SloRedirect, Goto, Call
    <3> QED
      BY <1>1, <2>4, <3>1, CallMoves
  <2> QED
    BY <1>1, <2>2, <2>3, <2>4, CallCases
<1>2. CASE d \notin DOMAIN calls
  <2>1. d = Len(calls) + 1 /\ calls \in Seq(Call)
    BY <1>2, NewCall DEF IInv, TypeOK
  <2>2. ASSUME NEW b \in Browsers, Logout(b) PROVE FALSE
    BY <2>1, <2>2 DEF Logout
  <2> QED
    BY <1>2, <2>1, <2>2, NewCall, CallBegins
<1> QED
  BY <1>1, <1>2

LEMMA LogoutOKStep == IInv /\ [Next]_vars => LogoutOK'
<1> DEFINE Fine(r, L) ==
      /\ r.kind = "logout" \/ r.pc = "done" => ~r.replay
      /\ r.kind = "logout" => r.pc \in {"revoke", "idp", "leave", "done"}
      /\ r.pc = "idp" => r.login \in L
<1> SUFFICES ASSUME IInv, [Next]_vars, NEW d \in DOMAIN calls' PROVE Fine(calls'[d], LoginIds')
  BY DEF LogoutOK
<1>0. LoginIds \subseteq LoginIds' /\ calls \in Seq(Call)
  BY LoginsStep, CallMono DEF IInv, TypeOK
<1>1. CASE d \in DOMAIN calls
  <2>1. calls[d] \in Call /\ Fine(calls[d], LoginIds)
    BY <1>1 DEF IInv, TypeOK, LogoutOK
  <2>2. CASE calls'[d] = calls[d]
    BY <1>0, <2>1, <2>2
  <2>3. CASE calls'[d] = Finished(calls[d])
    <3>1. Finished(calls[d]).pc = "done" /\ Finished(calls[d]).replay = FALSE
      BY <2>1 DEF Finished, Call
    <3> QED
      BY <2>3, <3>1
  <2>4. CASE Moved(d)
    <3>1. CASE calls[d].kind # "logout"
      <4>1. CallOK(d)' /\ calls'[d].kind # "logout"
        <5>1. calls'[d].kind = calls[d].kind
          BY <1>1, <2>1, <2>4
          DEF Moved, CallbackClient, Exchange, Validate, Consume, Resolve, Record, CallbackFails,
              LogoutRevoked, LogoutClient, LogoutNoClient, SloRedirect, Goto, Call
        <5> QED
          BY <1>1, <2>4, <3>1, <5>1, CallMoves
      <4>2. calls'[d].pc # "done"
        BY <1>1, <2>1, <2>4
        DEF Moved, CallbackClient, Exchange, Validate, Consume, Resolve, Record, CallbackFails,
            LogoutRevoked, LogoutClient, LogoutNoClient, SloRedirect, Goto, Call
      <4> QED
        BY <4>1, <4>2 DEF CallOK
    <3>2. CASE calls[d].kind = "logout"
      <4>1. LogoutRevoked(d) \/ LogoutClient(d) \/ LogoutNoClient(d)
        BY <2>1, <2>4, <3>2 DEF Moved, CallbackClient, Exchange, Validate, Consume, Resolve, Record,
                                CallbackFails, At
      <4>2. /\ calls'[d].replay = calls[d].replay /\ calls'[d].login = calls[d].login
            /\ calls'[d].kind = calls[d].kind
            /\ \/ calls'[d].pc = "leave"
               \/ calls'[d].pc = "idp" /\ Servable(calls[d].login, "oidc")
        <5>1. ASSUME NEW p, NEW n,
                     \/ calls'[d] = [calls[d] EXCEPT !.pc = "leave", !.at = p, !.saved = n]
                     \/ calls'[d] = [calls[d] EXCEPT !.pc = "leave", !.at = p]
              PROVE  /\ calls'[d].pc = "leave" /\ calls'[d].replay = calls[d].replay
                     /\ calls'[d].login = calls[d].login /\ calls'[d].kind = calls[d].kind
          BY <2>1, <5>1 DEF Call
        <5>3. CASE SloRedirect(d)
          <6> DEFINE p == SloProvider(d)
                     n == IF p = None THEN 0 ELSE Len(logins)
          <6>1. calls'[d] = [calls[d] EXCEPT !.pc = "leave", !.at = p, !.saved = n]
            BY <1>1, <5>3 DEF SloRedirect
          <6> HIDE DEF p, n
          <6> QED
            BY <5>1, <6>1
        <5>4. CASE LogoutClient(d)
          <6> DEFINE p == logins[calls[d].login].provider
          <6>1. calls'[d] = [calls[d] EXCEPT !.pc = "leave", !.at = p]
            BY <1>1, <5>4 DEF LogoutClient
          <6> HIDE DEF p
          <6> QED
            BY <5>1, <6>1
        <5>2. CASE Goto(d, "idp") /\ Servable(calls[d].login, "oidc")
          BY <1>1, <2>1, <5>2 DEF Goto, Call
        <5> QED
          BY <4>1, <5>2, <5>3, <5>4 DEF LogoutRevoked, LogoutNoClient
      <4>3. Servable(calls[d].login, "oidc") => calls[d].login \in LoginIds
        BY <2>1 DEF Servable, Call
      <4> QED
        BY <1>0, <2>1, <3>2, <4>2, <4>3
    <3> QED
      BY <3>1, <3>2
  <2> QED
    BY <1>1, <2>2, <2>3, <2>4, CallCases
<1>2. CASE d \notin DOMAIN calls
  <2>1. d = Len(calls) + 1
    BY <1>2, NewCall
  <2>2. ASSUME NEW b \in Browsers, Logout(b) PROVE Fine(calls'[d], LoginIds')
    BY <1>0, <2>1, <2>2 DEF Logout
  <2>3. ASSUME NEW b \in Browsers, NEW l \in LoginIds, NEW p \in ProviderIds, NEW i \in Issuers,
               Callback(b, l, p, i)
        PROVE  Fine(calls'[d], LoginIds')
    <3>1. calls'[d].kind = logins[l].protocol /\ calls'[d].pc \in {"refused", "client", "validate"}
      BY <1>0, <2>1, <2>3 DEF Callback, CallbackFirstStep
    <3>2. logins[l].protocol # "logout"
      BY LoginTyped DEF IInv, TypeOK, Protocols
    <3> QED
      BY <3>1, <3>2
  <2> QED
    BY <1>2, <2>2, <2>3, NewCall
<1> QED
  BY <1>1, <1>2

--------------------------------------------------------------------------------
\* The rest of the types, and the theorems.

LEMMA TypeStep == IInv /\ [Next]_vars => TypeOK'
<1> SUFFICES ASSUME IInv, [Next]_vars PROVE TypeOK'
  OBVIOUS
<1>0. /\ logins \in Seq(Login) /\ calls \in Seq(Call) /\ env \in DOMAIN Envs
      /\ clients \subseteq ProviderIds /\ old \in 0..Len(logins) /\ redeemed \subseteq LoginIds
      /\ disturbed \subseteq LoginIds /\ faults \in 0..MaxFaults
      /\ Len(logins) \in Nat /\ LoginIds = 1..Len(logins) /\ MaxFaults \in Nat
  <2>1. logins \in Seq(Login)
    BY DEF IInv, TypeOK
  <2> QED
    BY <2>1, BoundsAssumption DEF IInv, TypeOK, LoginIds
<1>1. /\ logins' \in Seq(Login) /\ calls' \in Seq(Call') /\ LoginIds \subseteq LoginIds'
      /\ Len(logins) <= Len(logins') /\ Len(logins') \in Nat
  BY <1>0, LoginsStep, CallsStep, CallMono DEF LoginsGrow, CallsGrow
<1>2. env' \in DOMAIN Envs
  <2>1. Bootable \subseteq DOMAIN Envs
    BY DEF Bootable
  <2> QED
    BY <1>0, <2>1, EnvStep DEF Restart
<1>3. /\ cache' \in [ProviderIds -> Seq(1..(MaxLogins + Len(calls')))]
      /\ \A p \in ProviderIds : Len(cache'[p]) <= CacheMax
  BY CacheStep DEF Holds
<1>4. jar' \in [Browsers -> Jar']
  BY JarStep
<1>5. \A l \in LoginIds : logins[l].provider \in ProviderIds /\ 1..l \subseteq LoginIds
  BY <1>0, LoginTyped
<1>6. \A c \in DOMAIN calls :
        /\ calls[c].pc \in {"client", "exchange", "consume", "resolve", "record"} =>
             calls[c].at \in ProviderIds /\ calls[c].login \in LoginIds
        /\ calls[c].pc = "idp" => calls[c].login \in LoginIds
  <2> TAKE c \in DOMAIN calls
  <2>1. calls[c].pc = "idp" => calls[c].login \in LoginIds
    BY DEF IInv, LogoutOK
  <2>2. calls[c].pc \in {"client", "exchange", "consume", "resolve", "record"} => CallOK(c)
    BY DEF IInv, CallbackOK, LogoutOK
  <2> QED
    BY <2>1, <2>2 DEF CallOK
<1>7. clients' \subseteq ProviderIds
  <2>1. ASSUME NEW l \in LoginIds, Discovered(l) PROVE clients' \subseteq ProviderIds
    BY <1>0, <1>5, <2>1 DEF Discovered
  <2>2. ASSUME NEW c \in DOMAIN calls, CallbackClient(c) PROVE clients' \subseteq ProviderIds
    BY <1>0, <1>6, <2>2 DEF CallbackClient, At
  <2>3. ASSUME NEW c \in DOMAIN calls, LogoutClient(c) PROVE clients' \subseteq ProviderIds
    BY <1>0, <1>5, <1>6, <2>3 DEF LogoutClient, At
  <2>4. CASE clients' \in {clients, {}}
    BY <1>0, <2>4
  <2> QED
    BY <2>1, <2>2, <2>3, <2>4, SessionQuiet
    DEF Next, LoginStep, CallbackStep, LogoutStep, Adversity, vars, StartLogin, LoginAnswered,
        LoginFails, Callback, Exchange, Validate, Consume, Resolve, Record, CallbackFails,
        CallbackAnswered, Logout, PlainLogout, LogoutCallback, LogoutRevoked, LogoutNoClient,
        LogoutAnswered, AnswerLost, CookiesExpire, IdsExpire, Restart
<1>8. redeemed' \subseteq LoginIds'
  BY <1>0, <1>1, <1>6, SessionQuiet
  DEF Next, LoginStep, CallbackStep, LogoutStep, Adversity, vars, StartLogin, Discovered,
      LoginAnswered, LoginFails, Callback, CallbackClient, Exchange, Validate, Consume, Resolve,
      Record, CallbackFails, CallbackAnswered, Logout, PlainLogout, LogoutCallback, LogoutRevoked,
      LogoutClient, LogoutNoClient, LogoutAnswered, AnswerLost, CookiesExpire, IdsExpire, Restart,
      At
<1>9. old' \in 0..Len(logins')
  <2>1. old' = old \/ old' \in LoginIds
    BY SessionQuiet
       DEF Next, LoginStep, CallbackStep, LogoutStep, Adversity, vars, StartLogin, Discovered,
           LoginAnswered, LoginFails, Callback, CallbackClient, Exchange, Validate, Consume,
           Resolve, Record, CallbackFails, CallbackAnswered, Logout, PlainLogout, LogoutCallback,
           LogoutRevoked, LogoutClient, LogoutNoClient, LogoutAnswered, AnswerLost, CookiesExpire,
           IdsExpire, Restart
  <2> QED
    BY <1>0, <1>1, <2>1
<1>10. disturbed' \subseteq LoginIds'
  <2>1. \/ disturbed' = disturbed
        \/ \E L \in SUBSET LoginIds : Disturb(L)
    <3>1. ASSUME NEW L, L \subseteq LoginIds, Disturb(L)
          PROVE  \E M \in SUBSET LoginIds : Disturb(M)
      BY <3>1
    <3>2. \A b, q : /\ SameCookie(b, q) \subseteq LoginIds
                    /\ \A l : SameCookie(b, q) \ {l} \subseteq LoginIds
      BY DEF SameCookie
    <3>3. \A l \in LoginIds : {l} \subseteq LoginIds /\ 1..l \subseteq LoginIds
      BY <1>5
    <3>4. ASSUME NEW l \in LoginIds, LoginAnswered(l) PROVE \E M \in SUBSET LoginIds : Disturb(M)
      BY <3>1, <3>2, <3>4 DEF LoginAnswered
    <3>5. ASSUME NEW c \in DOMAIN calls, CallbackFails(c)
          PROVE  \E M \in SUBSET LoginIds : Disturb(M)
      BY <3>1, <3>3, <3>5, <1>6 DEF CallbackFails
    <3>6. ASSUME NEW c \in DOMAIN calls, CallbackAnswered(c)
          PROVE  \E M \in SUBSET LoginIds : Disturb(M)
      BY <3>1, <3>2, <3>6 DEF CallbackAnswered
    <3>7. ASSUME NEW l \in LoginIds, CookiesExpire(l) \/ IdsExpire(l)
          PROVE  \E M \in SUBSET LoginIds : Disturb(M)
      BY <3>1, <3>3, <3>7 DEF CookiesExpire, IdsExpire
    <3>8. ASSUME NEW e \in Bootable, Restart(e) PROVE \E M \in SUBSET LoginIds : Disturb(M)
      BY <3>1, <3>8 DEF Restart
    <3>9. CASE LoginStep \/ UNCHANGED vars
      BY <3>9, <3>4 DEF LoginStep, StartLogin, Discovered, LoginFails, vars
    <3>10. CASE CallbackStep
      BY <3>10, <3>1, <3>3, <3>5, <3>6
      DEF CallbackStep, Callback, CallbackClient, Exchange, Validate, Consume, Resolve, Record
    <3>11. CASE LogoutStep
      BY <3>11, <3>1, <3>3
      DEF LogoutStep, Logout, PlainLogout, LogoutCallback, LogoutRevoked, LogoutClient,
          LogoutNoClient, LogoutAnswered
    <3>12. CASE Adversity
      BY <3>12, <3>7, <3>8 DEF Adversity, AnswerLost
    <3> QED
      BY <3>9, <3>10, <3>11, <3>12, SessionQuiet DEF Next
  <2> QED
    BY <1>0, <1>1, <2>1 DEF Disturb
<1>11. faults' \in 0..MaxFaults
  <2>1. faults' = faults \/ Fault
    BY SessionQuiet
       DEF Next, LoginStep, CallbackStep, LogoutStep, Adversity, vars, StartLogin, Discovered,
           LoginAnswered, LoginFails, Callback, CallbackClient, Exchange, Validate, Consume,
           Resolve, Record, CallbackFails, CallbackAnswered, Logout, PlainLogout, LogoutCallback,
           LogoutRevoked, LogoutClient, LogoutNoClient, LogoutAnswered, AnswerLost, CookiesExpire,
           IdsExpire, Restart
  <2> QED
    BY <1>0, <2>1 DEF Fault
<1> QED
  BY <1>1, <1>2, <1>3, <1>4, <1>7, <1>8, <1>9, <1>10, <1>11, RenewalsStep DEF TypeOK

LEMMA InitIInv == Init => IInv
<1> SUFFICES ASSUME Init PROVE IInv
  OBVIOUS
<1>1. TypeOK
  <2>1. EmptyJar \in Jar
    BY DEF EmptyJar, Jar
  <2>2. MaxLogins \in Nat /\ MaxFaults \in Nat /\ CacheMax \in Nat
    BY BoundsAssumption
  <2> QED
    BY <2>1, <2>2 DEF Init, TypeOK
<1>2. JarOK /\ RenewalsOK
  BY DEF Init, JarOK, JarFine, EmptyJar, Protocols, RenewalsOK
<1>3. CacheOK
  BY BoundsAssumption DEF Init, CacheOK, ToSet, IsInjective, LoginIds
<1>4. CallbackOK /\ LogoutOK
  BY DEF Init, CallbackOK, LogoutOK
<1> QED
  BY <1>1, <1>2, <1>3, <1>4 DEF IInv

\* The invariant holds in every reachable state, whatever the environments, the providers
\* and the bounds.
THEOREM Invariance == Spec => []IInv
<1>1. IInv /\ [Next]_vars => IInv'
  BY TypeStep, JarStep, RenewalsStep, CacheOKStep, CallbackOKStep, LogoutOKStep DEF IInv
<1> QED
  BY <1>1, InitIInv, PTL DEF Spec

\* Every variable keeps its type: in particular no cache of request ids outgrows its limit.
THEOREM TypeCorrect == Spec => []TypeOK
<1>1. IInv => TypeOK
  BY DEF IInv
<1> QED
  BY <1>1, Invariance, PTL

\* Whoever is signed in finished a login it began itself, with an answer of the issuer
\* that login was begun with.
THEOREM OwnLogin == Spec => []CompletesOwnLogin
<1>1. IInv => CompletesOwnLogin
  BY DEF IInv, JarOK, JarFine, CompletesOwnLogin
<1> QED
  BY <1>1, Invariance, PTL

\* An answer that is brought again after it led to a session never reaches the api again.
THEOREM NoReplay == Spec => []ReplayRefused
<1>1. IInv => ReplayRefused
  BY DEF IInv, CallbackOK, CallOK, LogoutOK, ReplayRefused
<1> QED
  BY <1>1, Invariance, PTL

\* A session has its own logout hint beside it, in every browser and whatever answers come
\* late, unless the hint of its login expired or a refresh answer that came after a logout
\* or another sign-in brought it back.
THEOREM HintIsTheSessions == Spec => []HintMatchesSession
<1>1. IInv => HintMatchesSession
  BY DEF IInv, JarOK, JarFine, HintMatchesSession
<1> QED
  BY <1>1, Invariance, PTL

==============================================================================
