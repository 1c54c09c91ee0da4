--------------------------- MODULE FrontAuthProofs ---------------------------
(***************************************************************************)
(* Proofs about FrontAuth, for every bound: types; that a page which saw      *)
(* neither a fault nor overlapping session changes is in step with the server *)
(* once nothing is in flight; that the interceptor ends a good session only   *)
(* after such a disturbance.                                                 *)
(*                                                                           *)
(* The invariant has two halves. Basis holds whatever happens: an initialized *)
(* service has a token, a page that loads has its guard's request. Quiet holds *)
(* while the page is undisturbed: every request left with the token and the   *)
(* cookie the page still has, and an answer that changes the cookie is alone. *)
(***************************************************************************)
EXTENDS FrontAuth, FiniteSetTheorems, TLAPS

--------------------------------------------------------------------------------
\* Sequences.

\* The sequence of a set of one element.
LEMMA SingletonSeq == ASSUME NEW x PROVE SetToSeq({x}) = <<x>>
<1> DEFINE F == {f \in [1..1 -> {x}] : IsInjective(f)}
<1>1. Cardinality({x}) = 1
  BY FS_Singleton
<1>2. <<x>> \in F
  BY DEF IsInjective
<1>3. \A f \in F : f = <<x>>
  OBVIOUS
<1>4. SetToSeq({x}) = CHOOSE f \in F : TRUE
  BY <1>1 DEF SetToSeq
<1> HIDE DEF F
<1> QED
  BY <1>2, <1>3, <1>4

\* The sequence of a set of two elements: in one order or the other.
LEMMA PairSeq ==
  ASSUME NEW x, NEW y, x # y
  PROVE  SetToSeq({x, y}) \in {<<x, y>>, <<y, x>>}
<1> DEFINE F == {f \in [1..2 -> {x, y}] : IsInjective(f)}
<1>1. Cardinality({x, y}) = 2
  <2>1. {x, y} = {x} \cup {y} /\ y \notin {x}
    OBVIOUS
  <2>2. IsFiniteSet({x}) /\ Cardinality({x}) = 1
    BY FS_Singleton
  <2>3. Cardinality({x} \cup {y}) = 1 + 1
    BY <2>1, <2>2, FS_AddElement
  <2> QED
    BY <2>1, <2>3
<1>2. <<x, y>> \in F
  <2>1. <<x, y>> \in [1..2 -> {x, y}]
    OBVIOUS
  <2> QED
    BY <2>1 DEF IsInjective
<1>3. ASSUME NEW f \in F PROVE f \in {<<x, y>>, <<y, x>>}
  <2>1. f \in [1..2 -> {x, y}] /\ f[1] # f[2]
    BY DEF IsInjective
  <2>2. f = <<f[1], f[2]>>
    BY <2>1
  <2> QED
    BY <2>1, <2>2
<1>4. SetToSeq({x, y}) = CHOOSE f \in F : TRUE
  BY <1>1 DEF SetToSeq
<1> HIDE DEF F
<1> QED
  BY <1>2, <1>3, <1>4

\* Two sequences, one after the other.
LEMMA ConcatProps ==
  ASSUME NEW S, NEW a \in Seq(S), NEW b \in Seq(S)
  PROVE  /\ a \o b \in Seq(S) /\ Len(a \o b) = Len(a) + Len(b)
         /\ DOMAIN (a \o b) = 1..(Len(a) + Len(b))
         /\ \A i \in 1..Len(a) : (a \o b)[i] = a[i]
         /\ \A i \in 1..Len(b) : (a \o b)[Len(a) + i] = b[i]
<1>1. a \o b \in Seq(S) /\ Len(a \o b) = Len(a) + Len(b)
  OBVIOUS
<1>2. DOMAIN (a \o b) = 1..(Len(a) + Len(b))
  BY <1>1
<1>3. \A i \in 1..Len(a) : (a \o b)[i] = a[i]
  OBVIOUS
<1>4. \A i \in 1..Len(b) : (a \o b)[Len(a) + i] = b[i]
  OBVIOUS
<1> QED
  BY <1>1, <1>2, <1>3, <1>4

\* What RemoveAt leaves: every other element, in its order.
LEMMA RemoveAtProps ==
  ASSUME NEW S, NEW q \in Seq(S), NEW k \in DOMAIN q
  PROVE  LET r == RemoveAt(q, k)
         IN  /\ r \in Seq(S) /\ Len(r) = Len(q) - 1
             /\ \A j \in DOMAIN r : \E i \in DOMAIN q : i # k /\ r[j] = q[i]
             /\ \A i \in DOMAIN q : i # k => \E j \in DOMAIN r : r[j] = q[i]
<1> DEFINE a == SubSeq(q, 1, k - 1)
           b == SubSeq(q, k + 1, Len(q))
           r == RemoveAt(q, k)
<1>0. DOMAIN q = 1..Len(q) /\ Len(q) \in Nat /\ k \in 1..Len(q)
  OBVIOUS
<1>1. /\ a \in Seq(S) /\ Len(a) = k - 1
      /\ \A i \in 1..(k - 1) : a[i] = q[i]
  BY <1>0
<1>2. /\ b \in Seq(S) /\ Len(b) = Len(q) - k
      /\ \A i \in 1..(Len(q) - k) : b[i] = q[k + i]
  BY <1>0
<1>3. r = a \o b
  BY DEF RemoveAt
<1> HIDE DEF a, b, r
<1>4. /\ r \in Seq(S) /\ Len(r) = Len(q) - 1 /\ DOMAIN r = 1..(Len(q) - 1)
      /\ \A i \in 1..(k - 1) : r[i] = a[i]
      /\ \A i \in k..(Len(q) - 1) : r[i] = b[i - (k - 1)]
  <2>1. Len(a) + Len(b) = Len(q) - 1
    BY <1>0, <1>1, <1>2
  <2>2. /\ a \o b \in Seq(S) /\ Len(a \o b) = Len(a) + Len(b)
        /\ DOMAIN (a \o b) = 1..(Len(a) + Len(b))
        /\ \A i \in 1..Len(a) : (a \o b)[i] = a[i]
        /\ \A i \in 1..Len(b) : (a \o b)[Len(a) + i] = b[i]
    <3>1. a \in Seq(S) /\ b \in Seq(S)
      BY <1>1, <1>2
    <3> QED
      BY <3>1, ConcatProps
  <2>3. \A i \in k..(Len(q) - 1) : r[i] = b[i - (k - 1)]
    <3> TAKE i \in k..(Len(q) - 1)
    <3>1. i - (k - 1) \in 1..Len(b) /\ Len(a) + (i - (k - 1)) = i
      BY <1>0, <1>1, <1>2
    <3> QED
      BY <1>3, <2>2, <3>1
  <2>4. r \in Seq(S) /\ Len(r) = Len(q) - 1 /\ DOMAIN r = 1..(Len(q) - 1)
    BY <1>3, <2>1, <2>2
  <2>5. \A i \in 1..(k - 1) : r[i] = a[i]
    BY <1>1, <1>3, <2>2
  <2> QED
    BY <2>3, <2>4, <2>5
<1>5. \A i \in 1..(k - 1) : r[i] = q[i]
  BY <1>1, <1>4
<1>6. \A i \in k..(Len(q) - 1) : r[i] = q[i + 1]
  <2> TAKE i \in k..(Len(q) - 1)
  <2>1. i - (k - 1) \in 1..(Len(q) - k) /\ k + (i - (k - 1)) = i + 1
    BY <1>0
  <2> QED
    BY <1>2, <1>4, <2>1
<1>7. ASSUME NEW j \in DOMAIN r PROVE \E i \in DOMAIN q : i # k /\ r[j] = q[i]
  <2>1. CASE j < k
    BY <1>0, <1>4, <1>5, <2>1
  <2>2. CASE j >= k
    <3>1. j + 1 \in DOMAIN q /\ j + 1 # k /\ j \in k..(Len(q) - 1)
      BY <1>0, <1>4, <2>2
    <3> QED
      BY <1>6, <3>1
  <2> QED
    BY <1>0, <1>4, <2>1, <2>2
<1>8. ASSUME NEW i \in DOMAIN q, i # k PROVE \E j \in DOMAIN r : r[j] = q[i]
  <2>1. CASE i < k
    BY <1>0, <1>4, <1>5, <2>1
  <2>2. CASE i > k
    <3>1. i - 1 \in DOMAIN r /\ i - 1 \in k..(Len(q) - 1) /\ (i - 1) + 1 = i
      BY <1>0, <1>4, <2>2
    <3> QED
      BY <1>6, <3>1
  <2> QED
    BY <1>0, <1>8, <2>1, <2>2
<1> QED
  BY <1>4, <1>7, <1>8 DEF r
--------------------------------------------------------------------------------
\* What the steps do to the requests in flight.

\* A request that is left alone, except that nobody may be listening any more.
Stays(q, r) ==
  /\ r \in [kind : {q.kind}, heard : BOOLEAN, token : {q.token}, cookie : {q.cookie},
            fresh : {q.fresh}, status : {q.status}, header : {q.header},
            setCookie : {q.setCookie}]
  /\ r.heard => q.heard

\* What a request is for.
Kinds == Initializing \cup LogoutKinds \cup {"call", "login"}

\* A new request is a request.
LEMMA NewTyped ==
  ASSUME NEW k \in Kinds, NEW t \in Cookies \cup {None}, NEW c \in Cookies \cup {None},
         NEW f \in BOOLEAN
  PROVE  New(k, t, c, f) \in Request
BY DEF New, Request, Kinds, CookieSent

\* Whether a cookie is good is a Boolean.
LEMMA LiveTyped == ASSUME NEW c PROVE Live(c) \in BOOLEAN
BY DEF Live

\* Whether or not it is heard, a request stays one.
LEMMA StaysTyped ==
  ASSUME NEW q \in Request, NEW r, Stays(q, r)
  PROVE  r \in Request
BY DEF Stays, Request

\* A request stays itself, heard or not.
LEMMA StaysItself ==
  ASSUME NEW q \in Request
  PROVE  Stays(q, q) /\ Stays(q, [q EXCEPT !.heard = FALSE])
BY DEF Stays, Request

\* What is in flight is a request.
LEMMA RequestAt ==
  ASSUME TypeOK, NEW i \in DOMAIN reqs
  PROVE  reqs[i] \in Request
BY DEF TypeOK

\* Cancelling leaves every request in its place, and those of the other kinds alone.
LEMMA CancelledShape ==
  ASSUME NEW rs \in Seq(Request), NEW kinds
  PROVE  /\ Cancelled(rs, kinds) \in Seq(Request)
         /\ Len(Cancelled(rs, kinds)) = Len(rs)
         /\ DOMAIN Cancelled(rs, kinds) = DOMAIN rs
         /\ \A j \in DOMAIN rs : /\ Stays(rs[j], Cancelled(rs, kinds)[j])
                                 /\ rs[j].kind \notin kinds => Cancelled(rs, kinds)[j] = rs[j]
<1> DEFINE c == Cancelled(rs, kinds)
<1>1. DOMAIN c = DOMAIN rs /\ DOMAIN rs = 1..Len(rs) /\ Len(rs) \in Nat
  BY DEF Cancelled
<1>2. ASSUME NEW j \in DOMAIN rs
      PROVE  Stays(rs[j], c[j]) /\ (rs[j].kind \notin kinds => c[j] = rs[j])
  <2>1. rs[j] \in Request
    OBVIOUS
  <2>2. c[j] = [rs[j] EXCEPT !.heard = rs[j].heard /\ rs[j].kind \notin kinds]
    BY DEF Cancelled
  <2>3. CASE rs[j].kind \in kinds
    <3>1. c[j] = [rs[j] EXCEPT !.heard = FALSE]
      BY <2>2, <2>3
    <3> QED
      BY <2>1, <2>3, <3>1, StaysItself
  <2>4. CASE rs[j].kind \notin kinds
    <3>1. c[j] = [rs[j] EXCEPT !.heard = rs[j].heard]
      BY <2>1, <2>2, <2>4 DEF Request
    <3>2. c[j] = rs[j]
      BY <2>1, <3>1 DEF Request
    <3> QED
      BY <2>1, <3>2, StaysItself
  <2> QED
    BY <2>3, <2>4
<1>3. \A j \in DOMAIN rs : c[j] \in Request
  BY <1>2, StaysTyped
<1>4. c = [j \in 1..Len(rs) |-> c[j]]
  BY <1>1 DEF Cancelled
<1> HIDE DEF c
<1>5. c \in Seq(Request)
  BY <1>1, <1>3, <1>4
<1>6. Len(c) = Len(rs)
  BY <1>1, <1>5
<1> QED
  BY <1>1, <1>2, <1>5, <1>6 DEF c

\* A request is appended to what is in flight.
LEMMA SendShape ==
  ASSUME NEW k \in Kinds, TypeOK, NEW rs \in Seq(Request), Send({k}, rs)
  PROVE  LET n == New(k, token, jar, Live(jar)) IN
         /\ n \in Request
         /\ reqs' \in Seq(Request) /\ Len(reqs') = Len(rs) + 1
         /\ \A j \in DOMAIN rs : j \in DOMAIN reqs' /\ reqs'[j] = rs[j]
         /\ Len(reqs') \in DOMAIN reqs' /\ reqs'[Len(reqs')] = n
         /\ \A j \in DOMAIN reqs' : j \in DOMAIN rs \/ j = Len(reqs')
<1> DEFINE n == New(k, token, jar, Live(jar))
<1>1. n \in Request
  BY NewTyped, LiveTyped DEF TypeOK
<1>2. {New(x, token, jar, Live(jar)) : x \in {k}} = {n}
  OBVIOUS
<1>3. reqs' = rs \o SetToSeq({n})
  BY <1>2 DEF Send
<1> HIDE DEF n
<1>4. reqs' = rs \o <<n>>
  BY <1>3, SingletonSeq
<1> QED
  BY <1>1, <1>4 DEF n

\* Loading a page: nobody listens to the old requests any more, the new page asks.
Loaded(path, c, f) ==
  /\ reqs' \in Seq(Request \cup {New("app", None, c, f), New("guard", None, c, f)})
  /\ Len(reqs') > Len(reqs)
  /\ \A j \in DOMAIN reqs : j \in DOMAIN reqs' /\ Stays(reqs[j], reqs'[j]) /\ ~reqs'[j].heard
  /\ \A j \in DOMAIN reqs' : \/ j \in DOMAIN reqs
                             \/ reqs'[j] \in {New("app", None, c, f), New("guard", None, c, f)}
  /\ \E j \in DOMAIN reqs' : reqs'[j] = New("app", None, c, f)
  /\ path = "profile" => \E j \in DOMAIN reqs' : reqs'[j] = New("guard", None, c, f)

\* It does exactly that.
LEMMA LoadShape ==
  ASSUME TypeOK, NEW path, NEW c, NEW f, Load(path, c, f)
  PROVE  Loaded(path, c, f)
<1> DEFINE old == [i \in DOMAIN reqs |-> [reqs[i] EXCEPT !.heard = FALSE]]
           a == New("app", None, c, f)
           g == New("guard", None, c, f)
           new == IF path = "profile" THEN SetToSeq({a, g}) ELSE SetToSeq({a})
           R == Request \cup {a, g}
<1>1. a \in R /\ g \in R /\ Request \subseteq R
  OBVIOUS
<1>2. a # g
  BY DEF New
<1>3. old \in Seq(Request) /\ Len(old) = Len(reqs) /\ DOMAIN old = DOMAIN reqs
      /\ \A j \in DOMAIN reqs : old[j] = [reqs[j] EXCEPT !.heard = FALSE]
  <2>1. reqs \in Seq(Request) /\ DOMAIN reqs = 1..Len(reqs) /\ Len(reqs) \in Nat
    BY DEF TypeOK
  <2>2. \A j \in DOMAIN reqs : [reqs[j] EXCEPT !.heard = FALSE] \in Request
    BY RequestAt, StaysItself, StaysTyped
  <2> QED
    BY <2>1, <2>2
<1>4. reqs' = old \o new
  <2>1. CASE path = "profile"
    <3>1. {New(k, None, c, f) : k \in {"app"} \cup {"guard"}} = {a, g}
      OBVIOUS
    <3> QED
      BY <2>1, <3>1 DEF Load
  <2>2. CASE path # "profile"
    <3>1. {New(k, None, c, f) : k \in {"app"} \cup {}} = {a}
      OBVIOUS
    <3> QED
      BY <2>2, <3>1 DEF Load
  <2> QED
    BY <2>1, <2>2
<1>5. /\ new = <<a>> \/ new = <<a, g>> \/ new = <<g, a>>
      /\ path = "profile" => new = <<a, g>> \/ new = <<g, a>>
  <2> HIDE DEF a, g
  <2> QED
    BY <1>2, SingletonSeq, PairSeq
<1>6. /\ new \in Seq(R) /\ Len(new) \in Nat \ {0} /\ DOMAIN new = 1..Len(new)
      /\ \A j \in DOMAIN new : new[j] = a \/ new[j] = g
      /\ \E j \in DOMAIN new : new[j] = a
      /\ path = "profile" => \E j \in DOMAIN new : new[j] = g
  <2> HIDE DEF a, g, new, R
  <2>1. CASE new = <<a>>
    BY <1>1, <1>5, <2>1
  <2>2. CASE new = <<a, g>>
    BY <1>1, <1>5, <2>2
  <2>3. CASE new = <<g, a>>
    BY <1>1, <1>5, <2>3
  <2> QED
    BY <1>5, <2>1, <2>2, <2>3
<1> HIDE DEF a, g, new, old, R
<1>7. old \in Seq(R) /\ DOMAIN old = 1..Len(old) /\ Len(old) \in Nat
  BY <1>1, <1>3
<1>8. /\ reqs' \in Seq(R) /\ Len(reqs') = Len(old) + Len(new)
      /\ DOMAIN reqs' = 1..(Len(old) + Len(new))
      /\ \A i \in 1..Len(old) : reqs'[i] = old[i]
      /\ \A i \in 1..Len(new) : reqs'[Len(old) + i] = new[i]
  <2>1. new \in Seq(R)
    BY <1>6
  <2>2. old \in Seq(R)
    BY <1>7
  <2> QED
    BY <1>4, <2>1, <2>2, ConcatProps
<1>9. \A j \in DOMAIN reqs : j \in DOMAIN reqs' /\ Stays(reqs[j], reqs'[j]) /\ ~reqs'[j].heard
  <2> TAKE j \in DOMAIN reqs
  <2>1. j \in 1..Len(old) /\ j \in DOMAIN reqs'
    BY <1>3, <1>6, <1>7, <1>8
  <2>2. reqs'[j] = old[j]
    BY <1>8, <2>1
  <2>3. Stays(reqs[j], old[j]) /\ ~old[j].heard
    <3>1. old[j] = [reqs[j] EXCEPT !.heard = FALSE] /\ reqs[j] \in Request
      BY <1>3, RequestAt
    <3> QED
      BY <3>1, StaysItself DEF Request
  <2> QED
    BY <2>1, <2>2, <2>3
<1>10. \A j \in DOMAIN reqs' : j \in DOMAIN reqs \/ reqs'[j] = a \/ reqs'[j] = g
  <2> TAKE j \in DOMAIN reqs'
  <2>1. CASE j \in 1..Len(old)
    BY <1>3, <1>7, <2>1
  <2>2. CASE j \notin 1..Len(old)
    <3>1. j - Len(old) \in 1..Len(new) /\ Len(old) + (j - Len(old)) = j
      BY <1>6, <1>7, <1>8, <2>2
    <3> QED
      BY <1>6, <1>8, <3>1
  <2> QED
    BY <2>1, <2>2
<1>11. \A x : (\E j \in DOMAIN new : new[j] = x) => \E j \in DOMAIN reqs' : reqs'[j] = x
  <2> SUFFICES ASSUME NEW j \in DOMAIN new PROVE Len(old) + j \in DOMAIN reqs'
                                               /\ reqs'[Len(old) + j] = new[j]
    OBVIOUS
  <2> QED
    BY <1>6, <1>7, <1>8
<1>12. \E j \in DOMAIN reqs' : reqs'[j] = a
  BY <1>6, <1>11
<1>13. path = "profile" => \E j \in DOMAIN reqs' : reqs'[j] = g
  BY <1>6, <1>11
<1>14. Len(reqs') > Len(reqs)
  BY <1>3, <1>6, <1>7, <1>8
<1>15. reqs' \in Seq(R)
  BY <1>8
<1> QED
  BY <1>9, <1>10, <1>12, <1>13, <1>14, <1>15 DEF a, g, R, Loaded

\* Request q once it is answered.
Answered(q, s, h, k) ==
  [kind : {q.kind}, heard : {q.heard}, token : {q.token}, cookie : {q.cookie},
   fresh : {q.fresh}, status : {s}, header : {h}, setCookie : {k}]

\* A request is answered: the others are left alone.
LEMMA AnswerShape ==
  ASSUME TypeOK, NEW i \in DOMAIN reqs, NEW s, NEW h, NEW k, NEW fault, Answer(i, s, h, k, fault)
  PROVE  LET r == reqs'[i] IN
         /\ r \in Answered(reqs[i], s, h, k)
         /\ r.kind = reqs[i].kind /\ r.heard = reqs[i].heard /\ r.token = reqs[i].token
         /\ r.cookie = reqs[i].cookie /\ r.fresh = reqs[i].fresh
         /\ r.status = s /\ r.header = h /\ r.setCookie = k
         /\ DOMAIN reqs' = DOMAIN reqs /\ DOMAIN reqs = 1..Len(reqs)
         /\ \A j \in DOMAIN reqs : j # i => reqs'[j] = reqs[j]
<1>1. reqs \in Seq(Request) /\ DOMAIN reqs = 1..Len(reqs) /\ reqs[i] \in Request
  BY DEF TypeOK
<1>2. reqs' = [reqs EXCEPT ![i] = [reqs[i] EXCEPT !.status = s, !.header = h, !.setCookie = k]]
  BY <1>1 DEF Answer, Request
<1>3. reqs'[i] = [reqs[i] EXCEPT !.status = s, !.header = h, !.setCookie = k]
  BY <1>1, <1>2
<1> QED
  BY <1>1, <1>2, <1>3 DEF Request, Answered

\* It is still a sequence of requests.
LEMMA AnswerTyped ==
  ASSUME TypeOK, NEW i \in DOMAIN reqs, NEW s, NEW h, NEW k, NEW fault, Answer(i, s, h, k, fault),
         NEW R, Request \subseteq R, reqs'[i] \in R
  PROVE  reqs' \in Seq(R) /\ Len(reqs') = Len(reqs)
<1>1. reqs \in Seq(Request) /\ DOMAIN reqs = 1..Len(reqs) /\ Len(reqs) \in Nat
  BY DEF TypeOK
<1>2. ASSUME NEW j \in DOMAIN reqs PROVE reqs'[j] \in R
  <2>1. CASE j = i
    BY <2>1
  <2>2. CASE j # i
    <3>1. reqs'[j] = reqs[j]
      BY <2>2, AnswerShape
    <3> QED
      BY <3>1, RequestAt
  <2> QED
    BY <2>1, <2>2
<1>3. DOMAIN reqs' = 1..Len(reqs) /\ reqs' = [j \in DOMAIN reqs' |-> reqs'[j]]
  BY <1>1 DEF Answer
<1> QED
  BY <1>1, <1>2, <1>3

\* The jar after an answer.
LEMMA JarTyped ==
  ASSUME TypeOK, NEW i \in DOMAIN reqs
  PROVE  JarAfter(reqs[i]) \in Cookies \cup {None}
<1>1. reqs[i].setCookie \in {"keep", "set", "clear"}
  BY RequestAt DEF Request
<1>2. CASE reqs[i].setCookie = "keep"
  BY <1>2 DEF JarAfter, TypeOK
<1>3. CASE reqs[i].setCookie = "set"
  BY <1>3 DEF JarAfter, TypeOK
<1>4. CASE reqs[i].setCookie = "clear"
  BY <1>4 DEF JarAfter, TypeOK
<1> QED
  BY <1>1, <1>2, <1>3, <1>4

\* An answer that reaches the interceptor leaves the others, and after a 401 a logout.
LEMMA RestShape ==
  ASSUME TypeOK, NEW i \in DOMAIN reqs, reqs' = Rest(i)
  PROVE  LET q == reqs[i]
             j == JarAfter(q)
             n == New(IF q.kind = "login" THEN "rejected" ELSE "expelled", token, j, Live(j))
         IN  /\ n \in Request
             /\ reqs' \in Seq(Request)
             /\ \A m \in DOMAIN reqs' :
                  \/ \E l \in DOMAIN reqs : l # i /\ reqs'[m] = reqs[l]
                  \/ q.status = "unauthorized" /\ reqs'[m] = n
             /\ \A l \in DOMAIN reqs : l # i => \E m \in DOMAIN reqs' : reqs'[m] = reqs[l]
             /\ q.status # "unauthorized" => Len(reqs') = Len(reqs) - 1
             /\ q.status = "unauthorized" => Len(reqs') = Len(reqs)
<1> DEFINE q == reqs[i]
           j == JarAfter(q)
           n == New(IF q.kind = "login" THEN "rejected" ELSE "expelled", token, j, Live(j))
           others == RemoveAt(reqs, i)
<1>0. reqs \in Seq(Request) /\ Len(reqs) \in Nat
  BY DEF TypeOK
<1>1. n \in Request
  <2>1. j \in Cookies \cup {None} /\ Live(j) \in BOOLEAN /\ token \in Cookies \cup {None}
    BY JarTyped, LiveTyped DEF TypeOK
  <2>2. "rejected" \in Kinds /\ "expelled" \in Kinds
    BY DEF Kinds, LogoutKinds, Redirected
  <2> HIDE DEF j
  <2> QED
    BY <2>1, <2>2, NewTyped
<1>2. /\ others \in Seq(Request) /\ Len(others) = Len(reqs) - 1
      /\ \A m \in DOMAIN others : \E l \in DOMAIN reqs : l # i /\ others[m] = reqs[l]
      /\ \A l \in DOMAIN reqs : l # i => \E m \in DOMAIN others : others[m] = reqs[l]
  BY <1>0, RemoveAtProps
<1>3. CASE q.status # "unauthorized"
  <2>1. reqs' = others
    BY <1>3 DEF Rest
  <2> HIDE DEF n, others
  <2> QED
    BY <1>1, <1>2, <1>3, <2>1 DEF n
<1>4. CASE q.status = "unauthorized"
  <2>1. reqs' = Append(others, n)
    BY <1>4 DEF Rest
  <2> HIDE DEF n, others
  <2>2. /\ reqs' \in Seq(Request) /\ Len(reqs') = Len(reqs)
        /\ DOMAIN others = 1..(Len(reqs) - 1) /\ DOMAIN reqs' = 1..Len(reqs)
        /\ \A m \in DOMAIN others : reqs'[m] = others[m]
        /\ reqs'[Len(reqs)] = n
    BY <1>0, <1>1, <1>2, <2>1
  <2>3. \A m \in DOMAIN reqs' : m \in DOMAIN others \/ m = Len(reqs)
    BY <1>0, <2>2
  <2>4. \A m \in DOMAIN others : m \in DOMAIN reqs'
    BY <1>0, <2>2
  <2>5. \A m \in DOMAIN reqs' : (\E l \in DOMAIN reqs : l # i /\ reqs'[m] = reqs[l])
                                \/ reqs'[m] = n
    BY <1>2, <2>2, <2>3
  <2>6. \A l \in DOMAIN reqs : l # i => \E m \in DOMAIN reqs' : reqs'[m] = reqs[l]
    BY <1>2, <2>2, <2>4
  <2> QED
    BY <1>1, <1>4, <2>2, <2>5, <2>6 DEF n
<1> QED
  BY <1>3, <1>4

\* Leaving the sequence, perhaps with the guards' requests cancelled.
LEMMA LeaveShape ==
  ASSUME TypeOK, NEW i \in DOMAIN reqs,
         reqs' = RemoveAt(reqs, i) \/ reqs' = Cancelled(RemoveAt(reqs, i), {"guard"})
  PROVE  /\ reqs' \in Seq(Request) /\ Len(reqs') = Len(reqs) - 1
         /\ \A m \in DOMAIN reqs' : \E l \in DOMAIN reqs : l # i /\ Stays(reqs[l], reqs'[m])
         /\ reqs' = RemoveAt(reqs, i) =>
              \A l \in DOMAIN reqs : l # i => \E m \in DOMAIN reqs' : reqs'[m] = reqs[l]
<1> DEFINE others == RemoveAt(reqs, i)
<1>1. /\ others \in Seq(Request) /\ Len(others) = Len(reqs) - 1
      /\ \A m \in DOMAIN others : \E l \in DOMAIN reqs : l # i /\ others[m] = reqs[l]
      /\ \A l \in DOMAIN reqs : l # i => \E m \in DOMAIN others : others[m] = reqs[l]
  BY RemoveAtProps DEF TypeOK
<1> HIDE DEF others
<1>2. CASE reqs' = others
  <2>1. \A m \in DOMAIN reqs' : \E l \in DOMAIN reqs : l # i /\ Stays(reqs[l], reqs'[m])
    BY <1>1, <1>2, RequestAt, StaysItself
  <2> QED
    BY <1>1, <1>2, <2>1 DEF others
<1>3. CASE reqs' = Cancelled(others, {"guard"}) /\ reqs' # others
  <2>1. /\ reqs' \in Seq(Request) /\ Len(reqs') = Len(others)
        /\ DOMAIN reqs' = DOMAIN others
        /\ \A m \in DOMAIN others : Stays(others[m], reqs'[m])
    BY <1>1, <1>3, CancelledShape
  <2>2. \A m \in DOMAIN reqs' : \E l \in DOMAIN reqs : l # i /\ Stays(reqs[l], reqs'[m])
    BY <1>1, <2>1
  <2> QED
    BY <1>1, <1>3, <2>1, <2>2 DEF others
<1> QED
  BY <1>2, <1>3 DEF others
--------------------------------------------------------------------------------
\* The invariant that holds whatever has happened to the page.

\* Nothing has answered a request that is only sent; the header that the interceptor
\* takes is a cookie's, a login that succeeds has one; the generation of a cookie is less
\* than the number of sends, those of its request included.
SoundReq(q, n, cookies) ==
  /\ q.status = "sent" => q.header = None /\ q.setCookie = "keep"
  /\ q.status = "ok" /\ q.header # None => q.header \in cookies
  /\ q.kind = "login" /\ q.status = "ok" => q.header # None
  /\ q.setCookie = "set" => q.header \in cookies
  /\ q.header # None => q.header[2] <= n
  /\ Guarded(q) /\ q.cookie # None => q.cookie[2] < n

AllSound == \A i \in DOMAIN reqs : SoundReq(reqs[i], sends, Cookies)

\* An initialized service has a token, and a page that loads has its guard's request.
Sound ==
  /\ AllSound
  /\ \A f \in Families : gen[f] <= sends
  /\ jar # None => jar[2] <= sends
  /\ initialized => token # None
  /\ page = "loading" => \E i \in DOMAIN reqs : reqs[i].heard /\ reqs[i].kind = "guard"

\* A cookie is a pair.
LEMMA CookieIs ==
  ASSUME TypeOK, NEW c \in Cookies
  PROVE  c[1] \in Families /\ c[2] \in 0..MaxSends /\ c = <<c[1], c[2]>> /\ c # None
BY DEF Cookies, None, Families, TypeOK

\* Families are only added.
LEMMA CookiesGrow ==
  ASSUME TypeOK, Len(gen') \in Nat, Len(gen') >= Len(gen)
  PROVE  Families \subseteq Families' /\ Cookies \subseteq Cookies' /\ Request \subseteq Request'
<1>1. Len(gen) \in Nat
  BY DEF TypeOK
<1>2. Families \subseteq Families'
  BY <1>1 DEF Families
<1>3. Cookies \subseteq Cookies'
  BY <1>2 DEF Cookies
<1> QED
  BY <1>2, <1>3 DEF Request

\* A sound request stays sound.
LEMMA SoundGrows ==
  ASSUME NEW q, NEW r, Stays(q, r), NEW m \in Nat, NEW n \in Nat, m <= n, NEW C, NEW D,
         C \subseteq D, SoundReq(q, m, C),
         q.header = None \/ q.header[2] \in Nat, q.cookie = None \/ q.cookie[2] \in Nat
  PROVE  SoundReq(r, n, D)
<1>1. /\ r.kind = q.kind /\ r.status = q.status /\ r.header = q.header
      /\ r.setCookie = q.setCookie /\ r.cookie = q.cookie
  BY DEF Stays
<1> QED
  BY <1>1 DEF SoundReq, Guarded

\* The generations a request carries are numbers.
LEMMA GenerationsTyped ==
  ASSUME TypeOK, NEW i \in DOMAIN reqs
  PROVE  /\ reqs[i].header = None \/ reqs[i].header[2] \in Nat
         /\ reqs[i].cookie = None \/ reqs[i].cookie[2] \in Nat
<1>1. reqs[i].header \in Cookies \cup {None, Orphan} /\ reqs[i].cookie \in Cookies \cup {None}
  BY RequestAt DEF Request
<1>2. \A c \in Cookies : c[2] \in Nat
  BY CookieIs
<1>3. Orphan[2] \in Nat
  BY DEF Orphan
<1> QED
  BY <1>1, <1>2, <1>3

\* So does the part of the type invariant that is about the history.
LEMMA NoteTyped ==
  ASSUME TypeOK, NEW fault \in BOOLEAN, Note(fault)
  PROVE  faults' \in 0..MaxFaults /\ disturbed' \in BOOLEAN
<1>1. disturbed' \in BOOLEAN
  BY DEF Note
<1>2. faults' \in 0..MaxFaults
  BY BoundsAssumption DEF Note, TypeOK
<1> QED
  BY <1>1, <1>2

\* Half of the invariant: types, and what is sound.
Basis == TypeOK /\ Sound

\* The steps that send one request.
LEMMA SendBasis ==
  ASSUME Basis, NEW k \in Kinds,
         Send({k}, reqs) \/ (Send({k}, Cancelled(reqs, {"guard"})) /\ page' # "loading"),
         UNCHANGED <<token, initialized, jar, gen, revoked, expired>>,
         page' \in {"loading", "landing", "callback", "home", "login", "profile"},
         page' = "loading" => page = "loading"
  PROVE  Basis'
<1> USE DEF Basis
<1>0. TypeOK /\ reqs \in Seq(Request) /\ sends \in Nat /\ DOMAIN reqs = 1..Len(reqs)
  BY BoundsAssumption DEF TypeOK
<1> DEFINE n == New(k, token, jar, Live(jar))
<1>1. /\ n \in Request /\ reqs' \in Seq(Request)
      /\ \A j \in DOMAIN reqs' :
           (\E i \in DOMAIN reqs : Stays(reqs[i], reqs'[j])) \/ reqs'[j] = n
      /\ page' = "loading" => \A i \in DOMAIN reqs : i \in DOMAIN reqs' /\ reqs'[i] = reqs[i]
  <2>1. CASE Send({k}, reqs)
    <3>1. /\ n \in Request /\ reqs' \in Seq(Request)
          /\ \A j \in DOMAIN reqs : j \in DOMAIN reqs' /\ reqs'[j] = reqs[j]
          /\ reqs'[Len(reqs')] = n
          /\ \A j \in DOMAIN reqs' : j \in DOMAIN reqs \/ j = Len(reqs')
      BY <1>0, <2>1, SendShape
    <3> HIDE DEF n
    <3> QED
      BY <1>0, <3>1, RequestAt, StaysItself
  <2>2. CASE Send({k}, Cancelled(reqs, {"guard"})) /\ page' # "loading"
    <3> DEFINE rs == Cancelled(reqs, {"guard"})
    <3>1. /\ rs \in Seq(Request) /\ DOMAIN rs = DOMAIN reqs
          /\ \A j \in DOMAIN reqs : Stays(reqs[j], rs[j])
      BY <1>0, CancelledShape
    <3> HIDE DEF rs
    <3>2. /\ n \in Request /\ reqs' \in Seq(Request)
          /\ \A j \in DOMAIN rs : j \in DOMAIN reqs' /\ reqs'[j] = rs[j]
          /\ reqs'[Len(reqs')] = n
          /\ \A j \in DOMAIN reqs' : j \in DOMAIN rs \/ j = Len(reqs')
      BY <1>0, <2>2, <3>1, SendShape DEF rs
    <3> HIDE DEF n
    <3> QED
      BY <2>2, <3>1, <3>2
  <2> QED
    BY <2>1, <2>2
<1>2. sends' = sends + 1 /\ sends < MaxSends /\ Note(FALSE)
  BY DEF Send, CanSend
<1>3. Cookies' = Cookies /\ Families' = Families /\ Request' = Request
  BY DEF Cookies, Families, Request
<1>4. SoundReq(n, sends', Cookies)
  <2>1. n.status = "sent" /\ n.header = None /\ n.setCookie = "keep" /\ n.cookie = jar
    BY DEF New, CookieSent
  <2>2. jar # None => jar[2] <= sends /\ jar[2] \in Nat
    BY CookieIs DEF Sound, TypeOK
  <2> HIDE DEF n
  <2> QED
    BY <1>0, <1>2, <2>1, <2>2 DEF SoundReq
<1> HIDE DEF n
<1>5. AllSound'
  <2> SUFFICES ASSUME NEW j \in DOMAIN reqs' PROVE SoundReq(reqs'[j], sends', Cookies')
    BY DEF AllSound
  <2>1. CASE reqs'[j] = n
    BY <1>3, <1>4, <2>1
  <2>2. ASSUME NEW i \in DOMAIN reqs, Stays(reqs[i], reqs'[j])
        PROVE  SoundReq(reqs'[j], sends', Cookies')
    <3>1. SoundReq(reqs[i], sends, Cookies)
      BY DEF Sound, AllSound
    <3> QED
      BY <1>0, <1>2, <1>3, <2>2, <3>1, GenerationsTyped, SoundGrows
  <2> QED
    BY <1>1, <2>1, <2>2
<1>6. Sound'
  <2>1. \A f \in Families' : gen'[f] <= sends'
    BY <1>0, <1>2, <1>3, BoundsAssumption DEF Sound, TypeOK, Families
  <2>2. jar' # None => jar'[2] <= sends'
    BY <1>0, <1>2, CookieIs DEF Sound, TypeOK
  <2>3. initialized' => token' # None
    BY DEF Sound
  <2>4. page' = "loading" => \E i \in DOMAIN reqs' : reqs'[i].heard /\ reqs'[i].kind = "guard"
    BY <1>1 DEF Sound
  <2> QED
    BY <1>5, <2>1, <2>2, <2>3, <2>4 DEF Sound
<1>7. TypeOK'
  <2>1. \A j \in DOMAIN reqs' : reqs'[j].setCookie = "set" => reqs'[j].header \in Cookies'
    BY <1>5 DEF AllSound, SoundReq
  <2>2. sends' \in 0..MaxSends
    BY <1>0, <1>2, BoundsAssumption
  <2>3. faults' \in 0..MaxFaults /\ disturbed' \in BOOLEAN
    BY <1>0, <1>2, NoteTyped
  <2> QED
    BY <1>0, <1>1, <1>3, <2>1, <2>2, <2>3 DEF TypeOK
<1> QED
  BY <1>6, <1>7

\* The steps that load a page.
LEMMA LoadBasis ==
  ASSUME Basis, NEW path \in {"home", "login", "profile", "landing"}, NEW c, NEW f \in BOOLEAN,
         Load(path, c, f), CanSend, sends' = sends + 1, UNCHANGED <<revoked, expired, faults>>,
         jar' = c, c \in Cookies' \cup {None}, c # None => c[2] \in Nat /\ c[2] <= sends,
         gen' \in Seq(0..MaxSends), Len(gen') >= Len(gen), \A x \in Families' : gen'[x] <= sends
  PROVE  Basis'
<1> USE DEF Basis
<1>0. TypeOK /\ reqs \in Seq(Request) /\ sends \in Nat /\ DOMAIN reqs = 1..Len(reqs)
      /\ Len(gen) \in Nat /\ Len(gen') \in Nat
  BY BoundsAssumption DEF TypeOK
<1>1. Families \subseteq Families' /\ Cookies \subseteq Cookies' /\ Request \subseteq Request'
  BY <1>0, CookiesGrow
<1>2. ASSUME NEW k \in Initializing
      PROVE  New(k, None, c, f) \in Request' /\ SoundReq(New(k, None, c, f), sends', Cookies')
  <2> DEFINE n == New(k, None, c, f)
  <2>1. n = [kind |-> k, heard |-> TRUE, token |-> None, cookie |-> c, fresh |-> f,
             status |-> "sent", header |-> None, setCookie |-> "keep"]
    BY DEF New, CookieSent
  <2>2. n \in Request'
    BY <2>1 DEF Request
  <2> HIDE DEF n
  <2>3. n.status = "sent" /\ n.header = None /\ n.setCookie = "keep" /\ n.cookie = c
    BY <2>1
  <2>4. SoundReq(n, sends', Cookies')
    BY <1>0, <2>3 DEF SoundReq
  <2> QED
    BY <2>2, <2>4 DEF n
<1>3. /\ reqs' \in Seq(Request')
      /\ \A j \in DOMAIN reqs : j \in DOMAIN reqs' /\ Stays(reqs[j], reqs'[j])
      /\ \A j \in DOMAIN reqs' : \/ j \in DOMAIN reqs
                                 \/ \E k \in {"app", "guard"} : reqs'[j] = New(k, None, c, f)
      /\ path = "profile" => \E j \in DOMAIN reqs' : reqs'[j] = New("guard", None, c, f)
  <2>1. New("app", None, c, f) \in Request' /\ New("guard", None, c, f) \in Request'
    BY <1>2 DEF Initializing
  <2>2. Loaded(path, c, f)
    BY <1>0, LoadShape
  <2> QED
    BY <1>1, <2>1, <2>2 DEF Loaded
<1>4. AllSound'
  <2> SUFFICES ASSUME NEW j \in DOMAIN reqs' PROVE SoundReq(reqs'[j], sends', Cookies')
    BY DEF AllSound
  <2>1. CASE j \in DOMAIN reqs
    <3>1. SoundReq(reqs[j], sends, Cookies)
      BY <2>1 DEF Sound, AllSound
    <3>2. Stays(reqs[j], reqs'[j])
      BY <1>3, <2>1
    <3> QED
      BY <1>0, <1>1, <2>1, <3>1, <3>2, GenerationsTyped, SoundGrows
  <2>2. CASE \E k \in {"app", "guard"} : reqs'[j] = New(k, None, c, f)
    BY <1>2, <2>2 DEF Initializing
  <2> QED
    BY <1>3, <2>1, <2>2
<1>5. token' = None /\ initialized' = FALSE
      /\ page' = IF path = "profile" THEN "loading" ELSE path
  BY DEF Load
<1>6. page' = "loading" => \E i \in DOMAIN reqs' : reqs'[i].heard /\ reqs'[i].kind = "guard"
  <2>1. New("guard", None, c, f).heard /\ New("guard", None, c, f).kind = "guard"
    BY DEF New
  <2> QED
    BY <1>3, <1>5, <2>1
<1>7. Sound'
  <2>1. \A x \in Families' : gen'[x] <= sends'
    BY <1>0, BoundsAssumption DEF Families
  <2>2. jar' # None => jar'[2] <= sends'
    BY <1>0
  <2> QED
    BY <1>4, <1>5, <1>6, <2>1, <2>2 DEF Sound
<1>8. TypeOK'
  <2>1. \A j \in DOMAIN reqs' : reqs'[j].setCookie = "set" => reqs'[j].header \in Cookies'
    BY <1>4 DEF AllSound, SoundReq
  <2>2. sends' \in 0..MaxSends
    BY <1>0, BoundsAssumption DEF CanSend
  <2>3. disturbed' \in BOOLEAN
    BY DEF Load
  <2>4. page' \in {"loading", "landing", "callback", "home", "login", "profile"}
    BY <1>5
  <2>5. revoked' \subseteq Families' /\ expired' \subseteq Cookies'
    BY <1>0, <1>1 DEF TypeOK
  <2> QED
    BY <1>0, <1>3, <1>5, <2>1, <2>2, <2>3, <2>4, <2>5 DEF TypeOK
<1> QED
  BY <1>7, <1>8

\* What the server may make of its families, and an answer of a request's header.
ServerFits ==
  /\ gen' \in Seq(0..MaxSends) /\ Len(gen') >= Len(gen)
  /\ \A x \in Families' : gen'[x] <= sends
  /\ revoked' \subseteq Families'
AnswerFits(i, s, h, k) ==
  /\ h \in Cookies' \cup {None, Orphan}
  /\ k = "set" => h \in Cookies'
  /\ s = "ok" /\ h # None => h \in Cookies'
  /\ reqs[i].kind = "login" /\ s = "ok" => h # None
  /\ h # None => h[2] <= sends

\* The steps that answer a request.
LEMMA AnswerBasis ==
  ASSUME Basis, NEW i \in DOMAIN reqs, NEW s \in {"ok", "unauthorized", "failed"}, NEW h,
         NEW k \in {"keep", "set", "clear"}, NEW fault \in BOOLEAN, Answer(i, s, h, k, fault),
         AnswerFits(i, s, h, k), ServerFits
  PROVE  Basis'
<1> USE DEF Basis, AnswerFits, ServerFits
<1>0. TypeOK /\ reqs \in Seq(Request) /\ sends \in Nat /\ DOMAIN reqs = 1..Len(reqs)
      /\ Len(gen) \in Nat /\ Len(gen') \in Nat
  BY BoundsAssumption DEF TypeOK
<1>1. Families \subseteq Families' /\ Cookies \subseteq Cookies' /\ Request \subseteq Request'
  BY <1>0, CookiesGrow
<1> DEFINE r == reqs'[i]
<1>2. /\ r \in Answered(reqs[i], s, h, k)
      /\ r.kind = reqs[i].kind /\ r.heard = reqs[i].heard /\ r.cookie = reqs[i].cookie
      /\ r.status = s /\ r.header = h /\ r.setCookie = k
      /\ DOMAIN reqs' = DOMAIN reqs
      /\ \A j \in DOMAIN reqs : j # i => reqs'[j] = reqs[j]
  <2>1. TypeOK /\ Answer(i, s, h, k, fault)
    BY <1>0
  <2>2. r \in Answered(reqs[i], s, h, k)
    BY <2>1, AnswerShape
  <2>3. r.kind = reqs[i].kind /\ r.heard = reqs[i].heard /\ r.cookie = reqs[i].cookie
    BY <2>1, AnswerShape
  <2>4. r.status = s /\ r.header = h /\ r.setCookie = k
    BY <2>1, AnswerShape
  <2>5. DOMAIN reqs' = DOMAIN reqs /\ \A j \in DOMAIN reqs : j # i => reqs'[j] = reqs[j]
    BY <2>1, AnswerShape
  <2> QED
    BY <2>2, <2>3, <2>4, <2>5
<1>3. UNCHANGED <<token, initialized, page, jar, expired, sends>> /\ Note(fault)
  BY DEF Answer
<1>4. reqs[i] \in Request'
  BY <1>0, <1>1, RequestAt
<1>5. r \in Request'
  BY <1>2, <1>4 DEF Request, Answered
<1> HIDE DEF r
<1>6. reqs' \in Seq(Request')
  BY <1>0, <1>1, <1>5, AnswerTyped DEF r
<1>7. AllSound'
  <2> SUFFICES ASSUME NEW j \in DOMAIN reqs' PROVE SoundReq(reqs'[j], sends', Cookies')
    BY DEF AllSound
  <2>1. SoundReq(reqs[j], sends, Cookies)
    BY <1>2 DEF Sound, AllSound
  <2>2. CASE j # i
    <3>1. Stays(reqs[j], reqs'[j])
      BY <1>0, <1>2, <2>2, RequestAt, StaysItself
    <3>2. /\ reqs[j].header = None \/ reqs[j].header[2] \in Nat
          /\ reqs[j].cookie = None \/ reqs[j].cookie[2] \in Nat
      BY <1>0, <1>2, GenerationsTyped
    <3> QED
      BY <1>0, <1>1, <1>3, <2>1, <3>1, <3>2, SoundGrows
  <2>3. CASE j = i
    <3>1. SoundReq(r, sends', Cookies')
      BY <1>0, <1>2, <1>3, <2>1, <2>3 DEF SoundReq, Guarded
    <3> QED
      BY <2>3, <3>1 DEF r
  <2> QED
    BY <2>2, <2>3
<1>8. Sound'
  <2>1. \A x \in Families' : gen'[x] <= sends'
    BY <1>3
  <2>2. jar' # None => jar'[2] <= sends'
    BY <1>3 DEF Sound
  <2>3. page' = "loading" => \E j \in DOMAIN reqs' : reqs'[j].heard /\ reqs'[j].kind = "guard"
    <3> SUFFICES ASSUME page = "loading"
                 PROVE  \E j \in DOMAIN reqs' : reqs'[j].heard /\ reqs'[j].kind = "guard"
      BY <1>3
    <3>1. PICK j \in DOMAIN reqs : reqs[j].heard /\ reqs[j].kind = "guard"
      BY DEF Sound
    <3>2. CASE j = i
      <4>1. r.heard /\ r.kind = "guard" /\ j \in DOMAIN reqs'
        BY <1>2, <3>1, <3>2
      <4> QED
        BY <3>2, <4>1 DEF r
    <3>3. CASE j # i
      BY <1>2, <3>1, <3>3
    <3> QED
      BY <3>2, <3>3
  <2> QED
    BY <1>3, <1>7, <2>1, <2>2, <2>3 DEF Sound
<1>9. TypeOK'
  <2>1. \A j \in DOMAIN reqs' : reqs'[j].setCookie = "set" => reqs'[j].header \in Cookies'
    BY <1>7 DEF AllSound, SoundReq
  <2>2. faults' \in 0..MaxFaults /\ disturbed' \in BOOLEAN
    BY <1>0, <1>3, NoteTyped
  <2>3. token' \in Cookies' \cup {None} /\ jar' \in Cookies' \cup {None} /\ expired' \subseteq Cookies'
    BY <1>0, <1>1, <1>3 DEF TypeOK
  <2> QED
    BY <1>0, <1>3, <1>6, <2>1, <2>2, <2>3 DEF TypeOK
<1> QED
  BY <1>8, <1>9

\* The steps at which an answer arrives.
LEMMA ArriveBasis ==
  ASSUME Basis, NEW i \in DOMAIN reqs, NEW n, n \in Request, n.kind \in LogoutKinds,
         n.status = "sent", n.header = None, n.setCookie = "keep",
         reqs' \in Seq(Request),
         \A m \in DOMAIN reqs' : \/ \E l \in DOMAIN reqs : Stays(reqs[l], reqs'[m])
                                 \/ reqs'[m] = n,
         jar' = jar \/ jar' = JarAfter(reqs[i]), UNCHANGED <<gen, revoked, expired, sends>>,
         Note(FALSE), token' \in Cookies \cup {None}, initialized' \in BOOLEAN,
         initialized' => token' # None,
         page' \in {"loading", "landing", "callback", "home", "login", "profile"},
         page' = "loading" => \E m \in DOMAIN reqs' : reqs'[m].heard /\ reqs'[m].kind = "guard"
  PROVE  Basis'
<1> USE DEF Basis
<1>0. TypeOK /\ reqs \in Seq(Request) /\ sends \in Nat
  BY BoundsAssumption DEF TypeOK
<1>1. Cookies' = Cookies /\ Families' = Families /\ Request' = Request
  BY DEF Cookies, Families, Request
<1>2. SoundReq(n, sends, Cookies)
  BY <1>0 DEF SoundReq, Guarded, LogoutKinds, Initializing, Redirected
<1>3. AllSound'
  <2> SUFFICES ASSUME NEW j \in DOMAIN reqs' PROVE SoundReq(reqs'[j], sends', Cookies')
    BY DEF AllSound
  <2>1. CASE reqs'[j] = n
    BY <1>1, <1>2, <2>1
  <2>2. ASSUME NEW l \in DOMAIN reqs, Stays(reqs[l], reqs'[j])
        PROVE  SoundReq(reqs'[j], sends', Cookies')
    <3>1. SoundReq(reqs[l], sends, Cookies)
      BY DEF Sound, AllSound
    <3> QED
      BY <1>0, <1>1, <2>2, <3>1, GenerationsTyped, SoundGrows
  <2> QED
    BY <2>1, <2>2
<1>4. jar' \in Cookies \cup {None} /\ (jar' # None => jar'[2] <= sends)
  <2>1. CASE jar' = jar
    BY <1>0, <2>1 DEF TypeOK, Sound
  <2>2. CASE jar' = JarAfter(reqs[i])
    <3>1. jar' \in Cookies \cup {None}
      BY <1>0, <2>2, JarTyped
    <3>2. reqs[i].setCookie \in {"keep", "set", "clear"}
      BY <1>0, RequestAt DEF Request
    <3>3. SoundReq(reqs[i], sends, Cookies)
      BY DEF Sound, AllSound
    <3>4. CASE reqs[i].setCookie = "keep"
      BY <2>2, <3>1, <3>4 DEF JarAfter, Sound
    <3>5. CASE reqs[i].setCookie = "set"
      <4>1. jar' = reqs[i].header /\ reqs[i].header # None
        BY <1>0, <2>2, <3>3, <3>5, CookieIs DEF JarAfter, SoundReq
      <4> QED
        BY <3>1, <3>3, <4>1 DEF SoundReq
    <3>6. CASE reqs[i].setCookie = "clear"
      BY <2>2, <3>6 DEF JarAfter
    <3> QED
      BY <3>2, <3>4, <3>5, <3>6
  <2> QED
    BY <2>1, <2>2
<1>5. Sound'
  <2>1. \A x \in Families' : gen'[x] <= sends'
    BY <1>1 DEF Sound
  <2> QED
    BY <1>3, <1>4, <2>1 DEF Sound
<1>6. TypeOK'
  <2>1. \A j \in DOMAIN reqs' : reqs'[j].setCookie = "set" => reqs'[j].header \in Cookies'
    BY <1>3 DEF AllSound, SoundReq
  <2>2. faults' \in 0..MaxFaults /\ disturbed' \in BOOLEAN
    BY <1>0, NoteTyped
  <2> QED
    BY <1>0, <1>1, <1>4, <2>1, <2>2 DEF TypeOK
<1> QED
  BY <1>5, <1>6

\* The steps that neither send nor answer.
LEMMA SilentBasis ==
  ASSUME Basis, UNCHANGED <<token, initialized, jar, reqs, gen, revoked, sends, faults, disturbed>>,
         expired' \subseteq Cookies,
         page' \in {"landing", "callback", "home", "login", "profile"} \/ page' = page
  PROVE  Basis'
<1>0. TypeOK /\ Sound
  BY DEF Basis
<1>1. Cookies' = Cookies /\ Families' = Families /\ Request' = Request
  BY DEF Cookies, Families, Request
<1>2. TypeOK'
  BY <1>0, <1>1 DEF TypeOK
<1>3. AllSound'
  BY <1>0, <1>1 DEF Sound, AllSound
<1>4. Sound'
  BY <1>0, <1>1, <1>3 DEF Sound
<1> QED
  BY <1>2, <1>4 DEF Basis

\* The step that only cancels what the guard asked.
LEMMA LeaveHomeBasis ==
  ASSUME Basis, GoToLogin
  PROVE  Basis'
<1>0. /\ TypeOK /\ Sound /\ reqs \in Seq(Request) /\ sends \in Nat
      /\ reqs' = Cancelled(reqs, {"guard"}) /\ page' = "login" /\ Note(FALSE)
      /\ UNCHANGED <<token, initialized, jar, gen, revoked, expired, sends>>
  <2>1. TypeOK /\ Sound
    BY DEF Basis
  <2>2. reqs \in Seq(Request) /\ sends \in Nat
    BY <2>1, BoundsAssumption DEF TypeOK
  <2>3. reqs' = Cancelled(reqs, {"guard"}) /\ page' = "login" /\ Note(FALSE)
    BY DEF GoToLogin
  <2>4. UNCHANGED <<token, initialized, jar, gen, revoked, expired, sends>>
    BY DEF GoToLogin
  <2> QED
    BY <2>1, <2>2, <2>3, <2>4
<1>1. Cookies' = Cookies /\ Families' = Families /\ Request' = Request
  BY <1>0 DEF Cookies, Families, Request
<1>2. /\ reqs' \in Seq(Request) /\ DOMAIN reqs' = DOMAIN reqs
      /\ \A j \in DOMAIN reqs : Stays(reqs[j], reqs'[j])
  BY <1>0, CancelledShape
<1>3. AllSound'
  <2> SUFFICES ASSUME NEW j \in DOMAIN reqs PROVE SoundReq(reqs'[j], sends', Cookies')
    BY <1>2 DEF AllSound
  <2>1. SoundReq(reqs[j], sends, Cookies)
    BY <1>0 DEF Sound, AllSound
  <2> QED
    BY <1>0, <1>1, <1>2, <2>1, GenerationsTyped, SoundGrows
<1>4. Sound'
  BY <1>0, <1>1, <1>3 DEF Sound
<1>5. TypeOK'
  <2>1. \A j \in DOMAIN reqs' : reqs'[j].setCookie = "set" => reqs'[j].header \in Cookies'
    BY <1>3 DEF AllSound, SoundReq
  <2>2. faults' \in 0..MaxFaults /\ disturbed' \in BOOLEAN
    BY <1>0, NoteTyped
  <2> QED
    BY <1>0, <1>1, <1>2, <2>1, <2>2 DEF TypeOK
<1> QED
  BY <1>4, <1>5 DEF Basis

\* What the user does.
LEMMA UserBasis ==
  ASSUME Basis, User
  PROVE  Basis'
<1> USE DEF Basis
<1>0. TypeOK /\ sends \in Nat /\ gen \in Seq(0..MaxSends) /\ Len(gen) \in Nat
      /\ \A x \in Families : gen[x] <= sends
  BY BoundsAssumption DEF TypeOK, Sound
<1>1. CASE Reload
  <2>1. PICK path \in {"home", "login", "profile"} : Load(path, jar, Live(jar))
    BY <1>1 DEF Reload
  <2>2. CanSend /\ sends' = sends + 1 /\ UNCHANGED <<jar, gen, revoked, expired, faults>>
    BY <1>1 DEF Reload
  <2>3. Cookies' = Cookies /\ Families' = Families
    BY <2>2 DEF Cookies, Families
  <2>4. jar \in Cookies' \cup {None} /\ (jar # None => jar[2] \in Nat /\ jar[2] <= sends)
    BY <1>0, <2>3, CookieIs DEF TypeOK, Sound
  <2>5. Live(jar) \in BOOLEAN
    BY LiveTyped
  <2> QED
    BY <1>0, <2>1, <2>2, <2>3, <2>4, <2>5, LoadBasis
<1>2. CASE SsoReturn
  <2>1. /\ CanSend /\ sends' = sends + 1 /\ gen' = Append(gen, 0)
        /\ jar' = <<Len(gen'), 0>> /\ Load("landing", jar', TRUE)
        /\ UNCHANGED <<revoked, expired, faults>>
    BY <1>2 DEF SsoReturn
  <2>2. /\ gen' \in Seq(0..MaxSends) /\ Len(gen') = Len(gen) + 1
        /\ \A x \in Families' : gen'[x] <= sends
    BY <1>0, <2>1, BoundsAssumption DEF Families
  <2>3. jar' \in Cookies'
    BY <1>0, <2>1, <2>2, BoundsAssumption DEF Cookies, Families
  <2>4. PICK c : c = jar'
    OBVIOUS
  <2>5. Load("landing", c, TRUE)
    BY <2>1, <2>4 DEF Load, New
  <2>6. c \in Cookies' \cup {None} /\ c[2] = 0 /\ jar' = c /\ Len(gen') >= Len(gen)
    BY <1>0, <2>1, <2>2, <2>3, <2>4
  <2>7. c # None => c[2] \in Nat /\ c[2] <= sends
    BY <1>0, <2>6
  <2>8. "landing" \in {"home", "login", "profile", "landing"} /\ TRUE \in BOOLEAN
    OBVIOUS
  <2> QED
    BY <2>1, <2>2, <2>5, <2>6, <2>7, <2>8, LoadBasis
<1>3. CASE OpenCallback
  <2>1. CASE initialized
    <3>1. UNCHANGED <<token, initialized, jar, reqs, gen, revoked, sends, faults, disturbed>>
      BY <1>3, <2>1 DEF OpenCallback
    <3>2. expired' = expired /\ page' = "home"
      BY <1>3, <2>1 DEF OpenCallback
    <3>3. expired' \subseteq Cookies
      BY <1>0, <3>2 DEF TypeOK
    <3> QED
      BY <3>1, <3>2, <3>3, SilentBasis
  <2>2. CASE ~initialized
    <3>1. /\ page' = "callback" /\ Send({"callback"}, reqs)
          /\ UNCHANGED <<token, initialized, jar, gen, revoked, expired>>
      BY <1>3, <2>2 DEF OpenCallback
    <3>2. "callback" \in Kinds
      BY DEF Kinds, Initializing
    <3> QED
      BY <3>1, <3>2, SendBasis
  <2> QED
    BY <2>1, <2>2
<1>4. CASE OpenProfile
  <2>1. CASE initialized
    <3>1. UNCHANGED <<token, initialized, jar, reqs, gen, revoked, sends, faults, disturbed>>
      BY <1>4, <2>1 DEF OpenProfile
    <3>2. expired' = expired /\ page' \in {"profile", "login"}
      BY <1>4, <2>1 DEF OpenProfile
    <3>3. expired' \subseteq Cookies
      BY <1>0, <3>2 DEF TypeOK
    <3> QED
      BY <3>1, <3>2, <3>3, SilentBasis
  <2>2. CASE ~initialized
    <3>1. /\ page' = "home" /\ Send({"guard"}, Cancelled(reqs, {"guard"}))
          /\ UNCHANGED <<token, initialized, jar, gen, revoked, expired>>
      BY <1>4, <2>2 DEF OpenProfile
    <3>2. "guard" \in Kinds
      BY DEF Kinds, Initializing
    <3> QED
      BY <3>1, <3>2, SendBasis
  <2> QED
    BY <2>1, <2>2
<1>5. CASE GoHome
  <2>1. UNCHANGED <<token, initialized, jar, reqs, gen, revoked, sends, faults, disturbed>>
    BY <1>5 DEF GoHome
  <2>2. expired' \subseteq Cookies /\ page' = "home"
    BY <1>0, <1>5 DEF GoHome, TypeOK
  <2> QED
    BY <2>1, <2>2, SilentBasis
<1>6. CASE CallApi
  BY <1>0, <1>6, SendBasis DEF CallApi, Kinds, TypeOK
<1>7. CASE SubmitLogin
  BY <1>0, <1>7, SendBasis DEF SubmitLogin, Kinds, TypeOK
<1>8. CASE SignOut
  <2>1. /\ page' = "home" /\ Send({"signout"}, Cancelled(reqs, {"guard"}))
        /\ UNCHANGED <<token, initialized, jar, gen, revoked, expired>>
    BY <1>8 DEF SignOut
  <2>2. "signout" \in Kinds
    BY DEF Kinds, LogoutKinds
  <2> QED
    BY <2>1, <2>2, SendBasis
<1>9. CASE GoToLogin
  BY <1>9, LeaveHomeBasis
<1> QED
  BY <1>1, <1>2, <1>3, <1>4, <1>5, <1>6, <1>7, <1>8, <1>9 DEF User

\* What the server does.
LEMMA ServerBasis ==
  ASSUME Basis, NEW i \in DOMAIN reqs, Serve(i) \/ Lost(i)
  PROVE  Basis'
<1> USE DEF Basis
<1>0. /\ TypeOK /\ sends \in 0..MaxSends /\ gen \in Seq(0..MaxSends) /\ Len(gen) \in Nat
      /\ MaxSends \in Nat /\ revoked \subseteq Families
      /\ \A x \in Families : gen[x] <= sends
  BY BoundsAssumption DEF TypeOK, Sound
<1> DEFINE c == reqs[i].cookie
<1>1. /\ c \in Cookies \cup {None}
      /\ c # None => /\ c[1] \in Families /\ c[2] \in Nat
                     /\ Guarded(reqs[i]) => c[2] < sends
  <2>1. c \in Cookies \cup {None}
    BY <1>0, RequestAt DEF Request
  <2>2. c # None => c[1] \in Families /\ c[2] \in Nat
    BY <1>0, <2>1, CookieIs
  <2>3. SoundReq(reqs[i], sends, Cookies)
    BY DEF Sound, AllSound
  <2> QED
    BY <2>1, <2>2, <2>3 DEF SoundReq
<1>2. ASSUME gen' = [gen EXCEPT ![c[1]] = @ + 1], Guarded(reqs[i]), Live(c)
      PROVE  /\ gen' \in Seq(0..MaxSends) /\ Len(gen') = Len(gen)
             /\ Families' = Families /\ \A x \in Families' : gen'[x] <= sends
             /\ <<c[1], c[2] + 1>> \in Cookies' /\ c[2] + 1 <= sends
  <2>1. c # None /\ gen[c[1]] = c[2] /\ c[1] \in 1..Len(gen) /\ c[2] \in Nat /\ c[2] < sends
    BY <1>1, <1>2 DEF Live, Families
  <2>2. \A x \in 1..Len(gen) : gen'[x] = IF x = c[1] THEN c[2] + 1 ELSE gen[x]
    BY <1>0, <1>2, <2>1
  <2>3. /\ gen' \in Seq(0..MaxSends) /\ Len(gen') = Len(gen)
    BY <1>0, <1>2, <2>1
  <2>4. Families' = Families
    BY <2>3 DEF Families
  <2>5. \A x \in Families' : gen'[x] <= sends
    BY SMTT(30), <1>0, <2>1, <2>2, <2>4 DEF Families
  <2>6. <<c[1], c[2] + 1>> \in Cookies' /\ c[2] + 1 <= sends
    BY <1>0, <2>1, <2>4 DEF Cookies, Families
  <2> QED
    BY <2>3, <2>4, <2>5, <2>6
<1>3. ASSUME gen' = gen
      PROVE  /\ gen' \in Seq(0..MaxSends) /\ Len(gen') = Len(gen)
             /\ Families' = Families /\ \A x \in Families' : gen'[x] <= sends
  BY <1>0, <1>3 DEF Families
<1>4. ASSUME gen' = Append(gen, 0)
      PROVE  /\ gen' \in Seq(0..MaxSends) /\ Len(gen') = Len(gen) + 1
             /\ Families \subseteq Families' /\ \A x \in Families' : gen'[x] <= sends
             /\ <<Len(gen'), 0>> \in Cookies'
  <2>1. gen' \in Seq(0..MaxSends) /\ Len(gen') = Len(gen) + 1
    BY <1>0, <1>4
  <2>2. \A x \in Families' : gen'[x] <= sends
    BY <1>0, <1>4, <2>1 DEF Families
  <2>3. <<Len(gen'), 0>> \in Cookies'
    BY <1>0, <2>1 DEF Cookies, Families
  <2>4. Families \subseteq Families'
    BY <1>0, <2>1 DEF Families
  <2> QED
    BY <2>1, <2>2, <2>3, <2>4
<1> HIDE DEF c
<1>5. gen' = gen /\ revoked' \subseteq Families => ServerFits
  BY <1>0, <1>3 DEF ServerFits
<1>6. ASSUME NEW s, NEW k, s # "ok", k # "set"
      PROVE  AnswerFits(i, s, None, k)
  BY <1>6 DEF AnswerFits
<1>10. CASE ServeWithoutCookie(i)
  <2>1. Answer(i, "unauthorized", None, "keep", FALSE) /\ ServerFits
    BY <1>0, <1>5, <1>10 DEF ServeWithoutCookie
  <2>2. AnswerFits(i, "unauthorized", None, "keep")
    BY <1>6
  <2> QED
    BY <2>1, <2>2, AnswerBasis
<1>11. CASE ServeWithToken(i)
  <2>1. Answer(i, "ok", None, "keep", FALSE) /\ ServerFits
    BY <1>0, <1>5, <1>11 DEF ServeWithToken
  <2>2. AnswerFits(i, "ok", None, "keep")
    BY <1>11 DEF ServeWithToken, Guarded, Initializing, AnswerFits
  <2> QED
    BY <2>1, <2>2, AnswerBasis
<1>12. CASE ServeRotated(i)
  <2>1. /\ Guarded(reqs[i]) /\ Live(c) /\ gen' = [gen EXCEPT ![c[1]] = @ + 1]
        /\ UNCHANGED revoked
    BY <1>12 DEF ServeRotated, c
  <2>2. PICK s \in {"ok", "failed"} : Answer(i, s, <<c[1], c[2] + 1>>, "set", FALSE)
    BY <1>12 DEF ServeRotated, c
  <2>3. <<c[1], c[2] + 1>> # None /\ <<c[1], c[2] + 1>>[2] = c[2] + 1
    BY DEF None
  <2>4. PICK h : h = <<c[1], c[2] + 1>>
    OBVIOUS
  <2>5. AnswerFits(i, s, h, "set") /\ Answer(i, s, h, "set", FALSE)
    BY <1>2, <2>1, <2>2, <2>3, <2>4 DEF AnswerFits
  <2>6. ServerFits
    BY <1>0, <1>2, <2>1 DEF ServerFits
  <2> QED
    BY <2>5, <2>6, AnswerBasis
<1>13. CASE ServeReused(i)
  <2>1. Answer(i, "unauthorized", None, "clear", FALSE)
    BY <1>13 DEF ServeReused
  <2>2. ServerFits
    BY <1>0, <1>1, <1>5, <1>13 DEF ServeReused, c
  <2>3. AnswerFits(i, "unauthorized", None, "clear")
    BY <1>6
  <2> QED
    BY <2>1, <2>2, <2>3, AnswerBasis
<1>14. CASE ServeBroken(i)
  <2>1. PICK rotated \in IF Live(c) THEN BOOLEAN ELSE {FALSE}, s \in {"unauthorized", "failed"} :
           /\ Answer(i, s, IF rotated THEN Orphan ELSE None, "clear", TRUE)
           /\ gen' = IF rotated THEN [gen EXCEPT ![c[1]] = @ + 1] ELSE gen
    BY <1>14 DEF ServeBroken, c
  <2>2. revoked' = revoked /\ Guarded(reqs[i])
    BY <1>14 DEF ServeBroken
  <2>3. CASE rotated
    <3>1. Live(c)
      BY <2>1, <2>3
    <3>2. Answer(i, s, Orphan, "clear", TRUE) /\ gen' = [gen EXCEPT ![c[1]] = @ + 1]
      BY <2>1, <2>3
    <3>3. AnswerFits(i, s, Orphan, "clear")
      BY <1>0 DEF Orphan, AnswerFits
    <3>4. ServerFits
      BY <1>0, <1>2, <2>2, <3>1, <3>2 DEF ServerFits
    <3> QED
      BY <3>2, <3>3, <3>4, AnswerBasis
  <2>4. CASE ~rotated
    <3>1. Answer(i, s, None, "clear", TRUE) /\ gen' = gen
      BY <2>1, <2>4
    <3>2. ServerFits
      BY <1>0, <1>5, <2>2, <3>1
    <3>3. AnswerFits(i, s, None, "clear")
      BY <1>6
    <3> QED
      BY <3>1, <3>2, <3>3, AnswerBasis
  <2> QED
    BY <2>1, <2>3, <2>4
<1>15. CASE ServeLogin(i)
  <2>1. gen' = Append(gen, 0) /\ Answer(i, "ok", <<Len(gen'), 0>>, "set", FALSE) /\ UNCHANGED revoked
    BY <1>15 DEF ServeLogin
  <2>2. PICK h : h = <<Len(gen'), 0>>
    OBVIOUS
  <2>3. h # None /\ h[2] = 0 /\ h \in Cookies'
    BY <1>0, <1>4, <2>1, <2>2 DEF None
  <2>4. Answer(i, "ok", h, "set", FALSE)
    BY <2>1, <2>2
  <2>5. AnswerFits(i, "ok", h, "set")
    BY <1>0, <2>3 DEF AnswerFits
  <2>6. /\ gen' \in Seq(0..MaxSends) /\ Len(gen') = Len(gen) + 1
        /\ Families \subseteq Families' /\ \A x \in Families' : gen'[x] <= sends
    BY <1>4, <2>1
  <2>7. ServerFits
    <3>1. revoked' = revoked
      BY <2>1
    <3>2. revoked' \subseteq Families' /\ Len(gen') >= Len(gen)
      BY <1>0, <2>6, <3>1
    <3> QED
      BY <2>6, <3>2 DEF ServerFits
  <2> QED
    BY <2>4, <2>5, <2>7, AnswerBasis
<1>16. CASE RefuseLogin(i)
  <2>1. PICK h \in {None, Orphan} : Answer(i, "unauthorized", h, "keep", FALSE)
    BY <1>16 DEF RefuseLogin
  <2>2. ServerFits
    BY <1>0, <1>5, <1>16 DEF RefuseLogin
  <2>3. AnswerFits(i, "unauthorized", h, "keep")
    BY <1>0 DEF Orphan, AnswerFits
  <2> QED
    BY <2>1, <2>2, <2>3, AnswerBasis
<1>17. CASE ServeLogout(i)
  <2>1. PICK fault \in BOOLEAN :
           /\ revoked' = IF c = None \/ fault THEN revoked ELSE revoked \cup {c[1]}
           /\ Answer(i, "ok", None, "clear", fault)
    BY <1>17 DEF ServeLogout, c
  <2>2. gen' = gen /\ reqs[i].kind # "login"
    BY <1>17 DEF ServeLogout, LogoutKinds, Redirected
  <2>3. ServerFits
    BY <1>0, <1>1, <1>5, <2>1, <2>2
  <2>4. AnswerFits(i, "ok", None, "clear")
    BY <2>2 DEF AnswerFits
  <2> QED
    BY <2>1, <2>3, <2>4, AnswerBasis
<1>18. CASE Lost(i)
  <2>1. Answer(i, "failed", None, "keep", TRUE) /\ ServerFits
    BY <1>0, <1>5, <1>18 DEF Lost
  <2>2. AnswerFits(i, "failed", None, "keep")
    BY <1>6
  <2> QED
    BY <2>1, <2>2, AnswerBasis
<1> QED
  BY <1>10, <1>11, <1>12, <1>13, <1>14, <1>15, <1>16, <1>17, <1>18 DEF Serve

\* The header the interceptor takes is a cookie's.
LEMMA TokenTyped ==
  ASSUME Basis, NEW i \in DOMAIN reqs
  PROVE  TokenOf(reqs[i]) \in Cookies \cup {None}
<1>1. SoundReq(reqs[i], sends, Cookies)
  BY DEF Basis, Sound, AllSound
<1>2. token \in Cookies \cup {None}
  BY DEF Basis, TypeOK
<1> QED
  BY <1>1, <1>2 DEF TokenOf, SoundReq

\* The answers that reach the interceptor.
LEMMA RestBasis ==
  ASSUME Basis, NEW i \in DOMAIN reqs, Received(i), reqs' = Rest(i), Note(FALSE),
         token' = TokenOf(reqs[i]), initialized' \in BOOLEAN, initialized' => token' # None,
         \/ page' = page /\ reqs[i].kind # "guard"
         \/ page' \in {"landing", "callback", "home", "login", "profile"}
  PROVE  Basis'
<1>0. TypeOK /\ Sound
  BY DEF Basis
<1>1. PICK n : n = New(IF reqs[i].kind = "login" THEN "rejected" ELSE "expelled",
                       token, JarAfter(reqs[i]), Live(JarAfter(reqs[i])))
  OBVIOUS
<1>2. /\ n \in Request
      /\ reqs' \in Seq(Request)
      /\ \A m \in DOMAIN reqs' :
           \/ \E l \in DOMAIN reqs : l # i /\ reqs'[m] = reqs[l]
           \/ reqs[i].status = "unauthorized" /\ reqs'[m] = n
      /\ \A l \in DOMAIN reqs : l # i => \E m \in DOMAIN reqs' : reqs'[m] = reqs[l]
  BY <1>0, <1>1, RestShape
<1>3. n.kind \in LogoutKinds /\ n.status = "sent" /\ n.header = None /\ n.setCookie = "keep"
  BY <1>1 DEF New, LogoutKinds, Redirected
<1>4. \A m \in DOMAIN reqs' : (\E l \in DOMAIN reqs : Stays(reqs[l], reqs'[m])) \/ reqs'[m] = n
  BY <1>0, <1>2, RequestAt, StaysItself
<1>5. page' \in {"loading", "landing", "callback", "home", "login", "profile"}
  BY <1>0 DEF TypeOK
<1>6. page' = "loading" => \E m \in DOMAIN reqs' : reqs'[m].heard /\ reqs'[m].kind = "guard"
  BY <1>0, <1>2 DEF Sound
<1>7. jar' = JarAfter(reqs[i]) /\ UNCHANGED <<gen, revoked, expired, sends>>
  BY DEF Received
<1>8. token' \in Cookies \cup {None}
  BY TokenTyped
<1> QED
  BY <1>2, <1>3, <1>4, <1>5, <1>6, <1>7, <1>8, ArriveBasis

\* The answers that arrive.
LEMMA BrowserBasis ==
  ASSUME Basis, NEW i \in DOMAIN reqs, Arrive(i)
  PROVE  Basis'
<1>0. /\ TypeOK /\ Sound /\ reqs[i] \in Request
      /\ page \in {"loading", "landing", "callback", "home", "login", "profile"}
      /\ initialized \in BOOLEAN
  BY RequestAt DEF Basis, TypeOK
<1> DEFINE q == reqs[i]
<1>1. SoundReq(q, sends, Cookies)
  BY <1>0 DEF Sound, AllSound
<1>2. initialized => token # None
  BY <1>0 DEF Sound
<1>3. CASE PingAnswered(i)
  <2>1. /\ Received(i) /\ reqs' = Rest(i) /\ Note(FALSE) /\ token' = TokenOf(q)
        /\ initialized' = (Refreshed(q) \/ (q.status = "ok" /\ initialized))
        /\ q.kind \in Initializing
    BY <1>3 DEF PingAnswered
  <2>2. initialized' => token' # None
    BY <1>2, <2>1 DEF TokenOf, Refreshed
  <2>3. \/ page' = page /\ q.kind # "guard"
        \/ page' \in {"landing", "callback", "home", "login", "profile"}
    <3>1. CASE q.kind = "app"
      BY <1>3, <3>1 DEF PingAnswered
    <3>2. CASE q.kind = "guard"
      BY <1>3, <3>2 DEF PingAnswered, GuardDecides
    <3>3. CASE q.kind = "callback"
      BY <1>3, <3>3 DEF PingAnswered
    <3> QED
      BY <2>1, <3>1, <3>2, <3>3 DEF Initializing
  <2>4. initialized' \in BOOLEAN
    BY <2>1
  <2> QED
    BY <2>1, <2>2, <2>3, <2>4, RestBasis
<1>4. CASE CallAnswered(i)
  <2>1. /\ Received(i) /\ reqs' = Rest(i) /\ Note(FALSE) /\ token' = TokenOf(q)
        /\ initialized' = initialized /\ page' = page /\ q.kind # "guard"
    BY <1>4 DEF CallAnswered
  <2>2. initialized' => token' # None
    BY <1>2, <2>1 DEF TokenOf
  <2> QED
    BY <1>0, <2>1, <2>2, RestBasis
<1>5. CASE LoginAnswered(i)
  <2>1. /\ Received(i) /\ reqs' = Rest(i) /\ Note(FALSE) /\ token' = TokenOf(q)
        /\ initialized' = (initialized \/ q.status = "ok") /\ q.kind = "login"
        /\ page' = IF q.status = "ok" THEN "home" ELSE page
    BY <1>5 DEF LoginAnswered
  <2>2. initialized' => token' # None
    BY <1>1, <1>2, <2>1 DEF TokenOf, SoundReq
  <2>3. \/ page' = page /\ q.kind # "guard"
        \/ page' \in {"landing", "callback", "home", "login", "profile"}
    BY <2>1
  <2>4. initialized' \in BOOLEAN
    BY <2>1
  <2> QED
    BY <2>1, <2>2, <2>3, <2>4, RestBasis
<1>6. PICK n : n = New("signout", None, None, FALSE)
  OBVIOUS
<1>7. n.kind \in LogoutKinds /\ n.status = "sent" /\ n.header = None /\ n.setCookie = "keep"
      /\ n \in Request
  BY <1>6 DEF New, LogoutKinds, Request, CookieSent
<1>8. CASE LogoutAnswered(i)
  <2>1. /\ Received(i) /\ Note(FALSE) /\ token' = None /\ initialized' = FALSE
        /\ q.kind \in LogoutKinds
        /\ \/ page' = "login" /\ reqs' = Cancelled(RemoveAt(reqs, i), {"guard"})
           \/ page' = page /\ reqs' = RemoveAt(reqs, i)
    BY <1>8 DEF LogoutAnswered, CleanTokens
  <2>2. /\ reqs' \in Seq(Request)
        /\ \A m \in DOMAIN reqs' : \E l \in DOMAIN reqs : l # i /\ Stays(reqs[l], reqs'[m])
        /\ reqs' = RemoveAt(reqs, i) =>
              \A l \in DOMAIN reqs : l # i => \E m \in DOMAIN reqs' : reqs'[m] = reqs[l]
    BY <1>0, <2>1, LeaveShape
  <2>3. page' = "loading" => \E m \in DOMAIN reqs' : reqs'[m].heard /\ reqs'[m].kind = "guard"
    BY <1>0, <2>1, <2>2 DEF Sound, LogoutKinds, Redirected
  <2>4. jar' = JarAfter(reqs[i]) /\ UNCHANGED <<gen, revoked, expired, sends>>
    BY <2>1 DEF Received
  <2>5. page' \in {"loading", "landing", "callback", "home", "login", "profile"}
    BY <1>0, <2>1
  <2> QED
    BY <1>7, <2>1, <2>2, <2>3, <2>4, <2>5, ArriveBasis
<1>9. CASE Unheard(i)
  <2>1. /\ ~reqs[i].heard /\ Note(FALSE) /\ jar' \in {jar, JarAfter(reqs[i])}
        /\ reqs' = RemoveAt(reqs, i)
        /\ UNCHANGED <<token, initialized, page, gen, revoked, expired, sends>>
    BY <1>9 DEF Unheard
  <2>2. /\ reqs' \in Seq(Request)
        /\ \A m \in DOMAIN reqs' : \E l \in DOMAIN reqs : l # i /\ Stays(reqs[l], reqs'[m])
        /\ \A l \in DOMAIN reqs : l # i => \E m \in DOMAIN reqs' : reqs'[m] = reqs[l]
    BY <1>0, <2>1, LeaveShape
  <2>3. page' = "loading" => \E m \in DOMAIN reqs' : reqs'[m].heard /\ reqs'[m].kind = "guard"
    BY <1>0, <2>1, <2>2 DEF Sound
  <2>4. token' \in Cookies \cup {None} /\ (initialized' => token' # None)
    BY <1>0, <1>2, <2>1 DEF TypeOK
  <2> QED
    BY <1>0, <1>7, <2>1, <2>2, <2>3, <2>4, ArriveBasis
<1> QED
  BY <1>3, <1>4, <1>5, <1>8, <1>9 DEF Arrive

\* Whatever happens.
LEMMA BasisStep ==
  ASSUME Basis, [Next]_vars
  PROVE  Basis'
<1>1. CASE User
  BY <1>1, UserBasis
<1>2. CASE \E i \in DOMAIN reqs : Serve(i) \/ Lost(i) \/ Arrive(i)
  BY <1>2, ServerBasis, BrowserBasis
<1>3. CASE ExpireToken
  <2>1. /\ UNCHANGED <<token, initialized, jar, reqs, gen, revoked, sends, faults, disturbed>>
        /\ page' = page /\ expired' = expired \cup {token} /\ token # None
    BY <1>3 DEF ExpireToken
  <2>2. expired' \subseteq Cookies
    BY <2>1 DEF Basis, TypeOK
  <2> QED
    BY <2>1, <2>2, SilentBasis
<1>4. CASE UNCHANGED vars
  <2>1. UNCHANGED <<token, initialized, page, jar, reqs, gen, revoked, expired, sends, faults,
                    disturbed>>
    BY <1>4 DEF vars
  <2>2. expired' \subseteq Cookies
    BY <2>1 DEF Basis, TypeOK
  <2> QED
    BY <2>1, <2>2, SilentBasis
<1> QED
  BY <1>1, <1>2, <1>3, <1>4 DEF Next

\* It holds at first.
LEMMA BasisInit == Init => Basis
<1> SUFFICES ASSUME Init PROVE Basis
  OBVIOUS
<1>1. gen = <<0>> /\ Len(gen) = 1 /\ Families = {1} /\ sends = 1 /\ 1 \in 0..MaxSends
  BY BoundsAssumption DEF Init, Families
<1>2. gen \in Seq(0..MaxSends) /\ \A x \in Families : gen[x] <= sends
  BY <1>1, BoundsAssumption
<1>3. jar \in Cookies \cup {None} /\ (jar # None => jar[2] = 0)
  BY <1>1, BoundsAssumption DEF Init, Cookies
<1> DEFINE n == New("app", None, jar, jar # None)
<1>4. /\ n.status = "sent" /\ n.header = None /\ n.setCookie = "keep" /\ n.cookie = jar
      /\ n \in Request
  BY <1>3 DEF New, CookieSent, Request, Initializing
<1> HIDE DEF n
<1>5. SoundReq(n, sends, Cookies)
  BY <1>1, <1>3, <1>4 DEF SoundReq
<1>6. reqs = <<n>> /\ DOMAIN reqs = {1} /\ reqs[1] = n /\ reqs \in Seq(Request)
  BY <1>4 DEF Init, n
<1>7. Sound
  BY <1>1, <1>2, <1>3, <1>5, <1>6 DEF Sound, AllSound, Init
<1>8. TypeOK
  <2>1. \A j \in DOMAIN reqs : reqs[j].setCookie = "set" => reqs[j].header \in Cookies
    BY <1>4, <1>6
  <2>2. faults \in 0..MaxFaults
    BY BoundsAssumption DEF Init
  <2>3. disturbed \in BOOLEAN /\ initialized \in BOOLEAN
    BY DEF Init
  <2> QED
    BY <1>1, <1>2, <1>3, <1>6, <2>1, <2>2, <2>3 DEF TypeOK, Init
<1> QED
  BY <1>7, <1>8 DEF Basis

\* Every reachable state is well typed and sound, disturbed or not.
THEOREM BasisInvariant == Spec => []Basis
<1> QED
  BY BasisInit, BasisStep, PTL DEF Spec

\* TypeOK: every reachable state is well typed; a token is never one of a login that
\* failed, and the jar is only ever set to the cookie its header goes with.
THEOREM TypeCorrect == Spec => []TypeOK
<1>1. Basis => TypeOK
  BY DEF Basis
<1> QED
  BY <1>1, BasisInvariant, PTL

--------------------------------------------------------------------------------
\* The invariant of a page that nothing has disturbed.

\* The answer to a heard request, by what it does to the cookie.
Kept(q) ==
  /\ q.setCookie = "keep"
  /\ \/ q.kind = "login" /\ q.status = "unauthorized"
     \/ Guarded(q) /\ q.status = "unauthorized" /\ jar = None
     \/ Guarded(q) /\ q.status = "ok" /\ q.header = None /\ token # None
Cleared(q) ==
  /\ q.setCookie = "clear" /\ q.header = None
  /\ \/ q.kind \in LogoutKinds /\ q.status = "ok"
     \/ Guarded(q) /\ q.status = "unauthorized" /\ token = None
Renewed(q) ==
  /\ q.setCookie = "set" /\ q.header # None /\ Live(q.header)
  /\ q.kind \notin LogoutKinds
  /\ q.status = "ok" \/ (q.kind = "call" /\ q.status = "failed" /\ token # None)

\* A heard request left with the token and the cookie the page still has.
Fits(q) ==
  /\ q.cookie = jar /\ q.token = token
  /\ \/ q.status = "sent" /\ q.setCookie = "keep"
     \/ Kept(q) \/ Cleared(q) \/ Renewed(q)

AllFit == \A i \in DOMAIN reqs : reqs[i].heard => Fits(reqs[i])
NoneFresh == \A i \in DOMAIN reqs : reqs[i].kind = "expelled" => ~reqs[i].fresh

\* The app has asked for an access token and has not been answered. (The guard may have
\* asked as well, but a navigation cancels it.)
Asking ==
  \E i \in DOMAIN reqs : reqs[i].heard /\ reqs[i].kind = "app" /\ reqs[i].status = "sent"
AllKeep == \A i \in DOMAIN reqs : reqs[i].setCookie = "keep"

\* While no answer changes the cookie, a token goes with a good cookie, and a page with a
\* good cookie and no token is asking for one.
Settled ==
  AllKeep => /\ token # None => Live(jar)
             /\ Live(jar) /\ token = None => Asking

Quiet == ~Overlap(reqs) /\ AllFit /\ NoneFresh /\ Settled

\* The page is quiet until something disturbs it.
QuietOK == ~disturbed => Quiet

\* An undisturbed answer that changes the cookie is the only request.
LEMMA OnlyOne ==
  ASSUME NEW rs \in Seq(Request), ~Overlap(rs), NEW i \in DOMAIN rs, rs[i].setCookie # "keep"
  PROVE  Len(rs) = 1 /\ DOMAIN rs = {i} /\ rs[i].heard
<1>1. Len(rs) <= 1 /\ rs[i].heard
  BY DEF Overlap, Request
<1>2. Len(rs) \in Nat /\ DOMAIN rs = 1..Len(rs) /\ i \in 1..Len(rs)
  OBVIOUS
<1> QED
  BY <1>1, <1>2

\* Sending a request.
LEMMA SendQuiet ==
  ASSUME Basis, Quiet, NEW k \in Kinds, k # "expelled", ~disturbed',
         Send({k}, reqs) \/ Send({k}, Cancelled(reqs, {"guard"})),
         UNCHANGED <<token, jar, gen, revoked>>
  PROVE  Quiet'
<1>0. TypeOK /\ reqs \in Seq(Request) /\ DOMAIN reqs = 1..Len(reqs)
  BY DEF Basis, TypeOK
<1>1. ~Overlap(reqs')
  BY DEF Send, Note
<1> DEFINE n == New(k, token, jar, Live(jar))
<1>2. /\ \A j \in DOMAIN reqs : j \in DOMAIN reqs' /\ Stays(reqs[j], reqs'[j])
      /\ \E j \in DOMAIN reqs' : reqs'[j] = n
      /\ \A j \in DOMAIN reqs' : j \in DOMAIN reqs \/ reqs'[j] = n
      /\ \A j \in DOMAIN reqs : reqs[j].kind = "app" => reqs'[j] = reqs[j]
  <2>1. CASE Send({k}, reqs)
    <3>1. /\ \A j \in DOMAIN reqs : j \in DOMAIN reqs' /\ reqs'[j] = reqs[j]
          /\ Len(reqs') \in DOMAIN reqs' /\ reqs'[Len(reqs')] = n
          /\ \A j \in DOMAIN reqs' : j \in DOMAIN reqs \/ j = Len(reqs')
      BY <1>0, <2>1, SendShape
    <3> HIDE DEF n
    <3> QED
      BY <1>0, <3>1, RequestAt, StaysItself
  <2>2. CASE Send({k}, Cancelled(reqs, {"guard"}))
    <3> DEFINE rs == Cancelled(reqs, {"guard"})
    <3>1. /\ rs \in Seq(Request) /\ DOMAIN rs = DOMAIN reqs
          /\ \A j \in DOMAIN reqs : Stays(reqs[j], rs[j])
          /\ \A j \in DOMAIN reqs : reqs[j].kind = "app" => rs[j] = reqs[j]
      BY <1>0, CancelledShape
    <3> HIDE DEF rs
    <3>2. /\ \A j \in DOMAIN rs : j \in DOMAIN reqs' /\ reqs'[j] = rs[j]
          /\ Len(reqs') \in DOMAIN reqs' /\ reqs'[Len(reqs')] = n
          /\ \A j \in DOMAIN reqs' : j \in DOMAIN rs \/ j = Len(reqs')
      BY <1>0, <2>2, <3>1, SendShape DEF rs
    <3> HIDE DEF n
    <3> QED
      BY <2>2, <3>1, <3>2
  <2> QED
    BY <2>1, <2>2
<1>3. /\ n.heard /\ n.kind = k /\ n.status = "sent" /\ n.setCookie = "keep"
      /\ n.cookie = jar /\ n.token = token
  BY DEF New, CookieSent
<1> HIDE DEF n
<1>4. \A c : Live(c)' <=> Live(c)
  BY DEF Live
<1>5. AllFit'
  <2> SUFFICES ASSUME NEW j \in DOMAIN reqs', reqs'[j].heard PROVE Fits(reqs[j])'
    BY DEF AllFit
  <2>1. CASE reqs'[j] = n
    BY <1>3, <2>1 DEF Fits
  <2>2. CASE j \in DOMAIN reqs
    <3>1. Fits(reqs[j]) /\ Stays(reqs[j], reqs'[j])
      BY <1>2, <2>2 DEF Quiet, AllFit, Stays
    <3>2. /\ reqs'[j].kind = reqs[j].kind /\ reqs'[j].status = reqs[j].status
          /\ reqs'[j].header = reqs[j].header /\ reqs'[j].setCookie = reqs[j].setCookie
          /\ reqs'[j].cookie = reqs[j].cookie /\ reqs'[j].token = reqs[j].token
      BY <3>1 DEF Stays
    <3> QED
      BY <3>1, <3>2 DEF Fits, Kept, Cleared, Renewed, Guarded, Live
  <2> QED
    BY <1>2, <2>1, <2>2
<1>6. NoneFresh'
  <2> SUFFICES ASSUME NEW j \in DOMAIN reqs', reqs'[j].kind = "expelled" PROVE ~reqs'[j].fresh
    BY DEF NoneFresh
  <2>1. j \in DOMAIN reqs /\ Stays(reqs[j], reqs'[j])
    BY <1>2, <1>3
  <2> QED
    BY <2>1 DEF Quiet, NoneFresh, Stays
<1>7. Settled'
  <2> SUFFICES ASSUME AllKeep' PROVE (token # None => Live(jar))
                                    /\ (Live(jar) /\ token = None => Asking')
    BY <1>4 DEF Settled, Live
  <2>1. AllKeep
    BY <1>2 DEF AllKeep, Stays
  <2>2. ASSUME Live(jar), token = None PROVE Asking'
    <3>1. PICK i \in DOMAIN reqs :
            reqs[i].heard /\ reqs[i].kind = "app" /\ reqs[i].status = "sent"
      BY <2>1, <2>2 DEF Quiet, Settled, Asking
    <3> QED
      BY <1>2, <3>1 DEF Asking
  <2> QED
    BY <2>1, <2>2 DEF Quiet, Settled
<1> QED
  BY <1>1, <1>5, <1>6, <1>7 DEF Quiet

\* Loading a page: it asks with the cookie it has, and nobody listens to the answers that
\* are still under way.
LEMMA LoadQuiet ==
  ASSUME Basis, QuietOK, ~disturbed', NEW path, NEW c, NEW f, Load(path, c, f),
         jar' = c, f <=> Live(c)'
  PROVE  Quiet'
<1>0. TypeOK /\ reqs \in Seq(Request) /\ DOMAIN reqs = 1..Len(reqs) /\ Len(reqs) \in Nat
  BY DEF Basis, TypeOK
<1>1. Loaded(path, c, f) /\ token' = None
  BY <1>0, LoadShape DEF Load
<1>2. ~Overlap(reqs') /\ (~disturbed \/ reqs = <<>>)
  BY DEF Load
<1>3. ASSUME NEW k \in {"app", "guard"}, NEW n, n = New(k, None, c, f)
      PROVE  /\ n.heard /\ n.kind = k /\ n.status = "sent" /\ n.setCookie = "keep"
             /\ n.cookie = c /\ n.token = None
  BY <1>3 DEF New, CookieSent
<1>4. AllFit'
  <2> SUFFICES ASSUME NEW j \in DOMAIN reqs', reqs'[j].heard PROVE Fits(reqs[j])'
    BY DEF AllFit
  <2>1. PICK k \in {"app", "guard"} : reqs'[j] = New(k, None, c, f)
    BY <1>1 DEF Loaded
  <2> QED
    BY <1>1, <1>3, <2>1 DEF Fits
<1>5. NoneFresh'
  <2> SUFFICES ASSUME NEW j \in DOMAIN reqs', reqs'[j].kind = "expelled" PROVE ~reqs'[j].fresh
    BY DEF NoneFresh
  <2>1. j \in DOMAIN reqs /\ Stays(reqs[j], reqs'[j])
    BY <1>1, <1>3 DEF Loaded
  <2>2. ~disturbed
    BY <1>0, <1>2, <2>1
  <2> QED
    BY <2>1, <2>2 DEF QuietOK, Quiet, NoneFresh, Stays
<1>6. Asking'
  BY <1>1, <1>3 DEF Loaded, Asking, Initializing
<1>7. Settled'
  BY <1>1, <1>6 DEF Settled
<1> QED
  BY <1>2, <1>4, <1>5, <1>7 DEF Quiet

\* An answer that leaves the cookie and the server's families alone.
LEMMA KeepQuiet ==
  ASSUME Basis, Quiet, NEW i \in DOMAIN reqs, reqs[i].status = "sent", ~disturbed',
         NEW s \in {"ok", "unauthorized"}, NEW h, Answer(i, s, h, "keep", FALSE),
         UNCHANGED <<gen, revoked>>,
         reqs[i].heard /\ Fits(reqs[i]) =>
           \/ reqs[i].kind = "login" /\ s = "unauthorized"
           \/ Guarded(reqs[i]) /\ s = "unauthorized" /\ jar = None
           \/ Guarded(reqs[i]) /\ s = "ok" /\ h = None /\ token # None
  PROVE  Quiet'
<1>0. TypeOK
  BY DEF Basis
<1>1. ~Overlap(reqs')
  BY DEF Answer, Note
<1> DEFINE r == reqs'[i]
<1>2. /\ r.kind = reqs[i].kind /\ r.heard = reqs[i].heard /\ r.cookie = reqs[i].cookie
      /\ r.token = reqs[i].token /\ r.fresh = reqs[i].fresh
      /\ r.status = s /\ r.header = h /\ r.setCookie = "keep"
      /\ DOMAIN reqs' = DOMAIN reqs
      /\ \A j \in DOMAIN reqs : j # i => reqs'[j] = reqs[j]
  BY ZenonT(30), <1>0, AnswerShape
<1> HIDE DEF r
<1>3. UNCHANGED <<token, jar>>
  BY DEF Answer
<1>4. reqs[i].setCookie = "keep"
  BY DEF Basis, Sound, AllSound, SoundReq
<1>5. AllFit'
  <2> SUFFICES ASSUME NEW j \in DOMAIN reqs', reqs'[j].heard PROVE Fits(reqs[j])'
    BY DEF AllFit
  <2>1. CASE j # i
    <3>1. Fits(reqs[j]) /\ reqs'[j] = reqs[j]
      BY <1>2, <2>1 DEF Quiet, AllFit
    <3> QED
      BY <1>3, <3>1 DEF Fits, Kept, Cleared, Renewed, Guarded, Live
  <2>2. CASE j = i
    <3>1. reqs[i].heard /\ Fits(reqs[i])
      BY <1>2, <2>2 DEF Quiet, AllFit, r
    <3>2. r.cookie = jar' /\ r.token = token'
      BY <1>2, <1>3, <3>1 DEF Fits
    <3>3. Kept(reqs[i])'
      BY <1>2, <1>3, <3>1 DEF Kept, Guarded, r
    <3> QED
      BY <2>2, <3>2, <3>3 DEF Fits, r
  <2> QED
    BY <2>1, <2>2
<1>6. NoneFresh'
  <2> SUFFICES ASSUME NEW j \in DOMAIN reqs', reqs'[j].kind = "expelled" PROVE ~reqs'[j].fresh
    BY DEF NoneFresh
  <2>1. reqs[j].kind = "expelled" /\ reqs'[j].fresh = reqs[j].fresh
    BY <1>2 DEF r
  <2> QED
    BY <1>2, <2>1 DEF Quiet, NoneFresh
<1>7. Settled'
  <2> SUFFICES ASSUME AllKeep' PROVE (token # None => Live(jar))
                                    /\ (Live(jar) /\ token = None => Asking')
    BY <1>3 DEF Settled, Live
  <2>1. AllKeep
    <3> SUFFICES ASSUME NEW j \in DOMAIN reqs PROVE reqs[j].setCookie = "keep"
      BY DEF AllKeep
    <3> QED
      BY <1>2, <1>4 DEF AllKeep
  <2>2. ASSUME Live(jar), token = None PROVE Asking'
    <3>1. PICK a \in DOMAIN reqs :
            reqs[a].heard /\ reqs[a].kind = "app" /\ reqs[a].status = "sent"
      BY <2>1, <2>2 DEF Quiet, Settled, Asking
    <3>2. CASE a # i
      BY <1>2, <3>1, <3>2 DEF Asking
    <3>3. CASE a = i
      <4>1. Fits(reqs[i])
        BY <3>1, <3>3 DEF Quiet, AllFit
      <4>2. jar # None
        BY <2>2 DEF Live
      <4> QED
        BY <2>2, <3>1, <3>3, <4>1, <4>2 DEF Initializing
    <3> QED
      BY <3>2, <3>3
  <2> QED
    BY <2>1, <2>2 DEF Quiet, Settled
<1> QED
  BY <1>1, <1>5, <1>6, <1>7 DEF Quiet

\* An answer that changes the cookie: nobody else is under way.
LEMMA ChangeQuiet ==
  ASSUME Basis, Quiet, NEW i \in DOMAIN reqs, ~disturbed', reqs' \in Seq(Request'),
         NEW s, NEW h, NEW k \in {"set", "clear"}, Answer(i, s, h, k, FALSE),
         reqs[i].heard /\ Fits(reqs[i]) /\ DOMAIN reqs = {i} =>
           \/ /\ k = "clear" /\ h = None
              /\ \/ reqs[i].kind \in LogoutKinds /\ s = "ok"
                 \/ Guarded(reqs[i]) /\ s = "unauthorized" /\ token = None
           \/ /\ k = "set" /\ h # None /\ Live(h)' /\ reqs[i].kind \notin LogoutKinds
              /\ s = "ok" \/ (reqs[i].kind = "call" /\ s = "failed" /\ token # None)
  PROVE  Quiet'
<1>0. TypeOK
  BY DEF Basis
<1>1. ~Overlap(reqs')
  BY DEF Answer, Note
<1> DEFINE r == reqs'[i]
<1>2. /\ r.kind = reqs[i].kind /\ r.heard = reqs[i].heard /\ r.cookie = reqs[i].cookie
      /\ r.token = reqs[i].token /\ r.fresh = reqs[i].fresh
      /\ r.status = s /\ r.header = h /\ r.setCookie = k
      /\ DOMAIN reqs' = DOMAIN reqs
  <2>1. TypeOK /\ Answer(i, s, h, k, FALSE)
    BY <1>0
  <2>2. /\ r.kind = reqs[i].kind /\ r.heard = reqs[i].heard /\ r.cookie = reqs[i].cookie
        /\ r.token = reqs[i].token /\ r.fresh = reqs[i].fresh
    BY <2>1, AnswerShape
  <2>3. r.status = s /\ r.header = h /\ r.setCookie = k
    <3>1. r \in Answered(reqs[i], s, h, k)
      BY <2>1, AnswerShape
    <3> HIDE DEF r
    <3> QED
      BY <3>1 DEF Answered
  <2>4. DOMAIN reqs' = DOMAIN reqs
    BY DEF Answer
  <2> QED
    BY <2>2, <2>3, <2>4
<1> HIDE DEF r
<1>3. UNCHANGED <<token, jar>>
  BY DEF Answer
<1>4. DOMAIN reqs' = {i} /\ r.heard
  <2>1. PICK R : R = Request'
    OBVIOUS
  <2>2. PICK rs : rs = reqs'
    OBVIOUS
  <2>3. rs \in Seq(R) /\ Len(rs) \in Nat /\ DOMAIN rs = 1..Len(rs) /\ i \in DOMAIN rs
    BY <1>2, <2>1, <2>2
  <2>4. ~(Len(rs) > 1) /\ r.heard
    BY <1>1, <1>2, <2>2 DEF Overlap, r
  <2>5. Len(rs) = 1 /\ i = 1
    BY <2>3, <2>4
  <2> QED
    BY <2>2, <2>3, <2>4, <2>5
<1>5. reqs[i].heard /\ Fits(reqs[i]) /\ DOMAIN reqs = {i}
  BY <1>2, <1>4 DEF Quiet, AllFit
<1>6. Fits(reqs[i])'
  <2>1. r.cookie = jar' /\ r.token = token'
    BY <1>2, <1>3, <1>5 DEF Fits
  <2>2. CASE k = "clear"
    <3>1. Cleared(reqs[i])'
      BY <1>2, <1>3, <1>5, <2>2 DEF Cleared, Guarded, r
    <3> QED
      BY <2>1, <3>1 DEF Fits, r
  <2>3. CASE k = "set"
    <3>1. Renewed(reqs[i])'
      BY <1>2, <1>3, <1>5, <2>3 DEF Renewed, Live, r
    <3> QED
      BY <2>1, <3>1 DEF Fits, r
  <2> QED
    BY <2>2, <2>3
<1>7. AllFit'
  BY <1>4, <1>6 DEF AllFit
<1>8. NoneFresh'
  <2>1. reqs[i].kind = "expelled" => ~reqs[i].fresh
    BY DEF Quiet, NoneFresh
  <2>2. reqs'[i].kind = "expelled" => ~reqs'[i].fresh
    BY <1>2, <2>1 DEF r
  <2> QED
    BY <1>4, <2>2 DEF NoneFresh
<1>9. Settled'
  BY <1>2, <1>4 DEF Settled, AllKeep, r
<1> QED
  BY <1>1, <1>7, <1>8, <1>9 DEF Quiet

\* What the server answers to a page that stays undisturbed.
LEMMA ServerQuiet ==
  ASSUME Basis, Quiet, NEW i \in DOMAIN reqs, Serve(i) \/ Lost(i), ~disturbed'
  PROVE  Quiet'
<1>0. TypeOK /\ Sound
  BY DEF Basis
<1>1. Basis'
  BY ServerBasis
<1>2. reqs' \in Seq(Request')
  BY <1>1 DEF Basis, TypeOK
<1> DEFINE q == reqs[i]
           c == reqs[i].cookie
<1>3. q \in Request
  BY <1>0, RequestAt
<1>4. Settled /\ Live(None) = FALSE
  BY DEF Quiet, Live
<1>5. reqs[i].status = "sent" => reqs[i].setCookie = "keep"
  BY <1>0 DEF Sound, AllSound, SoundReq
<1>6. reqs[i].status = "sent" /\ DOMAIN reqs = {i} => AllKeep
  BY <1>5 DEF AllKeep
<1>10. CASE ServeWithoutCookie(i) /\ reqs[i].status = "sent"
  <2>1. Answer(i, "unauthorized", None, "keep", FALSE) /\ UNCHANGED <<gen, revoked>>
    BY <1>10 DEF ServeWithoutCookie
  <2>2. Guarded(reqs[i]) /\ reqs[i].cookie = None
    BY <1>10 DEF ServeWithoutCookie
  <2>3. reqs[i].heard /\ Fits(reqs[i]) => jar = None
    BY <2>2 DEF Fits
  <2> QED
    BY <1>10, <2>1, <2>2, <2>3, KeepQuiet
<1>11. CASE ServeWithToken(i) /\ reqs[i].status = "sent"
  <2>1. Answer(i, "ok", None, "keep", FALSE) /\ UNCHANGED <<gen, revoked>>
    BY <1>11 DEF ServeWithToken
  <2>2. Guarded(reqs[i]) /\ reqs[i].token # None
    BY <1>11 DEF ServeWithToken, Accepted
  <2>3. reqs[i].heard /\ Fits(reqs[i]) => token # None
    BY <2>2 DEF Fits
  <2> QED
    BY <1>11, <2>1, <2>2, <2>3, KeepQuiet
<1>12. CASE ServeRotated(i) /\ reqs[i].status = "sent"
  <2>1. /\ Guarded(reqs[i]) /\ Live(c) /\ gen' = [gen EXCEPT ![c[1]] = @ + 1]
        /\ revoked' = revoked
    BY <1>12 DEF ServeRotated
  <2>2. PICK s \in {"ok"} \cup (IF reqs[i].kind = "call" THEN {"failed"} ELSE {}) :
           Answer(i, s, <<c[1], c[2] + 1>>, "set", FALSE)
    BY <1>12 DEF ServeRotated
  <2>3. PICK h : h = <<c[1], c[2] + 1>>
    OBVIOUS
  <2>4. c \in Cookies /\ gen \in Seq(0..MaxSends) /\ DOMAIN gen = Families
    BY <1>0, <1>3, <2>1 DEF Live, Request, TypeOK, Families
  <2>5. c[1] \in Families /\ c[2] \in Nat /\ gen[c[1]] = c[2]
    BY <1>0, <2>1, <2>4, CookieIs DEF Live
  <2>6. gen'[c[1]] = c[2] + 1
    BY <2>1, <2>4, <2>5
  <2>7. h # None /\ Live(h)'
    <3>1. h # None /\ h[1] = c[1] /\ h[2] = c[2] + 1
      BY <2>3 DEF None
    <3> QED
      BY <2>1, <2>6, <3>1 DEF Live
  <2>8. ASSUME Fits(reqs[i]), DOMAIN reqs = {i}, s = "failed"
        PROVE  reqs[i].kind = "call" /\ token # None
    <3>1. reqs[i].kind = "call"
      BY <2>2, <2>8
    <3>2. ~Asking
      BY <2>8, <3>1 DEF Asking, Initializing
    <3>3. jar = c
      BY <2>8 DEF Fits
    <3> QED
      BY <1>4, <1>6, <1>12, <2>1, <2>8, <3>1, <3>2, <3>3 DEF Settled
  <2>9. reqs[i].kind \notin LogoutKinds /\ s \in {"ok", "failed"}
    BY <2>1, <2>2 DEF Guarded, Initializing, LogoutKinds, Redirected
  <2>10. Answer(i, s, h, "set", FALSE)
    BY <2>2, <2>3
  <2> QED
    BY <1>2, <2>7, <2>8, <2>9, <2>10, ChangeQuiet
<1>13. CASE ServeReused(i) /\ reqs[i].status = "sent"
  <2>1. /\ Answer(i, "unauthorized", None, "clear", FALSE)
        /\ Guarded(reqs[i]) /\ ~Live(c) /\ ~Accepted(reqs[i])
    BY <1>13 DEF ServeReused
  <2>2. ASSUME Fits(reqs[i]), DOMAIN reqs = {i} PROVE token = None
    BY <1>4, <1>6, <1>13, <2>1, <2>2 DEF Fits, Settled
  <2> QED
    BY <1>2, <2>1, <2>2, ChangeQuiet
<1>14. CASE ServeBroken(i)
  <2>1. PICK s, h : Answer(i, s, h, "clear", TRUE)
    BY <1>14 DEF ServeBroken
  <2> QED
    BY <2>1 DEF Answer, Note
<1>15. CASE ServeLogin(i)
  <2>1. gen' = Append(gen, 0) /\ Answer(i, "ok", <<Len(gen'), 0>>, "set", FALSE)
        /\ revoked' = revoked /\ reqs[i].kind = "login"
    BY <1>15 DEF ServeLogin
  <2>2. PICK h : h = <<Len(gen'), 0>>
    OBVIOUS
  <2>3. Answer(i, "ok", h, "set", FALSE)
    BY <2>1, <2>2
  <2>4. gen \in Seq(0..MaxSends) /\ revoked \subseteq 1..Len(gen) /\ Len(gen) \in Nat
    BY <1>0 DEF TypeOK, Families
  <2>5. Len(gen') = Len(gen) + 1 /\ gen'[Len(gen')] = 0
    BY <2>1, <2>4, BoundsAssumption
  <2>6. Len(gen') \notin revoked'
    BY <2>1, <2>4, <2>5
  <2>7. h # None /\ Live(h)'
    <3>1. h # None /\ h[1] = Len(gen') /\ h[2] = 0
      BY <2>2 DEF None
    <3> QED
      BY <2>5, <2>6, <3>1 DEF Live
  <2>8. reqs[i].kind \notin LogoutKinds
    BY <2>1 DEF LogoutKinds, Redirected
  <2> QED
    BY <1>2, <2>3, <2>7, <2>8, ChangeQuiet
<1>16. CASE RefuseLogin(i) /\ reqs[i].status = "sent"
  <2>1. PICK h \in {None, Orphan} : Answer(i, "unauthorized", h, "keep", FALSE)
    BY <1>16 DEF RefuseLogin
  <2>2. UNCHANGED <<gen, revoked>> /\ reqs[i].kind = "login"
    BY <1>16 DEF RefuseLogin
  <2> QED
    BY <1>16, <2>1, <2>2, KeepQuiet
<1>17. CASE ServeLogout(i)
  <2>1. PICK fault \in BOOLEAN : Answer(i, "ok", None, "clear", fault)
    BY <1>17 DEF ServeLogout
  <2>2. Answer(i, "ok", None, "clear", FALSE)
    BY <2>1 DEF Answer, Note
  <2>3. reqs[i].kind \in LogoutKinds
    BY <1>17 DEF ServeLogout
  <2> QED
    BY <1>2, <2>2, <2>3, ChangeQuiet
<1>18. CASE Lost(i)
  BY <1>18 DEF Lost, Answer, Note
<1> QED
  BY <1>10, <1>11, <1>12, <1>13, <1>14, <1>15, <1>16, <1>17, <1>18 DEF Serve

\* An answer that leaves the cookie alone reaches the interceptor.
LEMMA RestKeepQuiet ==
  ASSUME Basis, Quiet, NEW i \in DOMAIN reqs, reqs[i].status # "sent", Received(i),
         reqs' = Rest(i), ~disturbed', Note(FALSE), token' = TokenOf(reqs[i]),
         reqs[i].heard, reqs[i].setCookie = "keep"
  PROVE  Quiet'
<1>0. TypeOK /\ reqs[i] \in Request
  BY RequestAt DEF Basis
<1>1. ~Overlap(reqs') /\ ~Overlap(reqs)
  BY DEF Note, Quiet
<1>2. Fits(reqs[i]) /\ Kept(reqs[i])
  BY DEF Quiet, AllFit, Fits, Cleared, Renewed
<1>3. jar' = jar /\ JarAfter(reqs[i]) = jar /\ UNCHANGED <<gen, revoked>>
  BY DEF Received, JarAfter
<1>4. token' = token
  BY <1>2 DEF Kept, TokenOf
<1>5. PICK n : n = New(IF reqs[i].kind = "login" THEN "rejected" ELSE "expelled",
                       token, JarAfter(reqs[i]), Live(JarAfter(reqs[i])))
  OBVIOUS
<1>6. /\ \A m \in DOMAIN reqs' :
           \/ \E l \in DOMAIN reqs : l # i /\ reqs'[m] = reqs[l]
           \/ reqs[i].status = "unauthorized" /\ reqs'[m] = n
      /\ \A l \in DOMAIN reqs : l # i => \E m \in DOMAIN reqs' : reqs'[m] = reqs[l]
  BY <1>0, <1>5, RestShape
<1>7. /\ n.status = "sent" /\ n.setCookie = "keep" /\ n.cookie = jar /\ n.token = token
      /\ n.fresh = Live(jar) /\ (n.kind = "expelled" => reqs[i].kind # "login")
  BY <1>3, <1>5 DEF New, CookieSent
<1>8. AllKeep' => AllKeep
  <2> SUFFICES ASSUME AllKeep', NEW l \in DOMAIN reqs PROVE reqs[l].setCookie = "keep"
    BY DEF AllKeep
  <2> QED
    BY <1>6 DEF AllKeep
<1>9. AllFit'
  <2> SUFFICES ASSUME NEW m \in DOMAIN reqs', reqs'[m].heard PROVE Fits(reqs[m])'
    BY DEF AllFit
  <2>1. CASE reqs'[m] = n
    BY <1>3, <1>4, <1>7, <2>1 DEF Fits
  <2>2. CASE \E l \in DOMAIN reqs : reqs'[m] = reqs[l]
    <3>1. PICK l \in DOMAIN reqs : reqs'[m] = reqs[l]
      BY <2>2
    <3>2. Fits(reqs[l])
      BY <3>1 DEF Quiet, AllFit
    <3> QED
      BY <1>3, <1>4, <3>1, <3>2 DEF Fits, Kept, Cleared, Renewed, Guarded, Live
  <2> QED
    BY <1>6, <2>1, <2>2
<1>10. AllKeep
  <2> SUFFICES ASSUME NEW l \in DOMAIN reqs, reqs[l].setCookie # "keep" PROVE FALSE
    BY DEF AllKeep
  <2>1. reqs \in Seq(Request)
    BY <1>0 DEF TypeOK
  <2>2. DOMAIN reqs = {l}
    BY <1>1, <2>1, OnlyOne
  <2> QED
    BY <2>2
<1>11. NoneFresh'
  <2> SUFFICES ASSUME NEW m \in DOMAIN reqs', reqs'[m].kind = "expelled" PROVE ~reqs'[m].fresh
    BY DEF NoneFresh
  <2>1. CASE reqs[i].status = "unauthorized" /\ reqs'[m] = n
    <3>1. reqs[i].kind # "login" /\ jar = None
      BY <1>2, <1>7, <2>1 DEF Kept
    <3>2. Live(jar) = FALSE
      BY <3>1 DEF Live
    <3> QED
      BY <1>7, <2>1, <3>2
  <2>2. CASE \E l \in DOMAIN reqs : reqs'[m] = reqs[l]
    BY <2>2 DEF Quiet, NoneFresh
  <2> QED
    BY <1>6, <2>1, <2>2
<1>12. Settled'
  <2>1. token # None => Live(jar)
    BY <1>10 DEF Quiet, Settled
  <2>2. ASSUME Live(jar), token = None PROVE Asking'
    <3>1. PICK a \in DOMAIN reqs :
            reqs[a].heard /\ reqs[a].kind = "app" /\ reqs[a].status = "sent"
      BY <1>10, <2>2 DEF Quiet, Settled, Asking
    <3>2. a # i
      BY <3>1
    <3> QED
      BY <1>6, <3>1, <3>2 DEF Asking
  <2> QED
    BY <1>3, <1>4, <2>1, <2>2 DEF Settled, Live
<1> QED
  BY <1>1, <1>9, <1>11, <1>12 DEF Quiet

\* An answer that changes the cookie reaches the interceptor: it was the last.
LEMMA RestChangeQuiet ==
  ASSUME Basis, Quiet, NEW i \in DOMAIN reqs, reqs[i].status # "sent", Received(i),
         reqs' = Rest(i), ~disturbed', Note(FALSE), token' = TokenOf(reqs[i]),
         reqs[i].heard, reqs[i].setCookie # "keep", reqs[i].kind \notin LogoutKinds
  PROVE  Quiet'
<1>0. TypeOK /\ reqs[i] \in Request /\ reqs \in Seq(Request)
  BY RequestAt DEF Basis, TypeOK
<1>1. ~Overlap(reqs') /\ ~Overlap(reqs)
  BY DEF Note, Quiet
<1>2. DOMAIN reqs = {i}
  BY <1>0, <1>1, OnlyOne
<1>3. Fits(reqs[i]) /\ (Cleared(reqs[i]) \/ Renewed(reqs[i]))
  BY DEF Quiet, AllFit, Fits, Kept
<1>4. jar' = JarAfter(reqs[i]) /\ UNCHANGED <<gen, revoked>>
  BY DEF Received
<1>5. PICK n : n = New(IF reqs[i].kind = "login" THEN "rejected" ELSE "expelled",
                       token, JarAfter(reqs[i]), Live(JarAfter(reqs[i])))
  OBVIOUS
<1>6. \A m \in DOMAIN reqs' :
           \/ \E l \in DOMAIN reqs : l # i /\ reqs'[m] = reqs[l]
           \/ reqs[i].status = "unauthorized" /\ reqs'[m] = n
  BY <1>0, <1>5, RestShape
<1>7. \A m \in DOMAIN reqs' : reqs[i].status = "unauthorized" /\ reqs'[m] = n
  BY <1>2, <1>6
<1>8. /\ n.status = "sent" /\ n.setCookie = "keep" /\ n.cookie = jar' /\ n.token = token
      /\ n.fresh = Live(jar')
  BY <1>4, <1>5 DEF New, CookieSent
<1>9. CASE Cleared(reqs[i])
  <2>1. jar' = None /\ token = None /\ token' = None
    BY <1>4, <1>9 DEF Cleared, JarAfter, TokenOf
  <2>2. Live(jar') = FALSE
    BY <2>1 DEF Live
  <2>3. AllFit'
    BY <1>7, <1>8, <2>1 DEF AllFit, Fits
  <2>4. NoneFresh'
    BY <1>7, <1>8, <2>2 DEF NoneFresh
  <2>5. Settled'
    BY <2>1 DEF Settled, Live
  <2> QED
    BY <1>1, <2>3, <2>4, <2>5 DEF Quiet
<1>10. CASE Renewed(reqs[i])
  <2>1. DOMAIN reqs' = {}
    BY <1>7, <1>10 DEF Renewed
  <2>2. jar' = reqs[i].header /\ Live(jar)' /\ reqs[i].header # None
    BY <1>4, <1>10 DEF Renewed, JarAfter, Live
  <2>3. token' # None
    BY <1>10, <2>2 DEF Renewed, TokenOf
  <2>4. AllFit' /\ NoneFresh'
    BY <2>1 DEF AllFit, NoneFresh
  <2>5. Settled'
    BY <2>2, <2>3 DEF Settled
  <2> QED
    BY <1>1, <2>4, <2>5 DEF Quiet
<1> QED
  BY <1>3, <1>9, <1>10

\* The answers that arrive at a page that stays undisturbed.
LEMMA BrowserQuiet ==
  ASSUME Basis, Quiet, NEW i \in DOMAIN reqs, Arrive(i), ~disturbed'
  PROVE  Quiet'
<1>0. TypeOK /\ reqs[i] \in Request /\ reqs \in Seq(Request)
  BY RequestAt DEF Basis, TypeOK
<1>1. CASE PingAnswered(i) \/ CallAnswered(i) \/ LoginAnswered(i)
  <2>1. /\ Received(i) /\ reqs' = Rest(i) /\ Note(FALSE) /\ token' = TokenOf(reqs[i])
        /\ reqs[i].kind \notin LogoutKinds
    BY <1>1 DEF PingAnswered, CallAnswered, LoginAnswered, Initializing, LogoutKinds, Redirected
  <2>2. reqs[i].heard /\ reqs[i].status # "sent"
    BY <2>1 DEF Received
  <2> QED
    BY <2>1, <2>2, RestKeepQuiet, RestChangeQuiet
<1>2. CASE LogoutAnswered(i)
  <2>1. /\ Received(i) /\ Note(FALSE) /\ token' = None /\ reqs[i].kind \in LogoutKinds
        /\ \/ reqs' = Cancelled(RemoveAt(reqs, i), {"guard"}) \/ reqs' = RemoveAt(reqs, i)
    BY <1>2 DEF LogoutAnswered, CleanTokens
  <2>2. reqs[i].heard /\ reqs[i].status # "sent" /\ jar' = JarAfter(reqs[i])
    BY <2>1 DEF Received
  <2>3. Cleared(reqs[i])
    BY <2>1, <2>2 DEF Quiet, AllFit, Fits, Kept, Renewed, Guarded, LogoutKinds, Redirected,
                      Initializing
  <2>4. jar' = None
    BY <2>2, <2>3 DEF Cleared, JarAfter
  <2>5. DOMAIN reqs = {i}
    <3>1. ~Overlap(reqs) /\ reqs[i].setCookie # "keep"
      BY <2>3 DEF Quiet, Cleared
    <3> QED
      BY <1>0, <3>1, OnlyOne
  <2>6. DOMAIN reqs' = {}
    <3>1. \A m \in DOMAIN reqs' : \E l \in DOMAIN reqs : l # i /\ Stays(reqs[l], reqs'[m])
      BY <1>0, <2>1, LeaveShape
    <3> QED
      BY <2>5, <3>1
  <2>7. AllFit' /\ NoneFresh'
    BY <2>6 DEF AllFit, NoneFresh
  <2>8. Settled'
    BY <2>1, <2>4 DEF Settled, Live
  <2>9. ~Overlap(reqs')
    BY <2>1 DEF Note
  <2> QED
    BY <2>7, <2>8, <2>9 DEF Quiet
<1>3. CASE Unheard(i)
  <2>1. /\ ~reqs[i].heard /\ reqs[i].status # "sent" /\ jar' \in {jar, JarAfter(reqs[i])}
        /\ reqs' = RemoveAt(reqs, i) /\ Note(FALSE) /\ UNCHANGED <<token, gen, revoked>>
    BY <1>3 DEF Unheard
  <2>2. reqs[i].setCookie = "keep" /\ ~Overlap(reqs) /\ ~Overlap(reqs')
    BY <1>0, <2>1, OnlyOne DEF Quiet, Note
  <2>3. jar' = jar
    BY <2>1, <2>2 DEF JarAfter
  <2>4. /\ \A m \in DOMAIN reqs' : \E l \in DOMAIN reqs : l # i /\ Stays(reqs[l], reqs'[m])
        /\ \A l \in DOMAIN reqs : l # i => \E m \in DOMAIN reqs' : reqs'[m] = reqs[l]
    BY <1>0, <2>1, LeaveShape
  <2>5. AllFit'
    <3> SUFFICES ASSUME NEW m \in DOMAIN reqs', reqs'[m].heard PROVE Fits(reqs[m])'
      BY DEF AllFit
    <3>1. PICK l \in DOMAIN reqs : Stays(reqs[l], reqs'[m])
      BY <2>4
    <3>2. Fits(reqs[l])
      BY <3>1 DEF Quiet, AllFit, Stays
    <3>3. /\ reqs'[m].kind = reqs[l].kind /\ reqs'[m].status = reqs[l].status
          /\ reqs'[m].header = reqs[l].header /\ reqs'[m].setCookie = reqs[l].setCookie
          /\ reqs'[m].cookie = reqs[l].cookie /\ reqs'[m].token = reqs[l].token
      BY <3>1 DEF Stays
    <3> QED
      BY <2>1, <2>3, <3>2, <3>3 DEF Fits, Kept, Cleared, Renewed, Guarded, Live
  <2>6. NoneFresh'
    <3> SUFFICES ASSUME NEW m \in DOMAIN reqs', reqs'[m].kind = "expelled" PROVE ~reqs'[m].fresh
      BY DEF NoneFresh
    <3>1. PICK l \in DOMAIN reqs : Stays(reqs[l], reqs'[m])
      BY <2>4
    <3> QED
      BY <3>1 DEF Quiet, NoneFresh, Stays
  <2>7. Settled'
    <3> SUFFICES ASSUME AllKeep' PROVE (token # None => Live(jar))
                                      /\ (Live(jar) /\ token = None => Asking')
      BY <2>1, <2>3 DEF Settled, Live
    <3>1. AllKeep
      <4> SUFFICES ASSUME NEW l \in DOMAIN reqs PROVE reqs[l].setCookie = "keep"
        BY DEF AllKeep
      <4> QED
        BY <2>2, <2>4 DEF AllKeep
    <3>2. ASSUME Live(jar), token = None PROVE Asking'
      <4>1. PICK a \in DOMAIN reqs :
              reqs[a].heard /\ reqs[a].kind = "app" /\ reqs[a].status = "sent"
        BY <3>1, <3>2 DEF Quiet, Settled, Asking
      <4> QED
        BY <2>1, <2>4, <4>1 DEF Asking
    <3> QED
      BY <3>1, <3>2 DEF Quiet, Settled
  <2> QED
    BY <2>2, <2>5, <2>6, <2>7 DEF Quiet
<1> QED
  BY <1>1, <1>2, <1>3 DEF Arrive

\* A visitor goes to the login page: only the guard is not heard any more.
LEMMA LeaveHomeQuiet ==
  ASSUME Basis, Quiet, GoToLogin, ~disturbed'
  PROVE  Quiet'
<1>0. /\ TypeOK /\ reqs \in Seq(Request) /\ reqs' = Cancelled(reqs, {"guard"}) /\ Note(FALSE)
      /\ UNCHANGED <<token, jar, gen, revoked>>
  BY DEF Basis, TypeOK, GoToLogin
<1>1. /\ DOMAIN reqs' = DOMAIN reqs
      /\ \A j \in DOMAIN reqs : Stays(reqs[j], reqs'[j])
      /\ \A j \in DOMAIN reqs : reqs[j].kind = "app" => reqs'[j] = reqs[j]
  BY <1>0, CancelledShape
<1>2. ~Overlap(reqs')
  BY <1>0 DEF Note
<1>3. \A c : Live(c)' <=> Live(c)
  BY <1>0 DEF Live
<1>4. AllFit'
  <2> SUFFICES ASSUME NEW j \in DOMAIN reqs, reqs'[j].heard PROVE Fits(reqs[j])'
    BY <1>1 DEF AllFit
  <2>1. Fits(reqs[j]) /\ Stays(reqs[j], reqs'[j])
    BY <1>1 DEF Quiet, AllFit, Stays
  <2>2. /\ reqs'[j].kind = reqs[j].kind /\ reqs'[j].status = reqs[j].status
        /\ reqs'[j].header = reqs[j].header /\ reqs'[j].setCookie = reqs[j].setCookie
        /\ reqs'[j].cookie = reqs[j].cookie /\ reqs'[j].token = reqs[j].token
    BY <2>1 DEF Stays
  <2> QED
    BY <1>0, <2>1, <2>2 DEF Fits, Kept, Cleared, Renewed, Guarded, Live
<1>5. NoneFresh'
  BY <1>1 DEF Quiet, NoneFresh, Stays
<1>6. Settled'
  <2> SUFFICES ASSUME AllKeep' PROVE (token # None => Live(jar))
                                    /\ (Live(jar) /\ token = None => Asking')
    BY <1>0, <1>3 DEF Settled, Live
  <2>1. AllKeep
    BY <1>1 DEF AllKeep, Stays
  <2>2. ASSUME Live(jar), token = None PROVE Asking'
    <3>1. PICK i \in DOMAIN reqs :
            reqs[i].heard /\ reqs[i].kind = "app" /\ reqs[i].status = "sent"
      BY <2>1, <2>2 DEF Quiet, Settled, Asking
    <3> QED
      BY <1>1, <3>1 DEF Asking
  <2> QED
    BY <2>1, <2>2 DEF Quiet, Settled
<1> QED
  BY <1>2, <1>4, <1>5, <1>6 DEF Quiet

\* Nothing the page or its server does takes its quiet away.
LEMMA QuietStep ==
  ASSUME Basis, QuietOK, [Next]_vars
  PROVE  QuietOK'
<1> SUFFICES ASSUME ~disturbed' PROVE Quiet'
  BY DEF QuietOK
<1>1. CASE Reload
  <2>1. PICK path : Load(path, jar, Live(jar))
    BY <1>1 DEF Reload
  <2>2. jar' = jar /\ (Live(jar) <=> Live(jar)')
    BY <1>1 DEF Reload, Live
  <2> QED
    BY <2>1, <2>2, LoadQuiet
<1>2. CASE SsoReturn
  <2>1. /\ gen' = Append(gen, 0) /\ jar' = <<Len(gen'), 0>> /\ Load("landing", jar', TRUE)
        /\ revoked' = revoked
    BY <1>2 DEF SsoReturn
  <2>2. PICK c : c = <<Len(gen'), 0>>
    OBVIOUS
  <2>3. gen \in Seq(0..MaxSends) /\ revoked \subseteq 1..Len(gen) /\ Len(gen) \in Nat
    BY DEF Basis, TypeOK, Families
  <2>4. Len(gen') = Len(gen) + 1 /\ gen'[Len(gen')] = 0
    BY <2>1, <2>3, BoundsAssumption
  <2>5. Len(gen') \notin revoked'
    BY <2>1, <2>3, <2>4
  <2>6. Live(c)'
    <3>1. c # None /\ c[1] = Len(gen') /\ c[2] = 0
      BY <2>2 DEF None
    <3> QED
      BY <2>4, <2>5, <3>1 DEF Live
  <2>7. Load("landing", c, TRUE) /\ jar' = c
    BY <2>1, <2>2 DEF Load, New
  <2> QED
    BY <2>6, <2>7, LoadQuiet
<1>3. CASE (OpenCallback /\ initialized) \/ (OpenProfile /\ initialized) \/ GoHome \/ ExpireToken
           \/ UNCHANGED vars
  <2>1. UNCHANGED <<token, jar, reqs, gen, revoked, disturbed>>
    BY <1>3 DEF OpenCallback, OpenProfile, GoHome, ExpireToken, vars
  <2>2. Quiet
    BY <2>1 DEF QuietOK
  <2> QED
    BY <2>1, <2>2 DEF Quiet, AllFit, NoneFresh, Settled, AllKeep, Asking, Fits, Kept, Cleared,
                      Renewed, Live
<1>4. CASE (OpenCallback /\ ~initialized) \/ (OpenProfile /\ ~initialized) \/ CallApi
           \/ SubmitLogin \/ SignOut
  <2>1. PICK k \in {"callback", "guard", "call", "login", "signout"} :
          /\ Send({k}, reqs) \/ Send({k}, Cancelled(reqs, {"guard"}))
          /\ UNCHANGED <<token, jar, gen, revoked>>
    BY <1>4 DEF OpenCallback, OpenProfile, CallApi, SubmitLogin, SignOut
  <2>2. k \in Kinds /\ k # "expelled"
    BY DEF Kinds, Initializing, LogoutKinds
  <2>3. Quiet
    BY <2>1 DEF QuietOK, Send, Note
  <2> QED
    BY <2>1, <2>2, <2>3, SendQuiet
<1>5. ASSUME NEW i \in DOMAIN reqs, Serve(i) \/ Lost(i) \/ Arrive(i)
      PROVE  Quiet'
  <2>1. \E f : Note(f)
    BY <1>5 DEF Serve, Lost, Arrive, Answer, ServeWithoutCookie, ServeWithToken, ServeRotated,
      ServeReused, ServeBroken, ServeLogin, RefuseLogin, ServeLogout, PingAnswered, CallAnswered,
      LoginAnswered, LogoutAnswered, Unheard
  <2>2. Quiet
    BY <2>1 DEF QuietOK, Note
  <2> QED
    BY <1>5, <2>2, ServerQuiet, BrowserQuiet
<1>6. CASE GoToLogin
  <2>1. Quiet
    BY <1>6 DEF QuietOK, GoToLogin, Note
  <2> QED
    BY <1>6, <2>1, LeaveHomeQuiet
<1> QED
  BY <1>1, <1>2, <1>3, <1>4, <1>5, <1>6 DEF Next, User

\* The first page is quiet: it has asked, and nothing else is under way.
LEMMA QuietInit == Init => QuietOK
<1> SUFFICES ASSUME Init PROVE Quiet
  BY DEF QuietOK
<1>1. gen[1] = 0 /\ revoked = {} /\ jar \in {None, <<1, 0>>} /\ token = None
  BY DEF Init
<1>2. Live(jar) <=> jar # None
  BY <1>1 DEF Live, None
<1> DEFINE n == New("app", None, jar, jar # None)
<1>3. /\ n.kind = "app" /\ n.heard = TRUE /\ n.status = "sent" /\ n.setCookie = "keep"
      /\ n.cookie = jar /\ n.token = None
  BY DEF New, CookieSent
<1>4. reqs = <<n>>
  BY DEF Init
<1> HIDE DEF n
<1>5. DOMAIN reqs = {1} /\ reqs[1] = n /\ Len(reqs) = 1
  BY <1>4
<1>6. ~Overlap(reqs)
  BY <1>3, <1>5 DEF Overlap
<1>7. AllFit
  BY <1>1, <1>3, <1>5 DEF AllFit, Fits
<1>8. NoneFresh
  BY <1>3, <1>5 DEF NoneFresh
<1>9. Asking
  BY <1>3, <1>5 DEF Asking, Initializing
<1>10. Settled
  BY <1>1, <1>9 DEF Settled
<1> QED
  BY <1>6, <1>7, <1>8, <1>10 DEF Quiet

\* Every reachable state is sound, and quiet unless something disturbed the page.
THEOREM QuietInvariant == Spec => [](Basis /\ QuietOK)
<1>1. Basis /\ QuietOK /\ [Next]_vars => (Basis /\ QuietOK)'
  BY BasisStep, QuietStep
<1>2. Init => Basis /\ QuietOK
  BY BasisInit, QuietInit
<1> QED
  BY <1>1, <1>2, PTL DEF Spec

\* FrontInStep: however long the browser lives and whatever order its answers come in, an
\* undisturbed page with nothing in flight has an access token exactly when its refresh
\* cookie is good, says it is initialized only with a token, and shows a page.
THEOREM InStep == Spec => []FrontInStep
<1>1. ASSUME Basis, QuietOK, ~disturbed, reqs = <<>>
      PROVE  /\ token # None <=> Live(jar)
             /\ initialized => token # None
             /\ page # "loading"
  <2>1. DOMAIN reqs = {}
    BY <1>1
  <2>2. AllKeep /\ ~Asking
    BY <2>1 DEF AllKeep, Asking
  <2>3. token # None <=> Live(jar)
    BY <1>1, <2>2 DEF QuietOK, Quiet, Settled
  <2>4. (initialized => token # None) /\ page # "loading"
    BY <1>1, <2>1 DEF Basis, Sound
  <2> QED
    BY <2>3, <2>4
<1>2. Basis /\ QuietOK => FrontInStep
  BY <1>1 DEF FrontInStep
<1> QED
  BY <1>2, QuietInvariant, PTL

\* ExpelledOnlyIfDisturbed: the interceptor never ends a good session of an undisturbed
\* page.
THEOREM NotExpelled == Spec => []ExpelledOnlyIfDisturbed
<1>1. Basis /\ QuietOK => ExpelledOnlyIfDisturbed
  BY DEF QuietOK, Quiet, NoneFresh, ExpelledOnlyIfDisturbed
<1> QED
  BY <1>1, QuietInvariant, PTL

--------------------------------------------------------------------------------
\* A logout the page waits for.
Pending(rs) == \E i \in DOMAIN rs : rs[i].kind \in LogoutKinds /\ rs[i].heard

\* The answer to a logout is awaited until the token is gone: no navigation of the app, no
\* answer to another request and no fault makes the page forget that it signs out.
LogoutIsNotForgotten == [][Pending(reqs) => Pending(reqs') \/ token' = None]_vars

\* A request sent beside it leaves it.
LEMMA SendKeepsPending ==
  ASSUME TypeOK, Pending(reqs), NEW k \in Kinds,
         Send({k}, reqs) \/ Send({k}, Cancelled(reqs, {"guard"}))
  PROVE  Pending(reqs')
<1>1. PICK i \in DOMAIN reqs : reqs[i].kind \in LogoutKinds /\ reqs[i].heard
  BY DEF Pending
<1>2. reqs \in Seq(Request)
  BY DEF TypeOK
<1>3. reqs[i].kind # "guard"
  BY <1>1 DEF LogoutKinds, Redirected
<1>4. CASE Send({k}, reqs)
  <2>1. i \in DOMAIN reqs' /\ reqs'[i] = reqs[i]
    BY <1>2, <1>4, SendShape
  <2> QED
    BY <1>1, <2>1 DEF Pending
<1>5. CASE Send({k}, Cancelled(reqs, {"guard"}))
  <2>1. PICK rs : rs = Cancelled(reqs, {"guard"})
    OBVIOUS
  <2>2. rs \in Seq(Request) /\ DOMAIN rs = DOMAIN reqs /\ rs[i] = reqs[i]
    BY <1>2, <1>3, <2>1, CancelledShape
  <2>3. Send({k}, rs)
    BY <1>5, <2>1
  <2>4. i \in DOMAIN reqs' /\ reqs'[i] = rs[i]
    BY <2>2, <2>3, SendShape
  <2> QED
    BY <1>1, <2>2, <2>4 DEF Pending
<1> QED
  BY <1>4, <1>5

\* So does a guard's request that is cancelled.
LEMMA CancelKeepsPending ==
  ASSUME TypeOK, Pending(reqs), reqs' = Cancelled(reqs, {"guard"})
  PROVE  Pending(reqs')
<1>1. PICK i \in DOMAIN reqs : reqs[i].kind \in LogoutKinds /\ reqs[i].heard
  BY DEF Pending
<1>2. reqs[i].kind # "guard" /\ reqs \in Seq(Request)
  BY <1>1 DEF LogoutKinds, Redirected, TypeOK
<1>3. DOMAIN reqs' = DOMAIN reqs /\ reqs'[i] = reqs[i]
  BY <1>2, CancelledShape
<1> QED
  BY <1>1, <1>3 DEF Pending

\* So does an answer on its way, to it or to another.
LEMMA AnswerKeepsPending ==
  ASSUME TypeOK, Pending(reqs), NEW n \in DOMAIN reqs, NEW s, NEW h, NEW c, NEW fault,
         Answer(n, s, h, c, fault)
  PROVE  Pending(reqs')
<1>1. PICK i \in DOMAIN reqs : reqs[i].kind \in LogoutKinds /\ reqs[i].heard
  BY DEF Pending
<1>2. /\ DOMAIN reqs' = DOMAIN reqs
      /\ reqs'[n].kind = reqs[n].kind /\ reqs'[n].heard = reqs[n].heard
      /\ \A j \in DOMAIN reqs : j # n => reqs'[j] = reqs[j]
  BY AnswerShape
<1>3. reqs'[i].kind = reqs[i].kind /\ reqs'[i].heard = reqs[i].heard
  BY <1>2
<1> QED
  BY <1>1, <1>2, <1>3 DEF Pending

\* And an answer that arrives, unless it is the one awaited.
LEMMA ArriveKeepsPending ==
  ASSUME TypeOK, Pending(reqs), NEW n \in DOMAIN reqs, Arrive(n)
  PROVE  Pending(reqs') \/ token' = None
<1>1. PICK i \in DOMAIN reqs : reqs[i].kind \in LogoutKinds /\ reqs[i].heard
  BY DEF Pending
<1>2. CASE LogoutAnswered(n)
  BY <1>2 DEF LogoutAnswered, CleanTokens
<1>3. CASE PingAnswered(n) \/ CallAnswered(n) \/ LoginAnswered(n)
  <2>1. reqs' = Rest(n) /\ reqs[n].kind \in Initializing \cup {"call", "login"}
    BY <1>3 DEF PingAnswered, CallAnswered, LoginAnswered
  <2>2. i # n
    BY <1>1, <2>1 DEF Initializing, LogoutKinds, Redirected
  <2>3. \E m \in DOMAIN reqs' : reqs'[m] = reqs[i]
    BY <2>1, <2>2, RestShape
  <2> QED
    BY <1>1, <2>3 DEF Pending
<1>4. CASE Unheard(n)
  <2>1. reqs' = RemoveAt(reqs, n) /\ i # n
    BY <1>1, <1>4 DEF Unheard
  <2>2. \E m \in DOMAIN reqs' : reqs'[m] = reqs[i]
    BY <2>1, LeaveShape
  <2> QED
    BY <1>1, <2>2 DEF Pending
<1> QED
  BY <1>2, <1>3, <1>4 DEF Arrive

\* LogoutIsNotForgotten, the safety half of LogoutCleans: whatever else the page does, a
\* logout it has begun ends with the answer that takes the token, or with the page itself,
\* which takes the token with it.
THEOREM LogoutsAreNotForgotten == Spec => LogoutIsNotForgotten
<1>1. ASSUME TypeOK, [Next]_vars, Pending(reqs) PROVE Pending(reqs') \/ token' = None
  <2>1. CASE Reload \/ SsoReturn
    BY <2>1 DEF Reload, SsoReturn, Load
  <2>2. CASE \/ OpenCallback \/ OpenProfile \/ GoHome \/ CallApi \/ SubmitLogin \/ SignOut
    <3>1. {"callback", "guard", "call", "login", "signout"} \subseteq Kinds
      BY DEF Kinds, Initializing, LogoutKinds, Redirected
    <3>2. \/ reqs' = reqs
          \/ \E k \in Kinds : Send({k}, reqs) \/ Send({k}, Cancelled(reqs, {"guard"}))
      BY <2>2, <3>1 DEF OpenCallback, OpenProfile, GoHome, CallApi, SubmitLogin, SignOut
    <3>3. CASE reqs' = reqs
      BY <1>1, <3>3
    <3> QED
      BY <1>1, <3>2, <3>3, SendKeepsPending
  <2>3. ASSUME NEW n \in DOMAIN reqs, Serve(n) \/ Lost(n) PROVE Pending(reqs')
    <3>1. \E s, h, c, fault : Answer(n, s, h, c, fault)
      BY <2>3 DEF Serve, Lost, ServeWithoutCookie, ServeWithToken, ServeRotated, ServeReused,
         ServeBroken, ServeLogin, RefuseLogin, ServeLogout
    <3> QED
      BY <1>1, <3>1, AnswerKeepsPending
  <2>4. ASSUME NEW n \in DOMAIN reqs, Arrive(n) PROVE Pending(reqs') \/ token' = None
    BY <1>1, <2>4, ArriveKeepsPending
  <2>5. CASE ExpireToken \/ UNCHANGED vars
    BY <1>1, <2>5 DEF ExpireToken, vars
  <2>6. CASE GoToLogin
    BY <1>1, <2>6, CancelKeepsPending DEF GoToLogin
  <2> QED
    BY <1>1, <2>1, <2>2, <2>3, <2>4, <2>5, <2>6 DEF Next, User
<1>2. TypeOK /\ [Next]_vars => [Pending(reqs) => Pending(reqs') \/ token' = None]_vars
  BY <1>1
<1> QED
  BY <1>2, TypeCorrect, PTL DEF Spec, LogoutIsNotForgotten
==============================================================================
