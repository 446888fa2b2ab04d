--------------------------- MODULE GrantListingProofs ---------------------------
(***************************************************************************)
(* The pages of list_grants, for any scopes, keys, ids, filters and limits. *)
(***************************************************************************)
EXTENDS GrantListing, FiniteSetTheorems, TLAPS

--------------------------------------------------------------------------------
(* Pages of a finite set of ids.                                            *)

(* The ids of `ids` before g. *)
Before(ids, g) == {h \in ids : h < g}

LEMMA LeastNatural ==
  ASSUME NEW S \in SUBSET Nat, S # {}
  PROVE  \E m \in S : \A x \in S : m <= x
<1>1. PICK m \in S : \A x \in S : ~(<<x, m>> \in OpToRel(<, Nat))
  BY NatLessThanWellFounded, WFMin
<1>2. \A x \in S : ~(x < m)
  BY <1>1 DEF OpToRel
<1> QED
  BY <1>2

(* The last of the ids is the one with fewest after it. *)
LEMMA GreatestNatural ==
  ASSUME NEW S \in SUBSET Nat, IsFiniteSet(S), S # {}
  PROVE  \E m \in S : \A x \in S : x <= m
<1> DEFINE After(x) == {h \in S : h > x}
           Counts   == {Cardinality(After(x)) : x \in S}
<1>1. \A x \in S : IsFiniteSet(After(x)) /\ Cardinality(After(x)) \in Nat
  BY FS_Subset, FS_CardinalityType
<1>2. Counts \in SUBSET Nat /\ Counts # {}
  BY <1>1
<1>3. PICK n \in Counts : \A x \in Counts : n <= x
  BY <1>2, LeastNatural
<1>4. PICK m \in S : n = Cardinality(After(m))
  OBVIOUS
<1>5. ASSUME NEW y \in S, ~(y <= m) PROVE FALSE
  <2>1. m < y /\ ~(y < y) /\ \A h \in S : h > y => h > m
    BY <1>5
  <2>2. After(y) \subseteq After(m) /\ y \in After(m) /\ y \notin After(y)
    BY <2>1
  <2>3. /\ Cardinality(After(y)) <= Cardinality(After(m))
        /\ Cardinality(After(m)) = Cardinality(After(y)) => After(m) = After(y)
    BY <1>1, <2>2, FS_Subset
  <2>4. Cardinality(After(m)) <= Cardinality(After(y))
    BY <1>3, <1>4
  <2>5. Cardinality(After(m)) = Cardinality(After(y))
    <3>1. Cardinality(After(m)) \in Nat /\ Cardinality(After(y)) \in Nat
      BY <1>1
    <3> HIDE DEF After
    <3> QED
      BY <2>3, <2>4, <3>1
  <2> QED
    BY <2>2, <2>3, <2>5
<1> QED
  BY <1>5

(* The earlier an id, the fewer there are before it. *)
LEMMA EarlierHasFewer ==
  ASSUME NEW ids \in SUBSET Nat, IsFiniteSet(ids)
  PROVE  /\ \A g \in ids : /\ Cardinality(Before(ids, g)) \in Nat
                           /\ Cardinality(Before(ids, g)) < Cardinality(ids)
         /\ \A g, h \in ids : h < g => Cardinality(Before(ids, h)) <= Cardinality(Before(ids, g))
<1>1. \A g \in ids : /\ Before(ids, g) \in SUBSET ids /\ IsFiniteSet(Before(ids, g))
                     /\ g \notin Before(ids, g)
  BY FS_Subset DEF Before
<1>2. \A g \in ids : Cardinality(Before(ids, g)) \in Nat /\ Cardinality(ids) \in Nat
  BY <1>1, FS_CardinalityType
<1>3. \A g \in ids : Cardinality(Before(ids, g)) < Cardinality(ids)
  BY <1>1, <1>2, FS_Subset
<1>4. ASSUME NEW g \in ids, NEW h \in ids, h < g
      PROVE  Cardinality(Before(ids, h)) <= Cardinality(Before(ids, g))
  <2>1. g \in Nat /\ h \in Nat /\ \A x \in ids : x \in Nat
    OBVIOUS
  <2>2. \A x \in ids : x < h => x < g
    BY <1>4, <2>1
  <2>3. Before(ids, h) \in SUBSET Before(ids, g)
    BY <2>2 DEF Before
  <2> QED
    BY <1>1, <2>3, FS_Subset
<1> QED
  BY <1>2, <1>3, <1>4

(* A page is a prefix of the ids, and the whole of few enough. *)
LEMMA PageIsPrefix ==
  ASSUME NEW ids \in SUBSET Nat, IsFiniteSet(ids), NEW n \in Nat
  PROVE  /\ \A g \in FirstOf(ids, n), h \in ids : h < g => h \in FirstOf(ids, n)
         /\ Cardinality(ids) <= n => FirstOf(ids, n) = ids
<1>1. \A g \in ids : g \in FirstOf(ids, n) <=> Cardinality(Before(ids, g)) < n
  BY DEF FirstOf, Before
<1>2. \A g \in FirstOf(ids, n) : g \in ids
  BY DEF FirstOf
<1>3. ASSUME NEW g \in FirstOf(ids, n), NEW h \in ids, h < g PROVE h \in FirstOf(ids, n)
  <2>1. g \in ids /\ Cardinality(Before(ids, g)) < n
    BY <1>1, <1>2
  <2>2. Cardinality(Before(ids, h)) <= Cardinality(Before(ids, g))
    BY <1>3, <2>1, EarlierHasFewer
  <2>3. Cardinality(Before(ids, g)) \in Nat /\ Cardinality(Before(ids, h)) \in Nat
    BY <2>1, EarlierHasFewer
  <2> QED
    BY <1>1, <2>1, <2>2, <2>3
<1>4. ASSUME Cardinality(ids) <= n PROVE FirstOf(ids, n) = ids
  <2>1. Cardinality(ids) \in Nat
    BY FS_CardinalityType
  <2>2. ASSUME NEW g \in ids PROVE g \in FirstOf(ids, n)
    <3>1. /\ Cardinality(Before(ids, g)) \in Nat
          /\ Cardinality(Before(ids, g)) < Cardinality(ids)
      BY EarlierHasFewer
    <3> QED
      BY <1>1, <1>4, <2>1, <3>1
  <2> QED
    BY <1>2, <2>2
<1> QED
  BY <1>3, <1>4

LEMMA FirstIsOnPage ==
  ASSUME NEW ids \in SUBSET Nat, ids # {}, NEW n \in Nat \ {0}
  PROVE  FirstOf(ids, n) # {}
<1>1. PICK m \in ids : \A x \in ids : m <= x
  BY LeastNatural
<1>2. m \in Nat /\ \A x \in ids : x \in Nat /\ ~(x < m)
  BY <1>1
<1>3. {h \in ids : h < m} = {}
  BY <1>2
<1> QED
  BY <1>3, FS_EmptySet DEF FirstOf

(* The page of a longer page is that of all the ids. *)
LEMMA PageOfRows ==
  ASSUME NEW ids \in SUBSET Nat, IsFiniteSet(ids), NEW n \in Nat
  PROVE  FirstOf(FirstOf(ids, n + 1), n) = FirstOf(ids, n)
<1> DEFINE rows == FirstOf(ids, n + 1)
<1>1. rows \in SUBSET ids
  BY DEF FirstOf
<1>2. ASSUME NEW g \in rows PROVE {h \in rows : h < g} = {h \in ids : h < g}
  <2>1. \A h \in ids : h < g => h \in rows
    BY PageIsPrefix
  <2> HIDE DEF rows
  <2> QED
    BY <1>1, <2>1
<1>3. \A g \in ids : Cardinality({h \in ids : h < g}) \in Nat
  BY EarlierHasFewer DEF Before
<1>4. ASSUME NEW g \in ids, Cardinality({h \in ids : h < g}) < n PROVE g \in rows
  BY <1>3, <1>4 DEF FirstOf
<1> HIDE DEF rows
<1>5. FirstOf(rows, n) = {g \in rows : Cardinality({h \in ids : h < g}) < n}
  BY <1>2 DEF FirstOf
<1> QED
  BY <1>1, <1>4, <1>5 DEF FirstOf, rows

(* One row more than the page holds tells whether there is a next page. *)
LEMMA OneRowMore ==
  ASSUME NEW ids \in SUBSET Nat, IsFiniteSet(ids), NEW n \in Nat
  PROVE  Cardinality(FirstOf(ids, n + 1)) > n <=> Cardinality(ids) > n
<1> DEFINE rows == FirstOf(ids, n + 1)
<1>1. rows \in SUBSET ids /\ IsFiniteSet(rows) /\ Cardinality(rows) <= Cardinality(ids)
  <2>1. rows \in SUBSET ids
    BY DEF FirstOf
  <2> QED
    BY <2>1, FS_Subset
<1>2. Cardinality(rows) \in Nat /\ Cardinality(ids) \in Nat
  BY <1>1, FS_CardinalityType
<1>3. ASSUME Cardinality(ids) > n, ~(Cardinality(rows) > n) PROVE FALSE
  <2>1. ids \ rows # {} /\ ids \ rows \in SUBSET Nat
    <3>1. rows # ids
      BY <1>3
    <3> HIDE DEF rows
    <3> QED
      BY <1>1, <3>1
  <2>2. PICK g \in ids \ rows : \A x \in ids \ rows : g <= x
    BY <2>1, LeastNatural
  <2>3. Before(ids, g) \in SUBSET rows
    <3> HIDE DEF rows
    <3>1. g \in Nat /\ \A x \in ids : x \in Nat /\ (x \notin rows => ~(x < g))
      BY <2>2
    <3> QED
      BY <3>1 DEF Before
  <2>4. Cardinality(Before(ids, g)) <= Cardinality(rows) /\ Cardinality(Before(ids, g)) \in Nat
    BY <1>1, <2>2, <2>3, FS_Subset, EarlierHasFewer
  <2>5. ~(Cardinality(Before(ids, g)) < n + 1)
    BY <2>2 DEF FirstOf, Before
  <2> QED
    BY <1>2, <1>3, <2>4, <2>5
<1> QED
  BY <1>1, <1>2, <1>3

(* The cursor of a page: its last id. *)
LEMMA LastOfPage ==
  ASSUME NEW ids \in SUBSET Nat, IsFiniteSet(ids), ids # {}
  PROVE  LastOf(ids) \in ids /\ \A h \in ids : h <= LastOf(ids)
BY GreatestNatural DEF LastOf

(* The cursor parts what the page holds from what it leaves. *)
LEMMA PagesAndCursors ==
  ASSUME NEW left \in SUBSET GrantIds, NEW n \in Nat \ {0}, NEW next,
         next = IF Cardinality(FirstOf(left, n + 1)) > n
                THEN LastOf(FirstOf(left, n)) ELSE NULL
  PROVE  /\ next = NULL => Cardinality(left) <= n /\ FirstOf(left, n) = left
         /\ Cardinality(left) <= n => next = NULL
         /\ next # NULL => /\ next \in FirstOf(left, n)
                           /\ \A g \in FirstOf(left, n) : g <= next
                           /\ \A g \in left \ FirstOf(left, n) : g > next
<1>1. /\ left \in SUBSET Nat /\ IsFiniteSet(left) /\ Cardinality(left) \in Nat
      /\ NULL \notin GrantIds
  <2>1. GrantIds \subseteq Nat /\ IsFiniteSet(GrantIds)
    BY ListingAssumption
  <2>2. IsFiniteSet(left)
    BY <2>1, FS_Subset
  <2>3. Cardinality(left) \in Nat
    BY <2>2, FS_CardinalityType
  <2>4. NULL \notin Nat
    BY TablesAssumption
  <2> QED
    BY <2>1, <2>2, <2>3, <2>4
<1>2. Cardinality(FirstOf(left, n + 1)) > n <=> Cardinality(left) > n
  BY <1>1, OneRowMore
<1>3. FirstOf(left, n) \in SUBSET left /\ IsFiniteSet(FirstOf(left, n))
  <2>1. FirstOf(left, n) \in SUBSET left
    BY DEF FirstOf
  <2> QED
    BY <1>1, <2>1, FS_Subset
<1>4. CASE Cardinality(left) <= n
  <2>1. next = NULL
    BY <1>1, <1>2, <1>4
  <2> QED
    BY <1>1, <1>4, <2>1, PageIsPrefix
<1>5. CASE ~(Cardinality(left) <= n)
  <2>1. next = LastOf(FirstOf(left, n))
    BY <1>1, <1>2, <1>5
  <2>2. left # {}
    BY <1>1, <1>5, FS_EmptySet
  <2>3. FirstOf(left, n) # {}
    BY <1>1, <2>2, FirstIsOnPage
  <2>4. next \in FirstOf(left, n) /\ \A g \in FirstOf(left, n) : g <= next
    BY <1>1, <1>3, <2>1, <2>3, LastOfPage
  <2>5. ASSUME NEW g \in left \ FirstOf(left, n) PROVE g > next
    <3>1. ~(g < next)
      BY <1>1, <2>4, <2>5, PageIsPrefix
    <3> QED
      BY <1>1, <1>3, <2>4, <2>5, <3>1
  <2> QED
    BY <1>1, <1>3, <1>5, <2>4, <2>5
<1> QED
  BY <1>4, <1>5

--------------------------------------------------------------------------------
(* What the service does to a scope.                                        *)

Tables == [GrantIds -> Grant \cup {NoRow}]

Phases == {"idle", "asked", "open", "done"}

(* The service's state is typed: what a put asks for can be stored. *)
ServiceInv ==
  /\ clock \in Nat
  /\ policy \in [Scopes -> Nat]
  /\ facts \in Tables
  /\ phase \in [Callers -> Phases]
  /\ request \in [Callers -> Requests \cup {NULL}]
  /\ opened \in [Callers -> Nat]
  /\ \A c \in Callers : phase[c] \in {"asked", "open"} => request[c] \in Requests

InScope(view, g, s) == view[g] # NoRow /\ view[g].scope = s

(* Two states of the table that are one to a reader of scope s. *)
SameIn(s, view, other) ==
  \A g \in GrantIds : InScope(view, g, s) \/ InScope(other, g, s) => view[g] = other[g]

(* `past` holds the tables of each of a scope's revisions. *)
PastInv ==
  /\ past \in [Scopes -> Seq(Tables)]
  /\ \A s \in Scopes : /\ Len(past[s]) = policy[s] + 1
                       /\ SameIn(s, past[s][policy[s] + 1], facts)

(* A scope's grants change together with its revision, or not at all. *)
ScopeSteps ==
  \A s \in Scopes : \/ policy'[s] = policy[s] /\ SameIn(s, facts, facts')
                    \/ policy'[s] = policy[s] + 1

LEMMA QuietService ==
  ASSUME ServiceInv, UNCHANGED <<clock, policy, facts, phase, request, opened>>
  PROVE  ServiceInv' /\ ScopeSteps
BY DEF ServiceInv, ScopeSteps, SameIn

(* A call's answer leaves the other calls alone. *)
LEMMA AnswerService ==
  ASSUME ServiceInv, NEW c \in Callers, NEW reply, Service!Answer(c, reply),
         policy' \in [Scopes -> Nat], facts' \in Tables
  PROVE  ServiceInv'
<1>1. /\ clock' \in Nat /\ phase' \in [Callers -> Phases]
      /\ request' \in [Callers -> Requests \cup {NULL}] /\ opened' \in [Callers -> Nat]
  BY DEF ServiceInv, Service!Answer, Phases
<1>2. ASSUME NEW d \in Callers, phase'[d] \in {"asked", "open"} PROVE request'[d] \in Requests
  BY <1>2 DEF ServiceInv, Service!Answer
<1> QED
  BY <1>1, <1>2 DEF ServiceInv

(* The instant of a mutation: one grant of one scope. *)
LEMMA EffectService ==
  ASSUME ServiceInv, NEW c \in Callers, NEW g \in GrantIds, NEW fact \in Grant,
         facts[g] = NoRow \/ facts[g].scope = fact.scope,
         Service!TakeEffect(c, g, fact)
  PROVE  ServiceInv' /\ ScopeSteps
<1> DEFINE s == fact.scope
<1>1. s \in Scopes
  BY DEF Grant
<1>2. /\ facts' = [facts EXCEPT ![g] = fact]
      /\ policy' = [policy EXCEPT ![s] = IF fact # facts[g] THEN policy[s] + 1 ELSE policy[s]]
      /\ \E reply : Service!Answer(c, reply)
  BY DEF Service!TakeEffect
<1>3. policy' \in [Scopes -> Nat] /\ facts' \in Tables
  BY <1>1, <1>2 DEF ServiceInv, Tables
<1>4. ServiceInv'
  BY <1>2, <1>3, AnswerService
<1>5. ASSUME NEW t \in Scopes
      PROVE  \/ policy'[t] = policy[t] /\ SameIn(t, facts, facts')
             \/ policy'[t] = policy[t] + 1
  <2>1. \A h \in GrantIds \ {g} : facts'[h] = facts[h]
    BY <1>2 DEF ServiceInv, Tables
  <2>2. facts'[g] = fact
    BY <1>2 DEF ServiceInv, Tables
  <2>3. CASE t # s
    <3>1. policy'[t] = policy[t]
      BY <1>2, <2>3 DEF ServiceInv
    <3>2. SameIn(t, facts, facts')
      BY <2>1, <2>2, <2>3 DEF SameIn, InScope
    <3> QED
      BY <3>1, <3>2
  <2>4. CASE t = s /\ fact = facts[g]
    <3>1. policy'[t] = policy[t]
      BY <1>2, <2>4 DEF ServiceInv
    <3>2. SameIn(t, facts, facts')
      BY <2>1, <2>2, <2>4 DEF SameIn
    <3> QED
      BY <3>1, <3>2
  <2>5. CASE t = s /\ fact # facts[g]
    BY <1>1, <1>2, <2>5 DEF ServiceInv
  <2> QED
    BY <2>3, <2>4, <2>5
<1> QED
  BY <1>4, <1>5 DEF ScopeSteps

LEMMA PutService ==
  ASSUME ServiceInv, NEW c \in Callers, Service!Put(c)
  PROVE  ServiceInv' /\ ScopeSteps
<1> DEFINE q    == request[c]
           held == Service!Holding(q.scope, q.key)
           fact == [scope |-> q.scope, key |-> q.key, limit |-> q.limit,
                    expires_at |-> q.expires_at, revoked_at |-> NULL]
<1>1. q \in Requests /\ q.op = "put"
  BY DEF Service!Put, ServiceInv
<1>2. fact \in Grant
  BY <1>1, ListingAssumption DEF Grant, Instants
<1>3. PICK g \in (IF held = {} THEN GrantIds \ Service!Issued ELSE held) :
        Service!TakeEffect(c, g, fact)
  BY DEF Service!Put
<1>4. g \in GrantIds /\ (facts[g] = NoRow \/ facts[g].scope = fact.scope)
  BY <1>3 DEF Service!Holding, Service!Issued
<1> HIDE DEF fact
<1> QED
  BY <1>2, <1>3, <1>4, EffectService

LEMMA RevokeService ==
  ASSUME ServiceInv, NEW c \in Callers, Service!Revoke(c)
  PROVE  ServiceInv' /\ ScopeSteps
<1> DEFINE g    == request[c].id
           fact == IF facts[g].revoked_at # NULL THEN facts[g]
                   ELSE [facts[g] EXCEPT !.revoked_at = opened[c]]
<1>1. g \in GrantIds /\ facts[g] \in Grant
  BY DEF Service!Revoke, Service!Issued, ServiceInv, Tables
<1>2. opened[c] \in Instants
  BY DEF ServiceInv, Instants
<1>3. fact \in Grant /\ fact.scope = facts[g].scope
  BY <1>1, <1>2 DEF Grant
<1>4. Service!TakeEffect(c, g, fact)
  BY DEF Service!Revoke
<1> HIDE DEF fact, g
<1> QED
  BY <1>1, <1>3, <1>4, EffectService

(* The other steps of a call change no table. *)
LEMMA CallService ==
  ASSUME ServiceInv, NEW c \in Callers,
         \/ Service!Ask(c) \/ Service!Refuse(c) \/ Service!Open(c)
         \/ Service!RevokeNothing(c) \/ Service!Query(c) \/ Service!Abandon(c)
         \/ Service!Return(c)
  PROVE  ServiceInv' /\ ScopeSteps
<1>1. UNCHANGED <<policy, facts>>
  BY DEF Service!Ask, Service!Refuse, Service!Open, Service!RevokeNothing, Service!Query,
         Service!Abandon, Service!Return
<1>2. ScopeSteps
  BY <1>1 DEF ScopeSteps, SameIn
<1>3. policy' \in [Scopes -> Nat] /\ facts' \in Tables
  BY <1>1 DEF ServiceInv
<1>4. CASE Service!Ask(c)
  <2>1. /\ clock' \in Nat /\ phase' \in [Callers -> Phases]
        /\ request' \in [Callers -> Requests \cup {NULL}] /\ opened' \in [Callers -> Nat]
    BY <1>4 DEF Service!Ask, ServiceInv, Phases
  <2>2. ASSUME NEW d \in Callers, phase'[d] \in {"asked", "open"} PROVE request'[d] \in Requests
    BY <1>4, <2>2 DEF Service!Ask, ServiceInv
  <2> QED
    BY <1>2, <1>3, <2>1, <2>2 DEF ServiceInv
<1>5. CASE Service!Open(c)
  <2>1. /\ clock' \in Nat /\ phase' \in [Callers -> Phases]
        /\ request' \in [Callers -> Requests \cup {NULL}] /\ opened' \in [Callers -> Nat]
    BY <1>5 DEF Service!Open, ServiceInv, Phases
  <2>2. ASSUME NEW d \in Callers, phase'[d] \in {"asked", "open"} PROVE request'[d] \in Requests
    BY <1>5, <2>2 DEF Service!Open, ServiceInv
  <2> QED
    BY <1>2, <1>3, <2>1, <2>2 DEF ServiceInv
<1>6. CASE Service!Return(c)
  <2>1. /\ clock' \in Nat /\ phase' \in [Callers -> Phases]
        /\ request' \in [Callers -> Requests \cup {NULL}] /\ opened' \in [Callers -> Nat]
    BY <1>6 DEF Service!Return, ServiceInv, Phases
  <2>2. ASSUME NEW d \in Callers, phase'[d] \in {"asked", "open"} PROVE request'[d] \in Requests
    BY <1>6, <2>2 DEF Service!Return, ServiceInv
  <2> QED
    BY <1>2, <1>3, <2>1, <2>2 DEF ServiceInv
<1>7. CASE \E reply : Service!Answer(c, reply)
  BY <1>2, <1>3, <1>7, AnswerService
<1>8. CASE Service!Refuse(c) \/ Service!RevokeNothing(c) \/ Service!Query(c) \/ Service!Abandon(c)
  <2>1. \E reply : Service!Answer(c, reply)
    BY <1>8 DEF Service!Refuse, Service!RevokeNothing, Service!Query, Service!Abandon
  <2> QED
    BY <1>7, <2>1
<1> QED
  BY <1>2, <1>4, <1>5, <1>6, <1>8

LEMMA ServiceSteps ==
  ASSUME ServiceInv, Service!Next
  PROVE  ServiceInv' /\ ScopeSteps
<1>1. CASE Service!Tick
  <2>1. clock' \in Nat
    BY <1>1, TablesAssumption DEF Service!Tick, ServiceInv
  <2> QED
    BY <1>1, <2>1 DEF Service!Tick, ServiceInv, ScopeSteps, SameIn
<1>2. ASSUME NEW c \in Callers,
             \/ Service!Ask(c) \/ Service!Refuse(c) \/ Service!Open(c) \/ Service!Put(c)
             \/ Service!Revoke(c) \/ Service!RevokeNothing(c) \/ Service!Query(c)
             \/ Service!Abandon(c) \/ Service!Return(c)
      PROVE  ServiceInv' /\ ScopeSteps
  BY <1>2, PutService, RevokeService, CallService
<1> QED
  BY <1>1, <1>2 DEF Service!Next

--------------------------------------------------------------------------------
(* What a step does to the history.                                         *)

(* The revisions a scope has had stay what they were. *)
HistoryGrows ==
  \A s \in Scopes : /\ policy'[s] \in Nat /\ policy'[s] >= policy[s]
                    /\ \A i \in 1..(policy[s] + 1) : past'[s][i] = past[s][i]

LEMMA TrackPast ==
  ASSUME ServiceInv, ServiceInv', ScopeSteps, PastInv, Track
  PROVE  PastInv' /\ HistoryGrows
<1>1. past' = [s \in Scopes |-> IF policy'[s] = policy[s] THEN past[s]
                                ELSE Append(past[s], facts')]
  BY DEF Track
<1>2. ASSUME NEW s \in Scopes
      PROVE  /\ past'[s] \in Seq(Tables)
             /\ Len(past'[s]) = policy'[s] + 1
             /\ SameIn(s, past'[s][policy'[s] + 1], facts')
             /\ policy'[s] \in Nat /\ policy'[s] >= policy[s]
             /\ \A i \in 1..(policy[s] + 1) : past'[s][i] = past[s][i]
  <2>1. /\ past[s] \in Seq(Tables) /\ Len(past[s]) = policy[s] + 1
        /\ SameIn(s, past[s][policy[s] + 1], facts)
        /\ policy[s] \in Nat /\ facts' \in Tables
    BY DEF PastInv, ServiceInv
  <2>2. CASE policy'[s] = policy[s] /\ SameIn(s, facts, facts')
    <3>1. past'[s] = past[s]
      BY <1>1, <2>2
    <3>2. SameIn(s, past[s][policy[s] + 1], facts')
      BY <2>1, <2>2 DEF SameIn, InScope
    <3> QED
      BY <2>1, <2>2, <3>1, <3>2
  <2>3. CASE policy'[s] = policy[s] + 1
    <3>1. past'[s] = Append(past[s], facts')
      BY <1>1, <2>1, <2>3
    <3>2. /\ Append(past[s], facts') \in Seq(Tables)
          /\ Len(Append(past[s], facts')) = policy[s] + 2
          /\ Append(past[s], facts')[policy[s] + 2] = facts'
          /\ \A i \in 1..(policy[s] + 1) : Append(past[s], facts')[i] = past[s][i]
      BY <2>1
    <3>3. SameIn(s, facts', facts')
      BY DEF SameIn
    <3>4. policy'[s] + 1 = policy[s] + 2
      BY <2>1, <2>3
    <3> QED
      BY <2>1, <2>3, <3>1, <3>2, <3>3, <3>4
  <2> QED
    BY <2>2, <2>3 DEF ScopeSteps
<1>3. past' \in [Scopes -> Seq(Tables)]
  BY <1>1, <1>2
<1> QED
  BY <1>2, <1>3 DEF PastInv, HistoryGrows

(* What is left of a walk's standing grants after a step of it. *)
SteadyShrinks(l) ==
  \A g \in steady'[l] : /\ g \in steady[l] /\ facts'[g] = facts[g]
                        /\ g \in Matching(facts', query'[l], clock')

LEMMA TrackSteady ==
  ASSUME NEW l \in Listers, Track, query'[l] = query[l]
  PROVE  SteadyShrinks(l)
BY DEF Track, SteadyShrinks

--------------------------------------------------------------------------------
(* The invariant of a walk.                                                 *)

InTransaction == Awaits \ {"begin"}

Walking == Awaits \cup {"page", "failed"}

Stages == Walking \cup {"idle", "walked", "refused"}

Transactions == [started : Nat, repeatable : BOOLEAN, view : Tables \cup {NoRow},
                 revision : Nat, rows : SUBSET GrantIds]

TypeInv ==
  /\ stage \in [Listers -> Stages]
  /\ cursor \in [Listers -> GrantIds \cup {NULL}]
  /\ listed \in [Listers -> SUBSET GrantIds]
  /\ tx \in [Listers -> Transactions]
  /\ query = [l \in Listers |-> query[l]]
  /\ page = [l \in Listers |-> page[l]]

(* All that was listed is at or before the cursor. *)
WalkInv(l) ==
  /\ stage[l] \in {"idle", "refused"} => cursor[l] = NULL /\ listed[l] = {}
  /\ stage[l] \in Walking =>
       /\ query[l] \in Queries /\ ValidQuery(query[l])
       /\ \A g \in listed[l] : cursor[l] # NULL /\ g <= cursor[l]

(* What a transaction has read is its scope at one revision. *)
ReadInv(l) ==
  /\ stage[l] \in {"read_revision", "read_rows", "commit"} => tx[l].repeatable
  /\ stage[l] \in {"read_rows", "commit"} =>
       LET s == query[l].scope IN
       /\ tx[l].view \in Tables
       /\ tx[l].revision \in 0..policy[s]
       /\ SameIn(s, past[s][tx[l].revision + 1], tx[l].view)
  /\ stage[l] = "commit" =>
       tx[l].rows = FirstOf(Beyond(Matching(tx[l].view, query[l], tx[l].started), cursor[l]),
                            query[l].limit + 1)

(* A page is the first of what its revision has beyond the cursor. *)
PageInv(l) ==
  stage[l] = "page" =>
    LET p    == page[l]
        q    == query[l]
        then == past[q.scope][p.policy_revision + 1]
        left == Beyond(Matching(then, q, p.at), cursor[l])
    IN /\ p.policy_revision \in 0..policy[q.scope] /\ p.at \in Nat
       /\ DOMAIN p.items = FirstOf(left, q.limit)
       /\ \A g \in DOMAIN p.items : p.items[g] = Item(then, g, p.at)
       /\ p.next_cursor = NULL <=> Cardinality(left) <= q.limit
       /\ p.next_cursor # NULL => /\ p.next_cursor \in DOMAIN p.items
                                  /\ \A g \in DOMAIN p.items : g <= p.next_cursor

(* A grant that stands throughout is listed once the cursor has passed it. *)
StandingInv(l) ==
  /\ stage[l] \in Walking =>
       \A g \in steady[l] : cursor[l] # NULL /\ g <= cursor[l] => g \in listed[l]
  /\ stage[l] \in InTransaction =>
       \A g \in steady[l] : g \in Matching(facts, query[l], tx[l].started)
  /\ stage[l] \in {"read_rows", "commit"} => \A g \in steady[l] : tx[l].view[g] = facts[g]
  /\ stage[l] = "page" =>
       \A g \in steady[l] : \/ cursor[l] # NULL /\ g <= cursor[l]
                            \/ g \in DOMAIN page[l].items
                            \/ page[l].next_cursor # NULL /\ g > page[l].next_cursor
  /\ stage[l] = "walked" => steady[l] \subseteq listed[l]

ListerInv(l) == WalkInv(l) /\ ReadInv(l) /\ PageInv(l) /\ StandingInv(l)

IInv ==
  /\ ServiceInv /\ PastInv /\ TypeInv
  /\ \A l \in Listers : ListerInv(l)

(* Every walk reads only its own scope. *)
LEMMA ScopeIsEnough ==
  ASSUME NEW q, NEW view, NEW other, NEW now, SameIn(q.scope, view, other)
  PROVE  /\ Matching(view, q, now) = Matching(other, q, now)
         /\ \A g \in Matching(view, q, now) : /\ view[g] = other[g]
                                              /\ Item(view, g, now) = Item(other, g, now)
<1>1. ASSUME NEW g \in GrantIds, view[g] # other[g]
      PROVE  g \notin Matching(view, q, now) /\ g \notin Matching(other, q, now)
  BY <1>1 DEF SameIn, InScope, Matching
<1>2. \A g \in GrantIds : view[g] = other[g] =>
        (g \in Matching(view, q, now) <=> g \in Matching(other, q, now))
  BY DEF Matching
<1>3. Matching(view, q, now) \subseteq GrantIds /\ Matching(other, q, now) \subseteq GrantIds
  BY DEF Matching
<1>4. Matching(view, q, now) = Matching(other, q, now)
  BY <1>1, <1>2, <1>3
<1>5. \A g \in Matching(view, q, now) : view[g] = other[g]
  BY <1>1, <1>3
<1> QED
  BY <1>4, <1>5 DEF Item

LEMMA InitListing == Init => IInv
<1> SUFFICES ASSUME Init PROVE IInv
  OBVIOUS
<1>1. ServiceInv
  BY DEF Init, Service!Init, ServiceInv, Tables, Phases
<1>2. PastInv
  <2>1. facts \in Tables /\ past = [s \in Scopes |-> <<facts>>] /\ policy = [s \in Scopes |-> 0]
    BY <1>1 DEF Init, Service!Init, ServiceInv
  <2>2. <<facts>> \in Seq(Tables) /\ Len(<<facts>>) = 0 + 1 /\ <<facts>>[0 + 1] = facts
    BY <2>1
  <2> QED
    BY <2>1, <2>2 DEF PastInv, SameIn
<1>3. NoTx \in Transactions
  BY DEF NoTx, Transactions
<1>4. TypeInv
  BY <1>3 DEF Init, TypeInv, Stages
<1>5. ASSUME NEW l \in Listers PROVE ListerInv(l)
  BY DEF Init, ListerInv, WalkInv, ReadInv, PageInv, StandingInv, Walking, InTransaction, Awaits
<1> QED
  BY <1>1, <1>2, <1>4, <1>5 DEF IInv

--------------------------------------------------------------------------------
(* Steps that leave a lister where it is.                                   *)

Unmoved(l) ==
  /\ stage'[l] = stage[l] /\ query'[l] = query[l] /\ cursor'[l] = cursor[l]
  /\ tx'[l] = tx[l] /\ page'[l] = page[l] /\ listed'[l] = listed[l]

LEMMA UnmovedRead ==
  ASSUME IInv, HistoryGrows, NEW l \in Listers, Unmoved(l)
  PROVE  ReadInv(l)'
<1>1. ReadInv(l) /\ WalkInv(l)
  BY DEF IInv, ListerInv
<1>2. ASSUME stage[l] \in {"read_rows", "commit"}
      PROVE  LET s == query[l].scope IN
             /\ tx[l].revision \in 0..policy'[s]
             /\ past'[s][tx[l].revision + 1] = past[s][tx[l].revision + 1]
  <2>1. query[l].scope \in Scopes
    BY <1>1, <1>2 DEF WalkInv, Walking, Awaits, Queries
  <2>2. policy[query[l].scope] \in Nat /\ tx[l].revision \in 0..policy[query[l].scope]
    BY <1>1, <1>2, <2>1 DEF ReadInv, IInv, ServiceInv
  <2> QED
    BY <2>1, <2>2 DEF HistoryGrows
<1> QED
  BY <1>1, <1>2 DEF ReadInv, Unmoved

LEMMA UnmovedPage ==
  ASSUME IInv, HistoryGrows, NEW l \in Listers, Unmoved(l)
  PROVE  PageInv(l)'
<1>1. PageInv(l) /\ WalkInv(l)
  BY DEF IInv, ListerInv
<1>2. ASSUME stage[l] = "page"
      PROVE  LET s == query[l].scope
                 n == page[l].policy_revision IN
             n \in 0..policy'[s] /\ past'[s][n + 1] = past[s][n + 1]
  <2>1. query[l].scope \in Scopes
    BY <1>1, <1>2 DEF WalkInv, Walking, Awaits, Queries
  <2>2. policy[query[l].scope] \in Nat /\ page[l].policy_revision \in 0..policy[query[l].scope]
    BY <1>1, <1>2, <2>1 DEF PageInv, IInv, ServiceInv
  <2> QED
    BY <2>1, <2>2 DEF HistoryGrows
<1> QED
  BY <1>1, <1>2 DEF PageInv, Unmoved

LEMMA UnmovedLister ==
  ASSUME IInv, HistoryGrows, NEW l \in Listers, Unmoved(l), SteadyShrinks(l)
  PROVE  ListerInv(l)'
<1>1. WalkInv(l)' /\ ReadInv(l)' /\ PageInv(l)'
  BY UnmovedRead, UnmovedPage DEF IInv, ListerInv, WalkInv, Unmoved
<1>2. \A g \in GrantIds : facts'[g] = facts[g] =>
        \A now : g \in Matching(facts, query[l], now) => g \in Matching(facts', query[l], now)
  BY DEF Matching
<1>3. StandingInv(l)'
  BY <1>2 DEF StandingInv, IInv, ListerInv, Unmoved, SteadyShrinks, Matching
<1> QED
  BY <1>1, <1>3 DEF ListerInv

(* A lister's own step needs to keep only its own part. *)
LEMMA OneLister ==
  ASSUME IInv, NEW l \in Listers, UNCHANGED service, Track,
         \A d \in Listers \ {l} : Unmoved(d), TypeInv',
         HistoryGrows => ListerInv(l)'
  PROVE  IInv'
<1>1. ServiceInv' /\ ScopeSteps
  BY QuietService DEF IInv, service
<1>2. PastInv' /\ HistoryGrows
  BY <1>1, TrackPast DEF IInv
<1>3. ASSUME NEW d \in Listers \ {l} PROVE ListerInv(d)'
  BY <1>2, UnmovedLister, TrackSteady DEF Unmoved
<1> QED
  BY <1>1, <1>2, <1>3 DEF IInv

--------------------------------------------------------------------------------
(* The steps of a walk, one by one.                                         *)

LEMMA ListGrantsKeeps ==
  ASSUME IInv, NEW l \in Listers, ListGrants(l)
  PROVE  IInv'
<1>1. /\ stage[l] = "idle" /\ UNCHANGED <<service, cursor, tx, page, listed>> /\ Track
      /\ \/ /\ stage' = [stage EXCEPT ![l] = "begin"]
            /\ \E q \in Queries : ValidQuery(q) /\ query' = [query EXCEPT ![l] = q]
         \/ stage' = [stage EXCEPT ![l] = "refused"] /\ query' = query
  BY DEF ListGrants, Goto
<1>2. TypeInv'
  BY <1>1 DEF IInv, TypeInv, Stages, Walking, Awaits
<1>3. /\ \/ stage'[l] = "begin" /\ query'[l] \in Queries /\ ValidQuery(query'[l])
         \/ stage'[l] = "refused"
      /\ cursor'[l] = NULL /\ listed'[l] = {}
  BY <1>1 DEF IInv, TypeInv, ListerInv, WalkInv
<1>4. ListerInv(l)'
  BY <1>3 DEF ListerInv, WalkInv, ReadInv, PageInv, StandingInv, InTransaction, Walking, Awaits
<1>5. \A d \in Listers \ {l} : Unmoved(d)
  BY <1>1 DEF Unmoved, IInv, TypeInv
<1> QED
  BY <1>1, <1>2, <1>4, <1>5, OneLister

LEMMA BeginKeeps ==
  ASSUME IInv, NEW l \in Listers, Begin(l)
  PROVE  IInv'
<1>1. /\ stage[l] = "begin" /\ stage' = [stage EXCEPT ![l] = "set_isolation"]
      /\ tx' = [tx EXCEPT ![l].started = clock]
      /\ UNCHANGED <<service, query, cursor, page, listed>> /\ Track
  BY DEF Begin, Goto
<1>2. TypeInv'
  BY <1>1 DEF IInv, ServiceInv, TypeInv, Stages, Walking, Awaits, Transactions
<1>3. stage'[l] = "set_isolation" /\ tx'[l].started = clock
  BY <1>1 DEF IInv, TypeInv, Transactions
<1>4. SteadyShrinks(l)
  BY <1>1, TrackSteady
<1>5. WalkInv(l)' /\ ReadInv(l)' /\ PageInv(l)'
  BY <1>1, <1>3 DEF IInv, ListerInv, WalkInv, ReadInv, PageInv, Walking, Awaits
<1>6. StandingInv(l)'
  BY <1>1, <1>3, <1>4 DEF IInv, ListerInv, StandingInv, SteadyShrinks, Walking, InTransaction,
                          Awaits, service
<1>7. \A d \in Listers \ {l} : Unmoved(d)
  BY <1>1 DEF Unmoved, IInv, TypeInv
<1> QED
  BY <1>1, <1>2, <1>5, <1>6, <1>7, OneLister DEF ListerInv

LEMMA SetIsolationKeeps ==
  ASSUME IInv, NEW l \in Listers, SetIsolation(l)
  PROVE  IInv'
<1>1. /\ stage[l] = "set_isolation" /\ stage' = [stage EXCEPT ![l] = "read_revision"]
      /\ tx' = [tx EXCEPT ![l].repeatable = TRUE]
      /\ UNCHANGED <<service, query, cursor, page, listed>> /\ Track
  BY DEF SetIsolation, Goto
<1>2. TypeInv'
  BY <1>1 DEF IInv, TypeInv, Stages, Walking, Awaits, Transactions
<1>3. /\ stage'[l] = "read_revision"
      /\ tx'[l].repeatable /\ tx'[l].started = tx[l].started
  BY <1>1 DEF IInv, TypeInv, Transactions
<1>4. SteadyShrinks(l)
  BY <1>1, TrackSteady
<1>5. WalkInv(l)' /\ ReadInv(l)' /\ PageInv(l)'
  BY <1>1, <1>3 DEF IInv, ListerInv, WalkInv, ReadInv, PageInv, Walking, Awaits
<1>6. StandingInv(l)'
  BY <1>1, <1>3, <1>4 DEF IInv, ListerInv, StandingInv, SteadyShrinks, Walking, InTransaction,
                          Awaits, service
<1>7. \A d \in Listers \ {l} : Unmoved(d)
  BY <1>1 DEF Unmoved, IInv, TypeInv
<1> QED
  BY <1>1, <1>2, <1>5, <1>6, <1>7, OneLister DEF ListerInv

(* The snapshot is of the scope's current revision. *)
LEMMA ReadRevisionKeeps ==
  ASSUME IInv, NEW l \in Listers, ReadRevision(l)
  PROVE  IInv'
<1> DEFINE s == query[l].scope
<1>1. /\ stage[l] = "read_revision" /\ stage' = [stage EXCEPT ![l] = "read_rows"]
      /\ tx' = [tx EXCEPT ![l].revision = policy[s], ![l].view = facts]
      /\ UNCHANGED <<service, query, cursor, page, listed>> /\ Track
  BY DEF ReadRevision, Goto
<1>2. s \in Scopes
  BY <1>1 DEF IInv, ListerInv, WalkInv, Walking, Awaits, Queries
<1>3. policy[s] \in Nat /\ facts \in Tables
  BY <1>2 DEF IInv, ServiceInv
<1>4. TypeInv'
  <2> DEFINE read == [tx[l] EXCEPT !.revision = policy[s], !.view = facts]
  <2>1. tx[l] \in Transactions
    BY DEF IInv, TypeInv
  <2>2. read \in Transactions
    BY <1>3, <2>1 DEF Transactions
  <2>3. tx' = [tx EXCEPT ![l] = read]
    BY <1>1
  <2> HIDE DEF read
  <2> QED
    BY <1>1, <2>2, <2>3 DEF IInv, TypeInv, Stages, Walking, Awaits
<1>5. /\ stage'[l] = "read_rows"
      /\ tx'[l].repeatable = tx[l].repeatable /\ tx'[l].started = tx[l].started
      /\ tx'[l].view = facts /\ tx'[l].revision = policy[s]
  BY <1>1 DEF IInv, TypeInv, Transactions
<1>6. SteadyShrinks(l)
  BY <1>1, TrackSteady
<1>7. WalkInv(l)' /\ PageInv(l)'
  BY <1>1, <1>5 DEF IInv, ListerInv, WalkInv, PageInv, Walking, Awaits
<1>8. ASSUME HistoryGrows PROVE ReadInv(l)'
  <2>1. SameIn(s, past'[s][policy[s] + 1], facts)
    BY <1>2, <1>3, <1>8 DEF HistoryGrows, IInv, PastInv
  <2>2. query'[l] = query[l] /\ policy' = policy /\ tx[l].repeatable
    BY <1>1 DEF IInv, ListerInv, ReadInv, service
  <2>3. policy[s] \in 0..policy[s]
    BY <1>3
  <2> HIDE DEF s
  <2>4. /\ tx'[l].repeatable /\ tx'[l].view \in Tables /\ tx'[l].revision \in 0..policy'[s]
        /\ SameIn(s, past'[s][tx'[l].revision + 1], tx'[l].view)
    BY <1>3, <1>5, <2>1, <2>2, <2>3
  <2> QED
    BY <1>5, <2>2, <2>4 DEF ReadInv, s
<1>9. StandingInv(l)'
  BY <1>1, <1>5, <1>6 DEF IInv, ListerInv, StandingInv, SteadyShrinks, Walking, InTransaction,
                          Awaits, service
<1>10. \A d \in Listers \ {l} : Unmoved(d)
  BY <1>1 DEF Unmoved, IInv, TypeInv
<1> QED
  BY <1>1, <1>4, <1>7, <1>8, <1>9, <1>10, OneLister DEF ListerInv

(* The rows are read from the snapshot the revision was read from. *)
LEMMA ReadRowsKeeps ==
  ASSUME IInv, NEW l \in Listers, ReadRows(l)
  PROVE  IInv'
<1> DEFINE q    == query[l]
           rows == FirstOf(Beyond(Matching(tx[l].view, q, tx[l].started), cursor[l]), q.limit + 1)
<1>1. stage[l] = "read_rows" /\ tx[l].repeatable
  BY DEF ReadRows, IInv, ListerInv, ReadInv
<1>2. /\ stage' = [stage EXCEPT ![l] = "commit"]
      /\ tx' = [tx EXCEPT ![l].view = tx[l].view, ![l].rows = rows]
      /\ UNCHANGED <<service, query, cursor, page, listed>> /\ Track
  BY <1>1 DEF ReadRows, Goto
<1>3. rows \in SUBSET GrantIds /\ tx[l].view \in Tables
  BY <1>1 DEF FirstOf, Beyond, Matching, IInv, ListerInv, ReadInv
<1> HIDE DEF rows
<1>4. TypeInv'
  <2> DEFINE read == [tx[l] EXCEPT !.view = tx[l].view, !.rows = rows]
  <2>1. tx[l] \in Transactions
    BY DEF IInv, TypeInv
  <2>2. read \in Transactions
    BY <1>3, <2>1 DEF Transactions
  <2>3. tx' = [tx EXCEPT ![l] = read]
    BY <1>2
  <2> HIDE DEF read
  <2> QED
    BY <1>2, <2>2, <2>3 DEF IInv, TypeInv, Stages, Walking, Awaits
<1>5. /\ stage'[l] = "commit" /\ tx'[l].rows = rows /\ tx'[l].view = tx[l].view
      /\ tx'[l].repeatable = tx[l].repeatable /\ tx'[l].started = tx[l].started
      /\ tx'[l].revision = tx[l].revision
  BY <1>2 DEF IInv, TypeInv, Transactions
<1>6. SteadyShrinks(l)
  BY <1>2, TrackSteady
<1>7. WalkInv(l)' /\ PageInv(l)'
  BY <1>1, <1>2, <1>5 DEF IInv, ListerInv, WalkInv, PageInv, Walking, Awaits
<1>8. ASSUME HistoryGrows PROVE ReadInv(l)'
  <2>1. /\ q.scope \in Scopes /\ policy[q.scope] \in Nat
        /\ tx[l].revision \in 0..policy[q.scope]
        /\ SameIn(q.scope, past[q.scope][tx[l].revision + 1], tx[l].view)
    BY <1>1 DEF IInv, ListerInv, WalkInv, ReadInv, Walking, Awaits, Queries, ServiceInv
  <2>2. past'[q.scope][tx[l].revision + 1] = past[q.scope][tx[l].revision + 1]
    BY <1>8, <2>1 DEF HistoryGrows
  <2> QED
    BY <1>1, <1>2, <1>3, <1>5, <2>1, <2>2 DEF ReadInv, rows, service
<1>9. StandingInv(l)'
  BY <1>1, <1>2, <1>5, <1>6 DEF IInv, ListerInv, StandingInv, SteadyShrinks, Walking,
                                InTransaction, Awaits, service
<1>10. \A d \in Listers \ {l} : Unmoved(d)
  BY <1>2 DEF Unmoved, IInv, TypeInv
<1> QED
  BY <1>2, <1>4, <1>7, <1>8, <1>9, <1>10, OneLister DEF ListerInv

(* What a commit makes of the rows. *)
LEMMA CommittedPage ==
  ASSUME IInv, NEW l \in Listers, stage[l] = "commit"
  PROVE  LET p    == PageOf(l)
             q    == query[l]
             then == past[q.scope][tx[l].revision + 1]
             left == Beyond(Matching(then, q, tx[l].started), cursor[l])
         IN /\ p.policy_revision = tx[l].revision /\ p.at = tx[l].started
            /\ left \in SUBSET GrantIds
            /\ left = Beyond(Matching(tx[l].view, q, tx[l].started), cursor[l])
            /\ DOMAIN p.items = FirstOf(left, q.limit)
            /\ \A g \in DOMAIN p.items : p.items[g] = Item(then, g, tx[l].started)
            /\ p.next_cursor = IF Cardinality(FirstOf(left, q.limit + 1)) > q.limit
                               THEN LastOf(FirstOf(left, q.limit)) ELSE NULL
<1> DEFINE q    == query[l]
           now  == tx[l].started
           then == past[q.scope][tx[l].revision + 1]
           left == Beyond(Matching(then, q, now), cursor[l])
           p    == PageOf(l)
<1>1. /\ SameIn(q.scope, then, tx[l].view)
      /\ tx[l].rows = FirstOf(Beyond(Matching(tx[l].view, q, now), cursor[l]), q.limit + 1)
      /\ q.limit \in Nat
  BY ListingAssumption DEF IInv, ListerInv, ReadInv, WalkInv, Walking, Awaits, ValidQuery
<1>2. /\ Matching(then, q, now) = Matching(tx[l].view, q, now)
      /\ \A g \in Matching(then, q, now) : Item(then, g, now) = Item(tx[l].view, g, now)
  BY <1>1, ScopeIsEnough
<1>3. /\ left \in SUBSET GrantIds /\ left \in SUBSET Nat /\ IsFiniteSet(left)
      /\ tx[l].rows = FirstOf(left, q.limit + 1)
  <2>1. left \in SUBSET GrantIds
    BY DEF Beyond, Matching
  <2> HIDE DEF left
  <2>2. GrantIds \subseteq Nat /\ IsFiniteSet(GrantIds)
    BY ListingAssumption
  <2>3. IsFiniteSet(left) /\ left \in SUBSET Nat
    BY <2>1, <2>2, FS_Subset
  <2> QED
    BY <1>1, <1>2, <2>1, <2>3 DEF left
<1>4. FirstOf(tx[l].rows, q.limit) = FirstOf(left, q.limit)
  <2> HIDE DEF left, q
  <2> QED
    BY <1>1, <1>3, PageOfRows
<1>5. \A g \in FirstOf(left, q.limit) : g \in Matching(then, q, now)
  BY DEF FirstOf, Beyond
<1>6. /\ p.items = [g \in FirstOf(left, q.limit) |-> Item(tx[l].view, g, now)]
      /\ p.next_cursor = IF Cardinality(FirstOf(left, q.limit + 1)) > q.limit
                         THEN LastOf(FirstOf(left, q.limit)) ELSE NULL
      /\ p.policy_revision = tx[l].revision /\ p.at = now
  BY <1>3, <1>4 DEF PageOf
<1> QED
  BY <1>2, <1>3, <1>5, <1>6

LEMMA CommitKeeps ==
  ASSUME IInv, NEW l \in Listers, Commit(l)
  PROVE  IInv'
<1> DEFINE q    == query[l]
           then == past[q.scope][tx[l].revision + 1]
           left == Beyond(Matching(then, q, tx[l].started), cursor[l])
           p    == PageOf(l)
<1>1. /\ stage[l] = "commit" /\ stage' = [stage EXCEPT ![l] = "page"]
      /\ page' = [page EXCEPT ![l] = p] /\ tx' = [tx EXCEPT ![l] = NoTx]
      /\ UNCHANGED <<service, query, cursor, listed>> /\ Track
  BY DEF Commit, Goto
<1>2. TypeInv'
  <2>1. NoTx \in Transactions
    BY DEF NoTx, Transactions
  <2> QED
    BY <1>1, <2>1 DEF IInv, TypeInv, Stages, Walking
<1>3. stage'[l] = "page" /\ page'[l] = p
  BY <1>1 DEF IInv, TypeInv
<1>4. /\ p.policy_revision = tx[l].revision /\ p.at = tx[l].started
      /\ left \in SUBSET GrantIds
      /\ left = Beyond(Matching(tx[l].view, q, tx[l].started), cursor[l])
      /\ DOMAIN p.items = FirstOf(left, q.limit)
      /\ \A g \in DOMAIN p.items : p.items[g] = Item(then, g, tx[l].started)
      /\ p.next_cursor = IF Cardinality(FirstOf(left, q.limit + 1)) > q.limit
                         THEN LastOf(FirstOf(left, q.limit)) ELSE NULL
  BY <1>1, CommittedPage
<1>5. /\ q.scope \in Scopes /\ policy[q.scope] \in Nat /\ tx[l].started \in Nat
      /\ tx[l].revision \in 0..policy[q.scope] /\ q.limit \in Nat \ {0}
  BY <1>1, ListingAssumption DEF IInv, ListerInv, WalkInv, ReadInv, Walking, Awaits, Queries,
                               ServiceInv, TypeInv, Transactions, ValidQuery
<1>6. /\ p.next_cursor = NULL => Cardinality(left) <= q.limit /\ FirstOf(left, q.limit) = left
      /\ Cardinality(left) <= q.limit => p.next_cursor = NULL
      /\ p.next_cursor # NULL => /\ p.next_cursor \in FirstOf(left, q.limit)
                                 /\ \A g \in FirstOf(left, q.limit) : g <= p.next_cursor
                                 /\ \A g \in left \ FirstOf(left, q.limit) : g > p.next_cursor
  <2> HIDE DEF left, p, q
  <2> QED
    BY <1>4, <1>5, PagesAndCursors
<1>7. ASSUME HistoryGrows PROVE PageInv(l)'
  <2>1. past'[q.scope][tx[l].revision + 1] = then
    BY <1>5, <1>7 DEF HistoryGrows
  <2>2. policy' = policy /\ query'[l] = q /\ cursor'[l] = cursor[l]
    BY <1>1 DEF service
  <2> HIDE DEF p, q, then
  <2> QED
    BY <1>3, <1>4, <1>5, <1>6, <2>1, <2>2 DEF PageInv
<1>8. WalkInv(l)' /\ ReadInv(l)'
  BY <1>1, <1>3 DEF IInv, ListerInv, WalkInv, ReadInv, Walking, Awaits
<1>9. ASSUME NEW g \in steady'[l]
      PROVE  \/ cursor[l] # NULL /\ g <= cursor[l] /\ g \in listed[l]
             \/ ~(cursor[l] # NULL /\ g <= cursor[l]) /\ g \in DOMAIN p.items
             \/ /\ ~(cursor[l] # NULL /\ g <= cursor[l])
                /\ p.next_cursor # NULL /\ g > p.next_cursor
  <2>1. g \in steady[l] /\ g \in GrantIds
    BY <1>1, TrackSteady DEF SteadyShrinks, Matching
  <2>2. /\ g \in Matching(facts, q, tx[l].started) /\ tx[l].view[g] = facts[g]
        /\ cursor[l] # NULL /\ g <= cursor[l] => g \in listed[l]
    BY <1>1, <2>1 DEF IInv, ListerInv, StandingInv, InTransaction, Walking, Awaits
  <2>3. g \in Matching(tx[l].view, q, tx[l].started)
    BY <2>2 DEF Matching
  <2>4. ~(cursor[l] # NULL /\ g <= cursor[l]) => g \in left
    <3>1. cursor[l] \in GrantIds \cup {NULL} /\ GrantIds \subseteq Nat
      BY ListingAssumption DEF IInv, TypeInv
    <3>2. g \in Nat /\ (cursor[l] # NULL => cursor[l] \in Nat)
      BY <2>1, <3>1
    <3>3. ~(cursor[l] # NULL /\ g <= cursor[l]) => cursor[l] = NULL \/ g > cursor[l]
      BY <3>2
    <3> QED
      BY <1>4, <2>3, <3>3 DEF Beyond
  <2> HIDE DEF left, p, q
  <2> QED
    BY <1>4, <1>6, <2>2, <2>4
<1>10. StandingInv(l)'
  BY <1>1, <1>3, <1>9 DEF StandingInv, Walking, InTransaction, Awaits
<1>11. \A d \in Listers \ {l} : Unmoved(d)
  BY <1>1 DEF Unmoved, IInv, TypeInv
<1> QED
  BY <1>1, <1>2, <1>7, <1>8, <1>10, <1>11, OneLister DEF ListerInv

LEMMA FailKeeps ==
  ASSUME IInv, NEW l \in Listers, Fail(l) \/ Retry(l)
  PROVE  IInv'
<1>1. /\ stage[l] \in Awaits \cup {"failed"}
      /\ \E next \in {"begin", "failed"} : stage' = [stage EXCEPT ![l] = next]
      /\ tx' = [tx EXCEPT ![l] = NoTx] \/ tx' = tx
      /\ UNCHANGED <<service, query, cursor, page, listed>> /\ Track
  BY DEF Fail, Retry, Goto
<1>2. TypeInv'
  <2>1. NoTx \in Transactions
    BY DEF NoTx, Transactions
  <2> QED
    BY <1>1, <2>1 DEF IInv, TypeInv, Stages, Walking, Awaits
<1>3. stage'[l] \in {"begin", "failed"}
  BY <1>1 DEF IInv, TypeInv
<1>4. SteadyShrinks(l)
  BY <1>1, TrackSteady
<1>5. WalkInv(l)' /\ ReadInv(l)' /\ PageInv(l)'
  BY <1>1, <1>3 DEF IInv, ListerInv, WalkInv, ReadInv, PageInv, Walking, Awaits
<1>6. StandingInv(l)'
  BY <1>1, <1>3, <1>4 DEF IInv, ListerInv, StandingInv, SteadyShrinks, Walking, InTransaction,
                          Awaits
<1>7. \A d \in Listers \ {l} : Unmoved(d)
  BY <1>1 DEF Unmoved, IInv, TypeInv
<1> QED
  BY <1>1, <1>2, <1>5, <1>6, <1>7, OneLister DEF ListerInv

(* The cursor moves over what the page listed, and over nothing else. *)
LEMMA TakePageKeeps ==
  ASSUME IInv, NEW l \in Listers, TakePage(l)
  PROVE  IInv'
<1> DEFINE p    == page[l]
           next == p.next_cursor
<1>1. /\ stage[l] = "page"
      /\ listed' = [listed EXCEPT ![l] = listed[l] \cup DOMAIN p.items]
      /\ cursor' = [cursor EXCEPT ![l] = next]
      /\ stage' = [stage EXCEPT ![l] = IF next = NULL THEN "walked" ELSE "begin"]
      /\ page' = [page EXCEPT ![l] = NoPage]
      /\ UNCHANGED <<service, query, tx>> /\ Track
  BY DEF TakePage, Goto
<1>2. /\ DOMAIN p.items \subseteq GrantIds
      /\ \A g \in DOMAIN p.items : cursor[l] = NULL \/ g > cursor[l]
      /\ next # NULL => next \in DOMAIN p.items /\ \A g \in DOMAIN p.items : g <= next
  BY <1>1 DEF IInv, ListerInv, PageInv, FirstOf, Beyond, Matching
<1>3. TypeInv'
  BY <1>1, <1>2 DEF IInv, TypeInv, Stages, Walking, Awaits
<1>4. /\ stage'[l] = IF next = NULL THEN "walked" ELSE "begin"
      /\ cursor'[l] = next /\ listed'[l] = listed[l] \cup DOMAIN p.items
      /\ query'[l] = query[l]
  BY <1>1 DEF IInv, TypeInv
<1>5. GrantIds \subseteq Nat /\ listed[l] \subseteq GrantIds /\ cursor[l] \in GrantIds \cup {NULL}
  BY ListingAssumption DEF IInv, TypeInv
<1>6. /\ \A g \in listed[l] : cursor[l] # NULL /\ g <= cursor[l]
      /\ query[l] \in Queries /\ ValidQuery(query[l])
  BY <1>1 DEF IInv, ListerInv, WalkInv, Walking
<1>7. ASSUME NEW g \in listed[l] \cup DOMAIN p.items, next # NULL PROVE g <= next
  <2>1. CASE g \in listed[l]
    <3>1. cursor[l] \in Nat /\ next \in Nat /\ g \in Nat /\ g <= cursor[l] /\ next > cursor[l]
      BY <1>2, <1>5, <1>6, <1>7, <2>1
    <3> QED
      BY <3>1
  <2> QED
    BY <1>2, <1>7, <2>1
<1>8. WalkInv(l)' /\ ReadInv(l)' /\ PageInv(l)'
  BY <1>4, <1>6, <1>7 DEF WalkInv, ReadInv, PageInv, Walking, Awaits
<1>9. ASSUME NEW g \in steady'[l]
      PROVE  g \in listed'[l] \/ (next # NULL /\ ~(g <= next))
  <2>1. g \in steady[l] /\ g \in GrantIds
    BY <1>1, TrackSteady DEF SteadyShrinks, Matching
  <2>2. \/ g \in listed[l] \cup DOMAIN p.items
        \/ next # NULL /\ g > next
    BY <1>1, <2>1 DEF IInv, ListerInv, StandingInv, Walking
  <2>3. next # NULL => next \in Nat /\ g \in Nat
    BY <1>2, <1>5, <2>1
  <2> QED
    BY <1>4, <2>2, <2>3
<1>10. StandingInv(l)'
  BY <1>4, <1>9 DEF StandingInv, InTransaction, Awaits
<1>11. \A d \in Listers \ {l} : Unmoved(d)
  BY <1>1 DEF Unmoved, IInv, TypeInv
<1> QED
  BY <1>1, <1>3, <1>8, <1>10, <1>11, OneLister DEF ListerInv

LEMMA LeaveKeeps ==
  ASSUME IInv, NEW l \in Listers, Leave(l)
  PROVE  IInv'
<1>1. /\ stage' = [stage EXCEPT ![l] = "idle"]
      /\ query' = [query EXCEPT ![l] = NULL] /\ cursor' = [cursor EXCEPT ![l] = NULL]
      /\ listed' = [listed EXCEPT ![l] = {}]
      /\ UNCHANGED <<service, tx, page>> /\ Track
  BY DEF Leave, Goto
<1>2. TypeInv'
  BY <1>1 DEF IInv, TypeInv, Stages
<1>3. stage'[l] = "idle" /\ cursor'[l] = NULL /\ listed'[l] = {}
  BY <1>1 DEF IInv, TypeInv
<1>4. ListerInv(l)'
  BY <1>3 DEF ListerInv, WalkInv, ReadInv, PageInv, StandingInv, Walking, InTransaction, Awaits
<1>5. \A d \in Listers \ {l} : Unmoved(d)
  BY <1>1 DEF Unmoved, IInv, TypeInv
<1> QED
  BY <1>1, <1>2, <1>4, <1>5, OneLister

(* A mutation moves no lister, and leaves the revisions they have read.     *)
LEMMA ServeKeeps ==
  ASSUME IInv, Serve
  PROVE  IInv'
<1>1. ServiceInv' /\ ScopeSteps /\ Track /\ UNCHANGED walk
  BY ServiceSteps DEF Serve, IInv
<1>2. PastInv' /\ HistoryGrows
  BY <1>1, TrackPast DEF IInv
<1>3. TypeInv'
  BY <1>1 DEF IInv, TypeInv, walk
<1>4. ASSUME NEW l \in Listers PROVE ListerInv(l)'
  <2>1. Unmoved(l)
    BY <1>1 DEF Unmoved, walk
  <2> QED
    BY <1>1, <1>2, <2>1, TrackSteady, UnmovedLister DEF Unmoved
<1> QED
  BY <1>1, <1>2, <1>3, <1>4 DEF IInv

LEMMA StepKeeps ==
  ASSUME IInv, [Next]_vars
  PROVE  IInv'
<1>1. CASE Serve
  BY <1>1, ServeKeeps
<1>2. ASSUME NEW l \in Listers,
             ListGrants(l) \/ Proceed(l) \/ Fail(l) \/ TakePage(l) \/ Retry(l) \/ Leave(l)
      PROVE  IInv'
  <2>1. CASE Proceed(l)
    BY <2>1, BeginKeeps, SetIsolationKeeps, ReadRevisionKeeps, ReadRowsKeeps, CommitKeeps
       DEF Proceed
  <2> QED
    BY <1>2, <2>1, ListGrantsKeeps, FailKeeps, TakePageKeeps, LeaveKeeps
<1>3. CASE UNCHANGED vars
  <2>1. UNCHANGED <<clock, policy, facts, phase, request, opened>>
    BY <1>3 DEF vars, service
  <2>2. UNCHANGED <<stage, query, cursor, tx, page, listed, steady, past>>
    BY <1>3 DEF vars, walk
  <2>3. ServiceInv' /\ PastInv' /\ TypeInv'
    BY <2>1, <2>2 DEF IInv, ServiceInv, PastInv, TypeInv
  <2>4. ASSUME NEW l \in Listers PROVE ListerInv(l)'
    BY <2>1, <2>2 DEF IInv, ListerInv, WalkInv, ReadInv, PageInv, StandingInv
  <2> QED
    BY <2>3, <2>4 DEF IInv
<1> QED
  BY <1>1, <1>2, <1>3 DEF Next

(* The invariant of every walk, beside whatever mutations.                  *)
THEOREM Inductive == Spec => []IInv
<1>1. Init => IInv
  BY InitListing
<1>2. IInv /\ [Next]_vars => IInv'
  BY StepKeeps
<1> QED
  BY <1>1, <1>2, PTL DEF Spec

(* Every page of list_grants is what the scope had at the revision the page *)
(* names: the snapshot is taken by the statement that reads the revision.   *)
THEOREM PagesAreOneRevision == Spec => []PageIsOneRevision
<1>1. IInv => PageIsOneRevision
  BY DEF IInv, ListerInv, PageInv, PageIsOneRevision
<1> QED
  BY <1>1, Inductive, PTL

(* A walk by next_cursor repeats no grant.                                  *)
THEOREM NoneListedTwice == Spec => []NothingListedTwice
<1>1. ASSUME IInv, NEW l \in Listers, stage[l] = "page"
      PROVE  listed[l] \cap DOMAIN page[l].items = {}
  <2>1. \A g \in listed[l] : cursor[l] # NULL /\ g <= cursor[l]
    BY <1>1 DEF IInv, ListerInv, WalkInv, Walking
  <2>2. \A g \in DOMAIN page[l].items : cursor[l] = NULL \/ g > cursor[l]
    BY <1>1 DEF IInv, ListerInv, PageInv, FirstOf, Beyond
  <2>3. listed[l] \subseteq Nat /\ (cursor[l] # NULL => cursor[l] \in Nat)
    <3>1. listed[l] \in SUBSET GrantIds /\ cursor[l] \in GrantIds \cup {NULL}
      BY <1>1 DEF IInv, TypeInv
    <3> QED
      BY <3>1, ListingAssumption
  <2> QED
    BY <2>1, <2>2, <2>3
<1>2. IInv => NothingListedTwice
  BY <1>1 DEF NothingListedTwice
<1> QED
  BY <1>2, Inductive, PTL

(* A walk by next_cursor skips no grant that matched it from its first call *)
(* on, whatever is put or revoked meanwhile and however often it retries.   *)
THEOREM StandingGrantsListed == Spec => []StandingGrantsAreListed
<1>1. IInv => StandingGrantsAreListed
  BY DEF IInv, ListerInv, StandingInv, StandingGrantsAreListed
<1> QED
  BY <1>1, Inductive, PTL

(* list_grants and resolve_entitlement agree on which grants are active,    *)
(* and a filter by status on what it filters.                               *)
THEOREM StatusesHold == Spec => []StatusesAgree
<1>1. ASSUME IInv, NEW l \in Listers, stage[l] = "page", NEW g \in DOMAIN page[l].items
      PROVE  LET then   == past[query[l].scope][page[l].policy_revision + 1]
                 status == page[l].items[g].status
             IN /\ status = "active" <=> Active(then[g], page[l].at)
                /\ query[l].status \in {"all", status}
  <2> DEFINE then == past[query[l].scope][page[l].policy_revision + 1]
             now  == page[l].at
  <2>1. /\ g \in Matching(then, query[l], now) /\ now \in Nat
        /\ page[l].items[g].status = EffectiveStatus(then[g], now)
    <3>1. /\ page[l].items[g] = Item(then, g, now) /\ now \in Nat
          /\ DOMAIN page[l].items =
               FirstOf(Beyond(Matching(then, query[l], now), cursor[l]), query[l].limit)
      BY <1>1 DEF IInv, ListerInv, PageInv
    <3>2. g \in Matching(then, query[l], now)
      BY <1>1, <3>1 DEF FirstOf, Beyond
    <3> QED
      BY <3>1, <3>2 DEF Item
  <2>2. then \in Tables
    <3>1. /\ query[l].scope \in Scopes /\ policy[query[l].scope] \in Nat
          /\ page[l].policy_revision \in 0..policy[query[l].scope]
      BY <1>1 DEF IInv, ListerInv, PageInv, WalkInv, Walking, Queries, ServiceInv
    <3>2. past[query[l].scope] \in Seq(Tables)
          /\ Len(past[query[l].scope]) = policy[query[l].scope] + 1
      BY <1>1, <3>1 DEF IInv, PastInv
    <3> QED
      BY <3>1, <3>2
  <2>3. then[g] \in Grant /\ StatusAdmits(query[l].status, then[g], now)
    BY <2>1, <2>2 DEF Matching, Tables
  <2> HIDE DEF then, now
  <2>4. then[g].expires_at = NULL \/ then[g].expires_at \in Int
    BY <2>3 DEF Grant, Instants
  <2>5. EffectiveStatus(then[g], now) = "active" <=> Active(then[g], now)
    BY <2>1, <2>4 DEF EffectiveStatus, Active
  <2>6. query[l].status \in {"all", EffectiveStatus(then[g], now)}
    BY <2>1, <2>3, <2>4 DEF EffectiveStatus, StatusAdmits, Active
  <2> QED
    BY <2>1, <2>5, <2>6 DEF then, now
<1>2. IInv => StatusesAgree
  BY <1>1 DEF StatusesAgree
<1> QED
  BY <1>2, Inductive, PTL

LEMMA CursorLeavesFewer ==
  ASSUME NEW after \in GrantIds \cup {NULL}, NEW next \in GrantIds,
         after = NULL \/ next > after
  PROVE  Cardinality(Beyond(GrantIds, next)) < Cardinality(Beyond(GrantIds, after))
<1> DEFINE rest == Beyond(GrantIds, next)
           left == Beyond(GrantIds, after)
<1>1. /\ GrantIds \subseteq Nat /\ IsFiniteSet(GrantIds)
      /\ next \in Nat /\ next # NULL /\ after \in Nat \cup {NULL}
  <2>1. GrantIds \subseteq Nat /\ IsFiniteSet(GrantIds)
    BY ListingAssumption
  <2>2. NULL \notin Nat
    BY TablesAssumption
  <2> QED
    BY <2>1, <2>2
<1>2. next \in left /\ next \notin rest
  BY <1>1 DEF Beyond
<1>3. rest \subseteq left
  <2>1. ASSUME NEW g \in Nat, g > next, after # NULL PROVE g > after
    BY <1>1, <2>1
  <2> QED
    BY <1>1, <2>1 DEF Beyond
<1>4. IsFiniteSet(left)
  BY <1>1, FS_Subset DEF Beyond
<1>5. Cardinality(rest) <= Cardinality(left) /\ Cardinality(rest) # Cardinality(left)
  BY <1>2, <1>3, <1>4, FS_Subset
<1>6. Cardinality(left) \in Nat /\ Cardinality(rest) \in Nat
  BY <1>3, <1>4, FS_Subset, FS_CardinalityType
<1> HIDE DEF rest, left
<1>7. Cardinality(rest) < Cardinality(left)
  BY <1>5, <1>6
<1> QED
  BY <1>7 DEF rest, left

(* The safety half of EveryWalkEnds: each further page of a walk is one of  *)
(* at most as many as there are ids, as next_cursor is a row of the page    *)
(* and every row of the page is beyond the cursor it was asked with.        *)
THEOREM WalksMoveOn == Spec => PagesMoveOn
<1> DEFINE Moves(l) ==
      stage'[l] \in Awaits =>
        LET left      == Cardinality(Beyond(GrantIds, cursor[l]))
            leftAfter == Cardinality(Beyond(GrantIds, cursor'[l]))
        IN IF stage[l] = "page" THEN leftAfter < left ELSE leftAfter <= left
<1>1. ASSUME NEW l \in Listers, cursor'[l] = cursor[l], stage[l] # "page" \/ stage'[l] \notin Awaits
      PROVE  Moves(l)
  <2>1. IsFiniteSet(Beyond(GrantIds, cursor[l]))
    BY ListingAssumption, FS_Subset DEF Beyond
  <2>2. Cardinality(Beyond(GrantIds, cursor[l])) \in Nat
    BY <2>1, FS_CardinalityType
  <2> QED
    BY <1>1, <2>2
<1>2. ASSUME IInv, NEW d \in Listers, NEW l \in Listers, TakePage(d) PROVE Moves(l)
  <2>1. /\ cursor' = [cursor EXCEPT ![d] = page[d].next_cursor] /\ stage[d] = "page"
        /\ stage' = [stage EXCEPT ![d] = IF page[d].next_cursor = NULL THEN "walked" ELSE "begin"]
    BY <1>2 DEF TakePage, Goto
  <2>2. CASE l # d
    <3>1. cursor'[l] = cursor[l] /\ stage'[l] = stage[l]
      BY <1>2, <2>1, <2>2 DEF IInv, TypeInv
    <3> QED
      BY <1>1, <3>1 DEF Awaits
  <2>3. CASE l = d /\ page[d].next_cursor # NULL
    <3>1. /\ page[d].next_cursor \in GrantIds
          /\ cursor[d] = NULL \/ page[d].next_cursor > cursor[d]
      BY <1>2, <2>1, <2>3 DEF IInv, ListerInv, PageInv, FirstOf, Beyond, Matching
    <3>2. cursor[d] \in GrantIds \cup {NULL} /\ cursor'[d] = page[d].next_cursor
      BY <1>2, <2>1 DEF IInv, TypeInv
    <3>3. Cardinality(Beyond(GrantIds, page[d].next_cursor)) < Cardinality(Beyond(GrantIds, cursor[d]))
      BY <3>1, <3>2, CursorLeavesFewer
    <3> QED
      BY <2>1, <2>3, <3>2, <3>3
  <2>4. CASE l = d /\ page[d].next_cursor = NULL
    <3>1. stage'[l] \notin Awaits
      BY <1>2, <2>1, <2>4 DEF IInv, TypeInv, Awaits
    <3> QED
      BY <3>1
  <2> QED
    BY <2>2, <2>3, <2>4
<1>3. ASSUME IInv, NEW d \in Listers, NEW l \in Listers,
             ListGrants(d) \/ Proceed(d) \/ Fail(d) \/ Retry(d)
      PROVE  Moves(l)
  <2>1. cursor' = cursor
    BY <1>3 DEF ListGrants, Proceed, Begin, SetIsolation, ReadRevision, ReadRows, Commit, Fail, Retry
  <2>2. stage[d] # "page" /\ \E next : stage' = [stage EXCEPT ![d] = next]
    BY <1>3 DEF ListGrants, Proceed, Begin, SetIsolation, ReadRevision, ReadRows, Commit, Fail,
                Retry, Goto, Awaits
  <2>3. stage[l] # "page" \/ stage'[l] = "page"
    BY <2>2 DEF IInv, TypeInv
  <2> QED
    BY <1>1, <2>1, <2>3 DEF Awaits
<1>4. ASSUME IInv, NEW d \in Listers, NEW l \in Listers, Leave(d) PROVE Moves(l)
  <2>1. /\ stage' = [stage EXCEPT ![d] = "idle"] /\ cursor' = [cursor EXCEPT ![d] = NULL]
    BY <1>4 DEF Leave, Goto
  <2>2. CASE l = d
    <3>1. stage'[l] \notin Awaits
      BY <1>4, <2>1, <2>2 DEF IInv, TypeInv, Awaits
    <3> QED
      BY <3>1
  <2>3. CASE l # d
    <3>1. cursor'[l] = cursor[l] /\ stage'[l] = stage[l]
      BY <1>4, <2>1, <2>3 DEF IInv, TypeInv
    <3> QED
      BY <1>1, <3>1 DEF Awaits
  <2> QED
    BY <2>2, <2>3
<1>5. ASSUME NEW l \in Listers, UNCHANGED <<stage, cursor>> PROVE Moves(l)
  BY <1>1, <1>5 DEF Awaits
<1>6. ASSUME IInv, [Next]_vars, NEW l \in Listers PROVE Moves(l)
  <2>1. CASE Serve \/ UNCHANGED vars
    <3>1. UNCHANGED <<stage, cursor>>
      BY <2>1 DEF Serve, vars, walk
    <3> QED
      BY <1>5, <3>1
  <2> HIDE DEF Moves
  <2> QED
    BY <1>2, <1>3, <1>4, <1>6, <2>1 DEF Next
<1>7. IInv /\ [Next]_vars => \A l \in Listers : Moves(l)
  BY <1>6
<1> QED
  BY <1>7, Inductive, PTL DEF Spec, PagesMoveOn
================================================================================
