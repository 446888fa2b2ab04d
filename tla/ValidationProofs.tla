---------------------------- MODULE ValidationProofs ----------------------------
(***************************************************************************)
(* What a put accepts is in reach of every handler, and the references     *)
(* accepted are the paths of named segments, for every byte limit, page    *)
(* limit and configuration.                                                *)
(***************************************************************************)
EXTENDS Validation, SequenceTheorems, NaturalsInduction, WellFoundedInduction, TLAPS

(* An id the plugin makes is a name: it may come back as a cursor and as    *)
(* the grant of a revocation.                                               *)
LEMMA IdsAreNames == ValidName(RandomId)
<1>1. RandomId \in Seq({"word"}) /\ Len(RandomId) = IdBytes
  BY ValidationAssumption DEF RandomId
<1>2. RandomId # <<>> /\ Len(RandomId) <= MaxBytes
  BY <1>1, ValidationAssumption
<1>3. ConsistsOf(RandomId, {"word", "dot", "colon"})
  BY DEF RandomId, ConsistsOf
<1> QED
  BY <1>2, <1>3 DEF ValidName

(* Who is listed and asks by a valid key, or a valid id, passes the screen. *)
LEMMA ListedPass ==
  ASSUME NEW callers, ValidCallers(callers), callers \subseteq CallerTexts
  PROVE  \E caller \in CallerTexts : Screen(caller, callers, TRUE) = "ok"
  BY DEF ValidCallers, Screen

(* A key that put_grant accepts is one a listing may ask for. *)
LEMMA KeysAreListed ==
  ASSUME NEW g, ValidKey(g), g.id = RandomId
  PROVE  ValidListing([scope_kind |-> g.scope_kind, scope_id |-> g.scope_id,
                       subject |-> g.subject, feature |-> g.feature,
                       limit |-> PageCap, cursor |-> g.id])
  BY IdsAreNames, ValidationAssumption DEF ValidKey, ValidListing

LEMMA InitHolds == Init => IInv
  BY DEF Init, IInv, OfferInv, ConfigInv, GrantsInv

(* One step keeps the invariant. *)
LEMMA StepHolds == IInv /\ [Next]_vars => IInv'
<1> SUFFICES ASSUME IInv, [Next]_vars PROVE IInv'
  OBVIOUS
<1> USE DEF IInv
<1>1. CASE Offer
  BY <1>1 DEF Offer, OfferInv, ConfigInv, GrantsInv
<1>2. CASE Install
  <2>1. OfferInv' /\ GrantsInv'
    BY <1>2 DEF Install, OfferInv, GrantsInv
  <2>2. ASSUME error = NULL
        PROVE  /\ offer.resolve_callers \subseteq CallerTexts /\ ValidCallers(offer.resolve_callers)
               /\ offer.admin_callers \subseteq CallerTexts /\ ValidCallers(offer.admin_callers)
    <3>1. offer \in Configs /\ Validate(offer) = NULL
      BY <1>2, <2>2 DEF Install, OfferInv
    <3>2. ValidCallers(offer.resolve_callers) /\ ValidCallers(offer.admin_callers)
      <4>1. NULL \notin Errors
        BY ValidationAssumption
      <4>2. Validate(offer) \notin Errors
        BY <3>1, <4>1
      <4> QED
        BY <4>2 DEF Validate, Errors
    <3> QED
      BY <3>1, <3>2 DEF Configs
  <2>3. ConfigInv'
    BY <1>2, <2>2 DEF Install, ConfigInv
  <2> QED
    BY <2>1, <2>3
<1>3. CASE Uninstall
  BY <1>3 DEF Uninstall, OfferInv, ConfigInv, GrantsInv
<1>4. CASE Return
  BY <1>4 DEF Return, OfferInv, ConfigInv, GrantsInv
<1>5. ASSUME NEW caller \in CallerTexts \cup {NULL}, PutGrant(caller) PROVE IInv'
  <2>1. PICK q \in Puts : /\ reply' = ScreenPut(caller, q)
                          /\ \/ UNCHANGED grants
                             \/ reply' = "ok" /\ grants' = grants \cup {Granted(q)}
    BY <1>5 DEF PutGrant
  <2>2. ASSUME reply' = "ok" PROVE Granted(q).id = RandomId /\ ValidKey(Granted(q))
    <3>1. ValidKey(q)
      BY <2>1, <2>2 DEF ScreenPut, Screen
    <3> QED
      BY <3>1 DEF Granted, ValidKey
  <2>3. GrantsInv'
    BY <2>1, <2>2 DEF GrantsInv
  <2> QED
    BY <1>5, <2>3 DEF PutGrant, OfferInv, ConfigInv
<1>6. ASSUME NEW caller \in CallerTexts \cup {NULL},
             ListGrants(caller) \/ RevokeGrant(caller) \/ ResolveEntitlement(caller)
      PROVE  IInv'
  BY <1>6 DEF ListGrants, RevokeGrant, ResolveEntitlement, OfferInv, ConfigInv, GrantsInv
<1>7. CASE UNCHANGED vars
  BY <1>7 DEF vars, OfferInv, ConfigInv, GrantsInv
<1> QED
  BY <1>1, <1>2, <1>3, <1>4, <1>5, <1>6, <1>7 DEF Next

(* In every reachable state what is in force and what is stored was valid.  *)
THEOREM Inductive == Spec => []IInv
  BY InitHolds, StepHolds, PTL DEF Spec

(* Under any configuration in force someone may resolve each grant stored,  *)
(* and someone may list it, go on from it and revoke it: the rules put_grant *)
(* holds its texts to, P 389-392, are no wider than the other handlers'.    *)
THEOREM Reach == Spec => []GrantsAreInReach
<1>1. ASSUME IInv PROVE GrantsAreInReach
  <2> SUFFICES ASSUME config # NULL, NEW g \in grants
               PROVE  /\ \E caller \in CallerTexts : ScreenResolve(caller, g) = "ok"
                      /\ \E caller \in CallerTexts :
                           /\ ScreenList(caller,
                                [scope_kind |-> g.scope_kind, scope_id |-> g.scope_id,
                                 subject |-> g.subject, feature |-> g.feature,
                                 limit |-> PageCap, cursor |-> g.id]) = "ok"
                           /\ ScreenRevoke(caller, g.id) = "ok"
    BY DEF GrantsAreInReach
  <2>1. g.id = RandomId /\ ValidKey(g)
    BY <1>1 DEF IInv, GrantsInv
  <2>2. \A callers \in {config.resolve_callers, config.admin_callers} :
          \E caller \in CallerTexts : Screen(caller, callers, TRUE) = "ok"
    BY <1>1, ListedPass DEF IInv, ConfigInv
  <2>3. \E caller \in CallerTexts : ScreenResolve(caller, g) = "ok"
    BY <2>1, <2>2 DEF ScreenResolve, Screen
  <2> QED
    BY <2>1, <2>2, <2>3, KeysAreListed, IdsAreNames DEF ScreenList, ScreenRevoke, Screen
<1> QED
  BY <1>1, Inductive, PTL

--------------------------------------------------------------------------------
(* References and paths: the six conditions, byte by byte.                  *)

(* A slash, or an end of the text. *)
Edge(text, i) == i = 0 \/ i = Len(text) + 1 \/ text[i] = "slash"

DotBetween(text) ==
  \E i \in 1 .. Len(text) : text[i] = "dot" /\ Edge(text, i - 1) /\ Edge(text, i + 1)

TwoDotsBetween(text) ==
  \E i \in 2 .. Len(text) :
    text[i - 1] = "dot" /\ text[i] = "dot" /\ Edge(text, i - 2) /\ Edge(text, i + 1)

Plain(text) ==
  /\ text # <<>> /\ text[1] # "slash" /\ text[Len(text)] # "slash"
  /\ \A i \in 2 .. Len(text) : ~(text[i - 1] = "slash" /\ text[i] = "slash")
  /\ ~DotBetween(text) /\ ~TwoDotsBetween(text)
  /\ \A i \in 1 .. Len(text) : text[i] \in {"word", "dot", "slash"}

(* A segment is what lies between two edges with no slash inside. *)
LEMMA SegmentBetweenEdges ==
  ASSUME NEW text \in Seq(Bytes), NEW a \in 1 .. Len(text) + 1, NEW b \in 0 .. Len(text),
         a <= b + 1, Edge(text, a - 1), Edge(text, b + 1),
         \A k \in a .. b : text[k] # "slash"
  PROVE  SubSeq(text, a, b) \in Segments(text)
<1>1. a \in Nat /\ b \in Nat /\ Len(text) \in Nat
  OBVIOUS
<1>2. a = 1 \/ text[a - 1] = "slash"
  BY <1>1 DEF Edge
<1>3. b = Len(text) \/ text[b + 1] = "slash"
  BY <1>1 DEF Edge
<1> DEFINE cut == <<a, b>>
<1>4. cut[1] = a /\ cut[2] = b /\ cut \in (1 .. Len(text) + 1) \X (0 .. Len(text))
  OBVIOUS
<1> HIDE DEF cut
<1> QED
  BY <1>2, <1>3, <1>4 DEF Segments

LEMMA SegmentsAreBetweenEdges ==
  ASSUME NEW text \in Seq(Bytes), NEW segment \in Segments(text)
  PROVE  \E a \in 1 .. Len(text) + 1, b \in 0 .. Len(text) :
           /\ segment = SubSeq(text, a, b) /\ a <= b + 1
           /\ Edge(text, a - 1) /\ Edge(text, b + 1)
           /\ \A k \in a .. b : text[k] # "slash"
<1>1. PICK cut \in (1 .. Len(text) + 1) \X (0 .. Len(text)) :
        /\ segment = SubSeq(text, cut[1], cut[2])
        /\ cut[1] <= cut[2] + 1
        /\ cut[1] = 1 \/ text[cut[1] - 1] = "slash"
        /\ cut[2] = Len(text) \/ text[cut[2] + 1] = "slash"
        /\ \A k \in cut[1] .. cut[2] : text[k] # "slash"
  BY DEF Segments
<1>2. cut[1] \in 1 .. Len(text) + 1 /\ cut[2] \in 0 .. Len(text)
  BY <1>1
<1>3. Edge(text, cut[1] - 1) /\ Edge(text, cut[2] + 1)
  BY <1>1, <1>2 DEF Edge
<1> QED
  BY <1>1, <1>2, <1>3

LEMMA DotSegments ==
  ASSUME NEW text \in Seq(Bytes)
  PROVE  <<"dot">> \in Segments(text) <=> DotBetween(text)
<1>1. ASSUME DotBetween(text) PROVE <<"dot">> \in Segments(text)
  <2>1. PICK i \in 1 .. Len(text) : text[i] = "dot" /\ Edge(text, i - 1) /\ Edge(text, i + 1)
    BY <1>1 DEF DotBetween
  <2>2. SubSeq(text, i, i) \in Segments(text)
    BY <2>1, SegmentBetweenEdges
  <2>3. SubSeq(text, i, i) = <<"dot">>
    <3> DEFINE segment == SubSeq(text, i, i)
               dot     == <<"dot">>
    <3>1. segment \in Seq(Bytes) /\ Len(segment) = 1 /\ segment[1] = "dot"
      BY <2>1
    <3>2. dot \in Seq(Bytes) /\ Len(dot) = 1 /\ dot[1] = "dot"
      BY DEF Bytes
    <3> HIDE DEF segment, dot
    <3>3. \A k \in 1 .. Len(segment) : segment[k] = dot[k]
      BY <3>1, <3>2
    <3>4. segment = dot
      BY <3>1, <3>2, <3>3, SeqEqual
    <3> QED
      BY <3>4 DEF segment, dot
  <2> QED
    BY <2>2, <2>3
<1>2. ASSUME <<"dot">> \in Segments(text) PROVE DotBetween(text)
  <2>1. PICK a \in 1 .. Len(text) + 1, b \in 0 .. Len(text) :
          /\ <<"dot">> = SubSeq(text, a, b) /\ a <= b + 1
          /\ Edge(text, a - 1) /\ Edge(text, b + 1)
    BY <1>2, SegmentsAreBetweenEdges
  <2>2. Len(SubSeq(text, a, b)) = 1 /\ SubSeq(text, a, b)[1] = "dot"
    BY <2>1
  <2>3. a = b /\ text[a] = "dot"
    BY <2>1, <2>2
  <2> QED
    BY <2>1, <2>3 DEF DotBetween
<1> QED
  BY <1>1, <1>2

LEMMA TwoDotSegments ==
  ASSUME NEW text \in Seq(Bytes)
  PROVE  <<"dot", "dot">> \in Segments(text) <=> TwoDotsBetween(text)
<1>1. ASSUME TwoDotsBetween(text) PROVE <<"dot", "dot">> \in Segments(text)
  <2>1. PICK i \in 2 .. Len(text) : /\ text[i - 1] = "dot" /\ text[i] = "dot"
                                    /\ Edge(text, i - 2) /\ Edge(text, i + 1)
    BY <1>1 DEF TwoDotsBetween
  <2>2. \A k \in i - 1 .. i : text[k] # "slash"
    BY <2>1
  <2>3. SubSeq(text, i - 1, i) \in Segments(text)
    BY <2>1, <2>2, SegmentBetweenEdges
  <2>4. SubSeq(text, i - 1, i) = <<"dot", "dot">>
    <3> DEFINE segment == SubSeq(text, i - 1, i)
               dots    == <<"dot", "dot">>
    <3>1. segment \in Seq(Bytes) /\ Len(segment) = 2 /\ segment[1] = "dot" /\ segment[2] = "dot"
      BY <2>1
    <3>2. dots \in Seq(Bytes) /\ Len(dots) = 2 /\ dots[1] = "dot" /\ dots[2] = "dot"
      BY DEF Bytes
    <3> HIDE DEF segment, dots
    <3>3. \A k \in 1 .. Len(segment) : segment[k] = dots[k]
      BY <3>1, <3>2
    <3>4. segment = dots
      BY <3>1, <3>2, <3>3, SeqEqual
    <3> QED
      BY <3>4 DEF segment, dots
  <2> QED
    BY <2>3, <2>4
<1>2. ASSUME <<"dot", "dot">> \in Segments(text) PROVE TwoDotsBetween(text)
  <2>1. PICK a \in 1 .. Len(text) + 1, b \in 0 .. Len(text) :
          /\ <<"dot", "dot">> = SubSeq(text, a, b) /\ a <= b + 1
          /\ Edge(text, a - 1) /\ Edge(text, b + 1)
    BY <1>2, SegmentsAreBetweenEdges
  <2>2. /\ Len(SubSeq(text, a, b)) = 2
        /\ SubSeq(text, a, b)[1] = "dot" /\ SubSeq(text, a, b)[2] = "dot"
    BY <2>1
  <2>3. b = a + 1 /\ text[a] = "dot" /\ text[b] = "dot"
    BY <2>1, <2>2
  <2>4. b \in 2 .. Len(text) /\ b - 1 = a /\ b - 2 = a - 1
    BY <2>3
  <2> QED
    BY <2>1, <2>3, <2>4 DEF TwoDotsBetween
<1> QED
  BY <1>1, <1>2

(* The rule of references, said of bytes. *)
LEMMA RuleOfBytes ==
  ASSUME NEW text \in Seq(Bytes)
  PROVE  ValidSecretReference(text) <=> Plain(text) /\ Len(text) <= MaxBytes
<1>1. Segments(text) \cap {<<"dot">>, <<"dot", "dot">>} = {}
        <=> ~DotBetween(text) /\ ~TwoDotsBetween(text)
  BY DotSegments, TwoDotSegments
<1>2. ConsistsOf(text, {"word", "dot", "slash"})
        <=> \A i \in 1 .. Len(text) : text[i] \in {"word", "dot", "slash"}
  BY DEF ConsistsOf
<1> QED
  BY <1>1, <1>2 DEF ValidSecretReference, Plain

--------------------------------------------------------------------------------
(* References and paths: names, and paths made longer by one.               *)

Nameable(text) ==
  /\ text \in Seq(Bytes) /\ Len(text) \in 1 .. MaxBytes
  /\ \A i \in 1 .. Len(text) : text[i] \in {"word", "dot"}
  /\ ~(Len(text) = 1 /\ text[1] = "dot")
  /\ ~(Len(text) = 2 /\ text[1] = "dot" /\ text[2] = "dot")

LEMMA NamesAreNameable ==
  ASSUME NEW text
  PROVE  text \in Names <=> Nameable(text)
<1> DEFINE dot  == <<"dot">>
           dots == <<"dot", "dot">>
<1>1. /\ dot \in Seq(Bytes) /\ Len(dot) = 1 /\ dot[1] = "dot"
      /\ dots \in Seq(Bytes) /\ Len(dots) = 2 /\ dots[1] = "dot" /\ dots[2] = "dot"
  BY DEF Bytes
<1>2. text \in Names <=> /\ \E n \in 1 .. MaxBytes : text \in [1 .. n -> {"word", "dot"}]
                         /\ text # dot /\ text # dots
  BY DEF Names
<1> HIDE DEF dot, dots
<1>3. ASSUME text \in Names PROVE Nameable(text)
  <2>1. PICK n \in 1 .. MaxBytes : text \in [1 .. n -> {"word", "dot"}]
    BY <1>2, <1>3
  <2>2. /\ text \in Seq(Bytes) /\ Len(text) = n
        /\ \A i \in 1 .. n : text[i] \in {"word", "dot"}
    BY <2>1, ValidationAssumption DEF Bytes
  <2>3. ~(Len(text) = 1 /\ text[1] = "dot")
    <3> SUFFICES ASSUME Len(text) = 1, text[1] = "dot" PROVE FALSE
      OBVIOUS
    <3>1. \A i \in 1 .. Len(text) : text[i] = dot[i]
      BY <1>1
    <3> QED
      BY <1>1, <1>2, <1>3, <2>2, <3>1, SeqEqual
  <2>4. ~(Len(text) = 2 /\ text[1] = "dot" /\ text[2] = "dot")
    <3> SUFFICES ASSUME Len(text) = 2, text[1] = "dot", text[2] = "dot" PROVE FALSE
      OBVIOUS
    <3>1. \A i \in 1 .. Len(text) : text[i] = dots[i]
      BY <1>1
    <3> QED
      BY <1>1, <1>2, <1>3, <2>2, <3>1, SeqEqual
  <2> QED
    BY <2>2, <2>3, <2>4 DEF Nameable
<1>4. ASSUME Nameable(text) PROVE text \in Names
  <2>1. text # dot /\ text # dots
    BY <1>1, <1>4 DEF Nameable
  <2>2. text \in [1 .. Len(text) -> {"word", "dot"}] /\ Len(text) \in 1 .. MaxBytes
    BY <1>4 DEF Nameable
  <2> QED
    BY <1>2, <2>1, <2>2
<1> QED
  BY <1>3, <1>4

LEMMA NamesArePlain ==
  ASSUME NEW name \in Names
  PROVE  name \in Seq(Bytes) /\ Plain(name) /\ Len(name) <= MaxBytes
<1>1. Nameable(name)
  BY NamesAreNameable
<1>2. \A i \in 1 .. Len(name) : name[i] # "slash"
  BY <1>1 DEF Nameable
<1>3. ~DotBetween(name)
  <2> SUFFICES ASSUME NEW i \in 1 .. Len(name), name[i] = "dot", Edge(name, i - 1),
                      Edge(name, i + 1)
               PROVE  FALSE
    BY DEF DotBetween
  <2>1. i = 1
    BY <1>1, <1>2 DEF Edge, Nameable
  <2>2. i = Len(name)
    BY <1>1, <1>2 DEF Edge, Nameable
  <2> QED
    BY <1>1, <2>1, <2>2 DEF Nameable
<1>4. ~TwoDotsBetween(name)
  <2> SUFFICES ASSUME NEW i \in 2 .. Len(name), name[i - 1] = "dot", name[i] = "dot",
                      Edge(name, i - 2), Edge(name, i + 1)
               PROVE  FALSE
    BY DEF TwoDotsBetween
  <2>1. i = 2
    BY <1>1, <1>2 DEF Edge, Nameable
  <2>2. i = Len(name)
    BY <1>1, <1>2 DEF Edge, Nameable
  <2> QED
    BY <1>1, <2>1, <2>2 DEF Nameable
<1> QED
  BY <1>1, <1>2, <1>3, <1>4 DEF Nameable, Plain

(* Path, slash and name, byte by byte. *)
LEMMA JoinedBytes ==
  ASSUME NEW p \in Seq(Bytes), NEW name \in Seq(Bytes)
  PROVE  /\ p \o <<"slash">> \o name \in Seq(Bytes)
         /\ Len(p \o <<"slash">> \o name) = Len(p) + 1 + Len(name)
         /\ \A i \in 1 .. Len(p) : (p \o <<"slash">> \o name)[i] = p[i]
         /\ (p \o <<"slash">> \o name)[Len(p) + 1] = "slash"
         /\ \A i \in 1 .. Len(name) : (p \o <<"slash">> \o name)[Len(p) + 1 + i] = name[i]
<1> DEFINE slash == <<"slash">>
           left  == p \o slash
<1>1. slash \in Seq(Bytes) /\ Len(slash) = 1 /\ slash[1] = "slash"
  BY DEF Bytes
<1> HIDE DEF slash
<1>2. /\ left \in Seq(Bytes) /\ Len(left) = Len(p) + 1
      /\ \A i \in 1 .. Len(p) + 1 : left[i] = IF i <= Len(p) THEN p[i] ELSE slash[i - Len(p)]
  BY <1>1, ConcatProperties
<1>3. \A i \in 1 .. Len(p) : left[i] = p[i]
  BY <1>2
<1>4. left[Len(p) + 1] = "slash"
  BY <1>1, <1>2
<1> HIDE DEF left
<1>5. left \in Seq(Bytes)
  BY <1>2
<1>6. /\ left \o name \in Seq(Bytes) /\ Len(left \o name) = Len(left) + Len(name)
      /\ \A i \in 1 .. Len(left) + Len(name) :
           (left \o name)[i] = IF i <= Len(left) THEN left[i] ELSE name[i - Len(left)]
  BY ONLY <1>5, name \in Seq(Bytes), ConcatProperties
<1>7. \A i \in 1 .. Len(p) + 1 : (left \o name)[i] = left[i]
  BY <1>2, <1>6
<1>8. \A i \in 1 .. Len(name) : (left \o name)[Len(p) + 1 + i] = name[i]
  BY <1>2, <1>6
<1> QED
  BY <1>2, <1>3, <1>4, <1>6, <1>7, <1>8 DEF left, slash

LEMMA JoinIsPlain ==
  ASSUME NEW p \in Seq(Bytes), Plain(p), NEW name \in Names
  PROVE  p \o <<"slash">> \o name \in Seq(Bytes) /\ Plain(p \o <<"slash">> \o name)
<1> DEFINE t == p \o <<"slash">> \o name
           n == Len(p)
           m == Len(name)
<1>1. name \in Seq(Bytes) /\ Plain(name) /\ \A i \in 1 .. m : name[i] # "slash"
  BY NamesArePlain, NamesAreNameable DEF Nameable
<1>2. /\ t \in Seq(Bytes) /\ Len(t) = n + 1 + m /\ t[n + 1] = "slash"
      /\ \A i \in 1 .. n : t[i] = p[i]
      /\ \A i \in 1 .. m : t[n + 1 + i] = name[i]
  BY <1>1, JoinedBytes
<1>3. n \in Nat \ {0} /\ m \in Nat \ {0}
  BY <1>1 DEF Plain
<1> HIDE DEF t, n, m
<1>4. \A i \in 1 .. Len(t) : \/ i \in 1 .. n /\ t[i] = p[i]
                             \/ i = n + 1 /\ t[i] = "slash"
                             \/ i - n - 1 \in 1 .. m /\ t[i] = name[i - n - 1]
  <2> SUFFICES ASSUME NEW i \in 1 .. Len(t), i > n + 1
               PROVE  i - n - 1 \in 1 .. m /\ t[i] = name[i - n - 1]
    BY <1>2, <1>3
  <2> DEFINE j == i - n - 1
  <2>1. j \in 1 .. m /\ i = n + 1 + j
    BY <1>2, <1>3
  <2> QED
    BY <1>2, <2>1
<1>5. ASSUME NEW i \in 0 .. n + 1, Edge(t, i) PROVE Edge(p, i)
  BY <1>2, <1>3, <1>5 DEF Edge, n
<1>6. ASSUME NEW i \in 0 .. m + 1, Edge(t, n + 1 + i) PROVE Edge(name, i)
  BY <1>2, <1>3, <1>6 DEF Edge, m
<1>7. ~DotBetween(t)
  <2> SUFFICES ASSUME NEW i \in 1 .. Len(t), t[i] = "dot", Edge(t, i - 1), Edge(t, i + 1)
               PROVE  FALSE
    BY DEF DotBetween
  <2>1. CASE i \in 1 .. n
    <3>1. Edge(p, i - 1) /\ Edge(p, i + 1)
      BY <1>3, <1>5, <2>1
    <3> QED
      BY <1>2, <2>1, <3>1 DEF Plain, DotBetween, n
  <2>2. CASE i - n - 1 \in 1 .. m
    <3> DEFINE j == i - n - 1
    <3>1. i - 1 = n + 1 + (j - 1) /\ i + 1 = n + 1 + (j + 1) /\ i = n + 1 + j
      BY <1>3
    <3>2. j \in 1 .. m /\ j - 1 \in 0 .. m + 1 /\ j + 1 \in 0 .. m + 1
      BY <1>3, <2>2
    <3>3. t[n + 1 + j] = name[j]
      BY <1>2, <3>2
    <3> HIDE DEF j
    <3>4. Edge(name, j - 1) /\ Edge(name, j + 1)
      BY <1>6, <3>1, <3>2
    <3> QED
      BY <1>1, <3>1, <3>2, <3>3, <3>4 DEF Plain, DotBetween, m
  <2> QED
    BY <1>4, <2>1, <2>2
<1>8. ~TwoDotsBetween(t)
  <2> SUFFICES ASSUME NEW i \in 2 .. Len(t), t[i - 1] = "dot", t[i] = "dot",
                      Edge(t, i - 2), Edge(t, i + 1)
               PROVE  FALSE
    BY DEF TwoDotsBetween
  <2>1. i \in 1 .. Len(t) /\ i - 1 \in 1 .. Len(t)
    BY <1>2, <1>3
  <2>2. CASE i \in 1 .. n
    <3>1. Edge(p, i - 2) /\ Edge(p, i + 1) /\ i \in 2 .. n /\ i - 1 \in 1 .. n
      BY <1>3, <1>5, <2>2
    <3> QED
      BY <1>2, <2>2, <3>1 DEF Plain, TwoDotsBetween, n
  <2>3. CASE i - n - 1 \in 1 .. m
    <3> DEFINE j == i - n - 1
    <3>1. i - 2 = n + 1 + (j - 2) /\ i - 1 = n + 1 + (j - 1) /\ i + 1 = n + 1 + (j + 1)
          /\ i = n + 1 + j
      BY <1>3
    <3>2. i - 1 # n + 1
      BY <1>2
    <3>3. j \in 2 .. m /\ j - 1 \in 1 .. m /\ j - 2 \in 0 .. m + 1 /\ j + 1 \in 0 .. m + 1
      BY <1>3, <2>3, <3>2
    <3>4. t[n + 1 + j] = name[j] /\ t[n + 1 + (j - 1)] = name[j - 1]
      BY <1>2, <3>3
    <3> HIDE DEF j
    <3>5. Edge(name, j - 2) /\ Edge(name, j + 1)
      BY <1>6, <3>1, <3>3
    <3> QED
      BY <1>1, <3>1, <3>3, <3>4, <3>5 DEF Plain, TwoDotsBetween, m
  <2> QED
    BY <1>4, <2>1, <2>2, <2>3
<1>9. \A i \in 2 .. Len(t) : ~(t[i - 1] = "slash" /\ t[i] = "slash")
  <2> SUFFICES ASSUME NEW i \in 2 .. Len(t), t[i - 1] = "slash", t[i] = "slash" PROVE FALSE
    OBVIOUS
  <2>1. i \in 1 .. Len(t) /\ i - 1 \in 1 .. Len(t)
    BY <1>2, <1>3
  <2>2. i \in 1 .. n + 1
    <3>1. ASSUME i - n - 1 \in 1 .. m, t[i] = name[i - n - 1] PROVE FALSE
      <4> DEFINE j == i - n - 1
      <4>1. j \in 1 .. m /\ name[j] = "slash"
        BY <3>1
      <4> HIDE DEF j
      <4> QED
        BY <1>1, <4>1
    <3> QED
      BY <1>3, <1>4, <2>1, <3>1
  <2>3. i # n + 1
    BY <1>2, <1>3 DEF Plain, n
  <2> QED
    BY <1>2, <1>3, <2>2, <2>3 DEF Plain, n
<1>10. \A i \in 1 .. Len(t) : t[i] \in {"word", "dot", "slash"}
  BY <1>1, <1>4 DEF Plain, n, m
<1>11. t # <<>> /\ t[1] # "slash" /\ t[Len(t)] # "slash"
  <2>1. t[1] = p[1] /\ t[n + 1 + m] = name[m]
    BY <1>2, <1>3
  <2> QED
    BY <1>1, <1>2, <1>3, <2>1 DEF Plain
<1> QED
  BY <1>2, <1>7, <1>8, <1>9, <1>10, <1>11 DEF Plain, t

--------------------------------------------------------------------------------
(* References and paths: a reference parted at its last slash.              *)

LEMMA LeastNatural ==
  ASSUME NEW S \in SUBSET Nat, S # {}
  PROVE  \E least \in S : \A x \in S : least <= x
<1>1. PICK least \in S : \A x \in S : ~(<<x, least>> \in OpToRel(<, Nat))
  BY NatLessThanWellFounded, WFMin
<1>2. \A x \in S : ~(x < least)
  BY <1>1 DEF OpToRel
<1> QED
  BY <1>2

LEMMA LastSlash ==
  ASSUME NEW text \in Seq(Bytes), NEW i \in 1 .. Len(text), text[i] = "slash"
  PROVE  \E k \in 1 .. Len(text) : /\ text[k] = "slash"
                                   /\ \A x \in k + 1 .. Len(text) : text[x] # "slash"
<1> DEFINE After == {x \in Nat : x < Len(text) /\ text[Len(text) - x] = "slash"}
<1>1. Len(text) - i \in After
  <2>1. Len(text) - (Len(text) - i) = i
    OBVIOUS
  <2> QED
    BY <2>1
<1>2. PICK least \in After : \A x \in After : least <= x
  BY <1>1, LeastNatural
<1> DEFINE k == Len(text) - least
<1>3. k \in 1 .. Len(text) /\ text[k] = "slash"
  BY <1>2
<1>4. ASSUME NEW x \in k + 1 .. Len(text), text[x] = "slash" PROVE FALSE
  <2>1. x \in Nat /\ Len(text) - x \in Nat /\ Len(text) - (Len(text) - x) = x
    BY <1>3, <1>4
  <2>2. Len(text) - x < Len(text) /\ Len(text) - x < least
    BY <1>2, <1>3, <1>4
  <2>3. Len(text) - x \in After
    BY <1>4, <2>1, <2>2
  <2> QED
    BY <1>2, <2>2, <2>3
<1> QED
  BY <1>3, <1>4

LEMMA WithoutSlash ==
  ASSUME NEW t \in Seq(Bytes), Plain(t), Len(t) <= MaxBytes,
         \A i \in 1 .. Len(t) : t[i] # "slash"
  PROVE  t \in Names
<1>1. Len(t) \in 1 .. MaxBytes /\ \A i \in 1 .. Len(t) : t[i] \in {"word", "dot"}
  BY ValidationAssumption DEF Plain
<1>2. ~(Len(t) = 1 /\ t[1] = "dot")
  BY DEF Plain, DotBetween, Edge
<1>3. ~(Len(t) = 2 /\ t[1] = "dot" /\ t[2] = "dot")
  BY DEF Plain, TwoDotsBetween, Edge
<1> QED
  BY <1>1, <1>2, <1>3, NamesAreNameable DEF Nameable

LEMMA AtLastSlash ==
  ASSUME NEW t \in Seq(Bytes), Plain(t), Len(t) <= MaxBytes,
         NEW k \in 1 .. Len(t), t[k] = "slash", \A i \in k + 1 .. Len(t) : t[i] # "slash"
  PROVE  \E p \in Seq(Bytes), name \in Names :
           Plain(p) /\ Len(p) <= Len(t) - 2 /\ t = p \o <<"slash">> \o name
<1> DEFINE p    == SubSeq(t, 1, k - 1)
           name == SubSeq(t, k + 1, Len(t))
           n    == k - 1
           m    == Len(t) - k
<1>1. k \in 2 .. Len(t) - 1 /\ Len(t) \in Nat
  BY DEF Plain
<1>2. p \in Seq(Bytes) /\ Len(p) = n /\ \A i \in 1 .. n : p[i] = t[i]
  <2>1. \A i \in 1 .. k - 1 : t[i] \in Bytes
    OBVIOUS
  <2>2. /\ p \in Seq(Bytes) /\ Len(p) = (IF 1 <= k - 1 THEN k - 1 - 1 + 1 ELSE 0)
        /\ \A i \in 1 .. k - 1 - 1 + 1 : p[i] = t[1 + i - 1]
    BY <2>1, SubSeqProperties
  <2> HIDE DEF p, name
  <2>3. /\ 1 <= k - 1 /\ k - 1 - 1 + 1 = n
        /\ \A i \in 1 .. n : 1 + i - 1 = i
    BY <1>1
  <2> HIDE DEF n
  <2> QED
    BY <2>2, <2>3
<1>3. name \in Seq(Bytes) /\ Len(name) = m /\ \A i \in 1 .. m : name[i] = t[k + i]
  <2>1. \A i \in k + 1 .. Len(t) : t[i] \in Bytes
    OBVIOUS
  <2>2. /\ name \in Seq(Bytes)
        /\ Len(name) = (IF k + 1 <= Len(t) THEN Len(t) - (k + 1) + 1 ELSE 0)
        /\ \A i \in 1 .. Len(t) - (k + 1) + 1 : name[i] = t[k + 1 + i - 1]
    BY <2>1, SubSeqProperties
  <2>3. /\ k + 1 <= Len(t) /\ Len(t) - (k + 1) + 1 = m
        /\ \A i \in 1 .. m : k + 1 + i - 1 = k + i
    BY <1>1
  <2> HIDE DEF name, m
  <2> QED
    BY <2>2, <2>3
<1>4. n \in Nat \ {0} /\ m \in Nat \ {0} /\ Len(t) = n + 1 + m /\ k = n + 1
  BY <1>1
<1> HIDE DEF p, name, n, m
<1>5. Plain(p)
  <2>1. ASSUME NEW i \in 0 .. n + 1, Edge(p, i) PROVE Edge(t, i)
    BY <1>1, <1>4, <1>2, <2>1 DEF Edge
  <2>2. ~DotBetween(p)
    <3> SUFFICES ASSUME NEW i \in 1 .. n, p[i] = "dot", Edge(p, i - 1), Edge(p, i + 1)
                 PROVE  FALSE
      BY <1>2 DEF DotBetween
    <3>1. Edge(t, i - 1) /\ Edge(t, i + 1) /\ t[i] = "dot" /\ i \in 1 .. Len(t)
      BY <1>1, <1>4, <1>2, <2>1
    <3> QED
      BY <3>1 DEF Plain, DotBetween
  <2>3. ~TwoDotsBetween(p)
    <3> SUFFICES ASSUME NEW i \in 2 .. n, p[i - 1] = "dot", p[i] = "dot",
                        Edge(p, i - 2), Edge(p, i + 1)
                 PROVE  FALSE
      BY <1>2 DEF TwoDotsBetween
    <3>1. /\ Edge(t, i - 2) /\ Edge(t, i + 1) /\ i \in 2 .. Len(t)
          /\ t[i - 1] = "dot" /\ t[i] = "dot"
      BY <1>1, <1>4, <1>2, <2>1
    <3> QED
      BY <3>1 DEF Plain, TwoDotsBetween
  <2>4. /\ p # <<>> /\ p[1] # "slash" /\ p[n] # "slash"
        /\ \A i \in 2 .. n : ~(p[i - 1] = "slash" /\ p[i] = "slash")
        /\ \A i \in 1 .. n : p[i] \in {"word", "dot", "slash"}
    BY <1>1, <1>4, <1>2 DEF Plain
  <2> QED
    BY <1>2, <2>2, <2>3, <2>4 DEF Plain
<1>6. name \in Names
  <2>1. \A i \in 1 .. m : name[i] \in {"word", "dot"}
    <3> TAKE i \in 1 .. m
    <3>1. k + i \in 1 .. Len(t) /\ k + i \in k + 1 .. Len(t)
      BY <1>1, <1>4
    <3> QED
      BY <1>3, <3>1 DEF Plain
  <2>2. Edge(t, k) /\ Edge(t, k + m + 1)
    BY <1>1, <1>4 DEF Edge
  <2>3. ~(m = 1 /\ name[1] = "dot")
    <3> SUFFICES ASSUME m = 1, name[1] = "dot" PROVE FALSE
      OBVIOUS
    <3>1. t[k + 1] = "dot" /\ k + 1 \in 1 .. Len(t) /\ (k + 1) - 1 = k /\ (k + 1) + 1 = k + m + 1
      BY <1>1, <1>4, <1>3
    <3> QED
      BY <2>2, <3>1 DEF Plain, DotBetween
  <2>4. ~(m = 2 /\ name[1] = "dot" /\ name[2] = "dot")
    <3> SUFFICES ASSUME m = 2, name[1] = "dot", name[2] = "dot" PROVE FALSE
      OBVIOUS
    <3>1. /\ t[k + 1] = "dot" /\ t[k + 2] = "dot" /\ k + 2 \in 2 .. Len(t)
          /\ (k + 2) - 1 = k + 1 /\ (k + 2) - 2 = k /\ (k + 2) + 1 = k + m + 1
      BY <1>1, <1>4, <1>3
    <3> QED
      BY <2>2, <3>1 DEF Plain, TwoDotsBetween
  <2>5. m \in 1 .. MaxBytes
    BY <1>1, <1>4, ValidationAssumption
  <2> QED
    BY <1>3, <2>1, <2>3, <2>4, <2>5, NamesAreNameable DEF Nameable
<1>7. t = p \o <<"slash">> \o name
  <2> DEFINE joined == p \o <<"slash">> \o name
  <2>1. /\ joined \in Seq(Bytes) /\ Len(joined) = n + 1 + m /\ joined[n + 1] = "slash"
        /\ \A i \in 1 .. n : joined[i] = p[i]
        /\ \A i \in 1 .. m : joined[n + 1 + i] = name[i]
    BY <1>2, <1>3, JoinedBytes
  <2> HIDE DEF joined
  <2>2. ASSUME NEW i \in 1 .. Len(t) PROVE t[i] = joined[i]
    <3>1. CASE i \in 1 .. n
      BY <1>2, <2>1, <3>1
    <3>2. CASE i = n + 1
      BY <1>1, <1>4, <2>1, <3>2
    <3>3. CASE i - k \in 1 .. m
      <4> DEFINE j == i - k
      <4>1. i = k + j /\ i = n + 1 + j /\ j \in 1 .. m
        BY <1>1, <1>4, <3>3
      <4> HIDE DEF j
      <4> QED
        BY <1>3, <2>1, <4>1
    <3> QED
      BY <1>1, <1>4, <3>1, <3>2, <3>3
  <2>3. Len(t) = Len(joined)
    BY <1>1, <1>4, <2>1
  <2>4. t = joined
    BY <2>1, <2>2, <2>3, SeqEqual
  <2> QED
    BY <2>4 DEF joined
<1>8. Len(p) <= Len(t) - 2
  BY <1>1, <1>2, <1>4
<1> QED
  BY <1>2, <1>5, <1>6, <1>7, <1>8

--------------------------------------------------------------------------------
(* References and paths: PathsDownTo, depth by depth.                       *)

LEMMA NaturalsByStep ==
  ASSUME NEW S \in SUBSET Nat, 0 \in S, \A n \in S : n + 1 \in S
  PROVE  S = Nat
<1> SUFFICES ASSUME Nat \ S # {} PROVE FALSE
  OBVIOUS
<1>1. PICK least \in Nat \ S : \A x \in Nat \ S : least <= x
  BY LeastNatural
<1>2. least - 1 \in Nat /\ least - 1 < least
  BY <1>1
<1>3. least - 1 \in S
  BY <1>1, <1>2
<1>4. (least - 1) + 1 = least
  BY <1>1
<1> QED
  BY <1>1, <1>3, <1>4

(* The depths up to n, each made of the one before. *)
IsLadder(f, n) ==
  /\ f = [d \in 0 .. n |-> f[d]] /\ f[0] = Names
  /\ \A d \in 1 .. n : f[d] = Deeper(f[d - 1])

LEMMA LaddersExist == \A n \in Nat : \E f : IsLadder(f, n)
<1> DEFINE S == {n \in Nat : \E f : IsLadder(f, n)}
<1>1. 0 \in S
  <2>1. IsLadder([d \in 0 .. 0 |-> Names], 0)
    BY DEF IsLadder
  <2> QED
    BY <2>1
<1>2. ASSUME NEW n \in S PROVE n + 1 \in S
  <2>1. PICK f : IsLadder(f, n)
    OBVIOUS
  <2> DEFINE g == [d \in 0 .. n + 1 |-> IF d = n + 1 THEN Deeper(f[n]) ELSE f[d]]
  <2>2. g = [d \in 0 .. n + 1 |-> g[d]]
    OBVIOUS
  <2>3. g[0] = Names
    BY <2>1 DEF IsLadder
  <2>4. ASSUME NEW d \in 1 .. n + 1 PROVE g[d] = Deeper(g[d - 1])
    <3>1. CASE d = n + 1
      BY <3>1
    <3>2. CASE d # n + 1
      <4>1. d \in 1 .. n /\ d - 1 \in 0 .. n + 1 /\ d - 1 # n + 1
        BY <3>2
      <4>2. g[d] = f[d] /\ g[d - 1] = f[d - 1]
        BY <3>2, <4>1
      <4>3. f[d] = Deeper(f[d - 1])
        BY <2>1, <4>1 DEF IsLadder
      <4> QED
        BY <4>2, <4>3
    <3> QED
      BY <3>1, <3>2
  <2> HIDE DEF g
  <2>5. IsLadder(g, n + 1)
    BY <2>2, <2>3, <2>4 DEF IsLadder
  <2> QED
    BY <2>5
<1> HIDE DEF S
<1>3. S = Nat
  BY <1>1, <1>2, NaturalsByStep DEF S
<1> QED
  BY <1>3 DEF S

LEMMA LaddersAgree ==
  ASSUME NEW n \in Nat, NEW m \in Nat, NEW f, NEW g, IsLadder(f, n), IsLadder(g, m)
  PROVE  \A d \in 0 .. n : d <= m => f[d] = g[d]
<1> DEFINE S == {d \in Nat : d <= n /\ d <= m => f[d] = g[d]}
<1>1. 0 \in S
  BY DEF IsLadder
<1>2. ASSUME NEW d \in S PROVE d + 1 \in S
  <2> SUFFICES ASSUME d + 1 <= n, d + 1 <= m PROVE f[d + 1] = g[d + 1]
    OBVIOUS
  <2>1. f[d] = g[d]
    OBVIOUS
  <2>2. d + 1 \in 1 .. n /\ d + 1 \in 1 .. m /\ (d + 1) - 1 = d
    OBVIOUS
  <2>3. f[d + 1] = Deeper(f[d]) /\ g[d + 1] = Deeper(g[d])
    BY <2>2 DEF IsLadder
  <2> QED
    BY <2>1, <2>3
<1> HIDE DEF S
<1>3. S = Nat
  BY <1>1, <1>2, NaturalsByStep DEF S
<1> QED
  BY <1>3 DEF S

LEMMA PathsAreRecursive ==
  /\ PathsDownTo[0] = Names
  /\ \A d \in Nat : PathsDownTo[d + 1] = Deeper(PathsDownTo[d])
<1> DEFINE Ladder(n) == CHOOSE f : IsLadder(f, n)
           F         == [d \in Nat |-> Ladder(d)[d]]
           Recursive(f) == f = [depth \in Nat |-> IF depth = 0 THEN Names
                                                  ELSE Deeper(f[depth - 1])]
<1>1. \A n \in Nat : IsLadder(Ladder(n), n)
  BY LaddersExist
<1> HIDE DEF Ladder
<1>2. F[0] = Names
  BY <1>1 DEF IsLadder
<1>3. ASSUME NEW d \in Nat, d # 0 PROVE F[d] = Deeper(F[d - 1])
  <2>1. d \in 1 .. d /\ d - 1 \in Nat /\ d - 1 \in 0 .. d /\ d - 1 <= d - 1
    BY <1>3
  <2>2. Ladder(d)[d] = Deeper(Ladder(d)[d - 1])
    BY <1>1, <2>1 DEF IsLadder
  <2>3. Ladder(d)[d - 1] = Ladder(d - 1)[d - 1]
    BY <1>1, <2>1, LaddersAgree
  <2> QED
    BY <2>1, <2>2, <2>3
<1>4. F = [depth \in Nat |-> IF depth = 0 THEN Names ELSE Deeper(F[depth - 1])]
  BY <1>2, <1>3
<1> HIDE DEF F
<1>5. Recursive(F)
  BY <1>4
<1>6. PathsDownTo = CHOOSE f : Recursive(f)
  BY DEF PathsDownTo
<1> HIDE DEF Recursive
<1>7. Recursive(PathsDownTo)
  BY <1>5, <1>6
<1>8. PathsDownTo = [depth \in Nat |-> IF depth = 0 THEN Names
                                       ELSE Deeper(PathsDownTo[depth - 1])]
  BY <1>7 DEF Recursive
<1>9. \A d \in Nat : d + 1 \in Nat /\ d + 1 # 0 /\ (d + 1) - 1 = d
  OBVIOUS
<1> QED
  BY ONLY <1>8, <1>9

LEMMA DeeperPaths ==
  ASSUME NEW paths
  PROVE  /\ paths \subseteq Deeper(paths)
         /\ \A p \in paths, name \in Names : p \o <<"slash">> \o name \in Deeper(paths)
         /\ \A t \in Deeper(paths) \ paths :
              \E p \in paths, name \in Names : t = p \o <<"slash">> \o name
<1> DEFINE Joined(join) == join[1] \o <<"slash">> \o join[2]
<1>1. Deeper(paths) = paths \cup {Joined(join) : join \in paths \X Names}
  BY DEF Deeper
<1>2. ASSUME NEW p \in paths, NEW name \in Names
      PROVE  p \o <<"slash">> \o name \in Deeper(paths)
  <2>1. <<p, name>> \in paths \X Names /\ Joined(<<p, name>>) = p \o <<"slash">> \o name
    OBVIOUS
  <2> HIDE DEF Joined
  <2> QED
    BY <1>1, <2>1
<1>3. ASSUME NEW t \in Deeper(paths) \ paths
      PROVE  \E p \in paths, name \in Names : t = p \o <<"slash">> \o name
  <2> HIDE DEF Joined
  <2>1. PICK join \in paths \X Names : t = Joined(join)
    BY <1>1
  <2>2. join[1] \in paths /\ join[2] \in Names
    OBVIOUS
  <2>3. t = join[1] \o <<"slash">> \o join[2]
    BY <2>1 DEF Joined
  <2> QED
    BY <2>2, <2>3
<1> QED
  BY <1>1, <1>2, <1>3

(* Every path there is, however deep, is plain. *)
LEMMA PathsArePlain ==
  ASSUME NEW d \in Nat, NEW p \in PathsDownTo[d]
  PROVE  p \in Seq(Bytes) /\ Plain(p)
<1> DEFINE S == {n \in Nat : \A t \in PathsDownTo[n] : t \in Seq(Bytes) /\ Plain(t)}
<1>1. 0 \in S
  BY PathsAreRecursive, NamesArePlain
<1>2. ASSUME NEW n \in S PROVE n + 1 \in S
  <2> SUFFICES ASSUME NEW t \in PathsDownTo[n + 1] PROVE t \in Seq(Bytes) /\ Plain(t)
    OBVIOUS
  <2>1. t \in Deeper(PathsDownTo[n])
    BY PathsAreRecursive
  <2>2. CASE t \in PathsDownTo[n]
    BY <2>2
  <2>3. CASE t \notin PathsDownTo[n]
    <3>1. PICK q \in PathsDownTo[n], name \in Names : t = q \o <<"slash">> \o name
      BY <2>1, <2>3, DeeperPaths
    <3>2. q \in Seq(Bytes) /\ Plain(q)
      OBVIOUS
    <3> QED
      BY <3>1, <3>2, JoinIsPlain
  <2> QED
    BY <2>2, <2>3
<1> HIDE DEF S
<1>3. S = Nat
  BY <1>1, <1>2, NaturalsByStep DEF S
<1> QED
  BY <1>3 DEF S

LEMMA NamesArePaths == \A d \in Nat : Names \subseteq PathsDownTo[d]
<1> DEFINE S == {n \in Nat : Names \subseteq PathsDownTo[n]}
<1>1. 0 \in S
  BY PathsAreRecursive
<1>2. ASSUME NEW n \in S PROVE n + 1 \in S
  <2>1. PathsDownTo[n] \subseteq PathsDownTo[n + 1]
    BY PathsAreRecursive, DeeperPaths
  <2> QED
    BY <2>1
<1> HIDE DEF S
<1>3. S = Nat
  BY <1>1, <1>2, NaturalsByStep DEF S
<1> QED
  BY <1>3 DEF S

(* Every plain text is a path, of a depth that its length bounds: each      *)
(* segment takes two bytes, one of them its slash.                          *)
LEMMA PlainArePaths ==
  ASSUME NEW d \in Nat, NEW t \in Seq(Bytes), Plain(t), Len(t) <= MaxBytes, Len(t) <= 2 * d + 1
  PROVE  t \in PathsDownTo[d]
<1> DEFINE Short(n) == {x \in Seq(Bytes) : Plain(x) /\ Len(x) <= MaxBytes /\ Len(x) <= 2 * n + 1}
           S        == {n \in Nat : Short(n) \subseteq PathsDownTo[n]}
<1>1. ASSUME NEW n \in Nat, NEW x \in Short(n)
      PROVE  \/ x \in Names
             \/ \E p \in Seq(Bytes), name \in Names :
                  Plain(p) /\ Len(p) <= Len(x) - 2 /\ x = p \o <<"slash">> \o name
  <2>1. CASE \A i \in 1 .. Len(x) : x[i] # "slash"
    BY <2>1, WithoutSlash
  <2>2. CASE \E i \in 1 .. Len(x) : x[i] = "slash"
    <3>1. PICK k \in 1 .. Len(x) : /\ x[k] = "slash"
                                   /\ \A i \in k + 1 .. Len(x) : x[i] # "slash"
      BY <2>2, LastSlash
    <3> QED
      BY <3>1, AtLastSlash
  <2> QED
    BY <2>1, <2>2
<1>2. 0 \in S
  <2> SUFFICES ASSUME NEW x \in Short(0) PROVE x \in PathsDownTo[0]
    OBVIOUS
  <2>1. \A p \in Seq(Bytes) : ~(Len(p) <= Len(x) - 2)
    OBVIOUS
  <2> QED
    BY <1>1, <2>1, NamesArePaths
<1>3. ASSUME NEW n \in S PROVE n + 1 \in S
  <2> SUFFICES ASSUME NEW x \in Short(n + 1) PROVE x \in PathsDownTo[n + 1]
    OBVIOUS
  <2>1. CASE x \in Names
    BY <2>1, NamesArePaths
  <2>2. ASSUME NEW p \in Seq(Bytes), NEW name \in Names, Plain(p), Len(p) <= Len(x) - 2,
               x = p \o <<"slash">> \o name
        PROVE  x \in PathsDownTo[n + 1]
    <3>1. Len(p) <= 2 * n + 1 /\ Len(p) <= MaxBytes
      BY <2>2, ValidationAssumption
    <3>2. p \in PathsDownTo[n]
      BY <2>2, <3>1
    <3>3. p \o <<"slash">> \o name \in Deeper(PathsDownTo[n])
      BY <3>2, DeeperPaths
    <3> QED
      BY <2>2, <3>3, PathsAreRecursive
  <2> QED
    <3>1. CASE x \in Names
      BY <2>1, <3>1
    <3>2. CASE x \notin Names
      <4>1. n + 1 \in Nat
        OBVIOUS
      <4> HIDE DEF Short
      <4>2. PICK p \in Seq(Bytes), name \in Names :
              Plain(p) /\ Len(p) <= Len(x) - 2 /\ x = p \o <<"slash">> \o name
        BY <1>1, <3>2, <4>1
      <4> QED
        BY <2>2, <4>2
    <3> QED
      BY <3>1, <3>2
<1> HIDE DEF S
<1>4. S = Nat
  BY <1>2, <1>3, NaturalsByStep DEF S
<1> QED
  BY <1>4 DEF S

LEMMA ReferenceIsPath ==
  ASSUME NEW text \in Seq(Bytes)
  PROVE  ValidSecretReference(text) <=> text \in Paths
<1> DEFINE deepest == MaxBytes \div 2
<1>1. deepest \in Nat /\ MaxBytes <= 2 * deepest + 1
  BY ValidationAssumption
<1>2. ASSUME text \in Paths PROVE Plain(text) /\ Len(text) <= MaxBytes
  BY <1>1, <1>2, PathsArePlain DEF Paths
<1>3. ASSUME Plain(text), Len(text) <= MaxBytes PROVE text \in Paths
  <2>1. Len(text) <= 2 * deepest + 1
    BY <1>1, <1>3, ValidationAssumption
  <2>2. text \in PathsDownTo[deepest]
    BY <1>1, <1>3, <2>1, PlainArePaths
  <2> QED
    BY <1>3, <2>2 DEF Paths
<1> QED
  BY <1>2, <1>3, RuleOfBytes

(* The six conditions of valid_secret_reference, P 704-714, leave exactly   *)
(* the paths of named segments, for every limit on their length.            *)
THEOREM PathsAccepted == Spec => []ReferencesArePaths
<1>1. ASSUME IInv PROVE ReferencesArePaths
  <2> SUFFICES ASSUME offer # NULL, offer.schema \in Schemas
               PROVE  error # "InvalidSecretReference" <=> offer.database_url_secret \in Paths
    BY DEF ReferencesArePaths
  <2>1. offer.database_url_secret \in Seq(Bytes) /\ error = Validate(offer)
    BY <1>1, ValidationAssumption DEF IInv, OfferInv, Configs
  <2>2. NULL # "InvalidSecretReference"
    BY ValidationAssumption DEF Errors
  <2>3. error # "InvalidSecretReference" <=> ValidSecretReference(offer.database_url_secret)
    BY <2>1, <2>2 DEF Validate
  <2> QED
    BY <2>1, <2>3, ReferenceIsPath
<1> QED
  BY <1>1, Inductive, PTL
================================================================================
