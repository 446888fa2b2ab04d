------------------------------- MODULE Validation -------------------------------
(***************************************************************************)
(* The rules of texts in the PostgreSQL plugin: names, dimensions and      *)
(* secret references, which configurations are accepted, and which         *)
(* requests each handler takes from whom.  A text is the sequence of the   *)
(* classes of its bytes: the rules tell no two bytes of a class apart.     *)
(* What the handlers do with the tables is GrantTransactions and           *)
(* GrantListing; kept here are the texts of what was granted.              *)
(***************************************************************************)
EXTENDS Naturals, Sequences, FiniteSets

CONSTANTS
  MaxBytes,    \* bytes of the longest text accepted, 256 in the code
  IdBytes,     \* bytes of an id of random_id: "grant_" and 36 of hex
  PageCap,     \* the largest page of a listing, 200 in the code
  Schemas,     \* names the library accepts for an owned schema
  References,  \* database_url_secret of the configurations offered
  Texts,       \* members of the requests made
  PageLimits,  \* limits of the listings asked for
  CallerTexts, \* names of instances that are configured, or call
  MaxGrants,   \* bound: grants stored at once
  NULL

(* Alphanumerics, "_" and "-" are "word"; everything else is "other". *)
Bytes == {"word", "dot", "colon", "slash", "other"}

(* EntitlementsConfigError *)
Errors == {"InvalidSchema", "InvalidSecretReference", "InvalidResolveCallers",
           "InvalidAdminCallers"}

UnknownSchema == "refused"  \* a schema name the library does not accept

ASSUME ValidationAssumption ==
  /\ MaxBytes \in Nat /\ MaxGrants \in Nat
  /\ PageCap \in Nat \ {0}
  /\ IdBytes \in 1 .. MaxBytes
  /\ PageLimits \subseteq Nat
  /\ \A t \in References \cup Texts \cup CallerTexts : t \in Seq(Bytes)
  /\ NULL \notin References \cup Texts \cup CallerTexts \cup Errors
  /\ UnknownSchema \notin Schemas

VARIABLES
  offer,   \* the configuration last offered
  error,   \* the error it was refused with, if it was
  config,  \* the configuration in force
  grants,  \* the texts of the grants stored
  reply    \* what the last call was told before any table was read

vars == <<offer, error, config, grants, reply>>

--------------------------------------------------------------------------------
(* The rules.                                                               *)

ConsistsOf(text, bytes) == \A i \in DOMAIN text : text[i] \in bytes

ValidName(text) ==
  /\ text # <<>> /\ Len(text) <= MaxBytes
  /\ ConsistsOf(text, {"word", "dot", "colon"})

ValidDimension(text) ==
  ValidName(text) /\ text[1] # "dot" /\ text[Len(text)] # "dot"

(* split('/') *)
Segments(text) ==
  {SubSeq(text, cut[1], cut[2]) : cut \in
     {c \in (1 .. Len(text) + 1) \X (0 .. Len(text)) :
        /\ c[1] <= c[2] + 1
        /\ c[1] = 1 \/ text[c[1] - 1] = "slash"
        /\ c[2] = Len(text) \/ text[c[2] + 1] = "slash"
        /\ \A k \in c[1] .. c[2] : text[k] # "slash"}}

(* Fault: a parent segment is refused, and the segment of one dot is not. *)
ValidReferenceButForDot(text) ==
  /\ text # <<>> /\ Len(text) <= MaxBytes
  /\ text[1] # "slash" /\ text[Len(text)] # "slash"
  /\ \A i \in 2 .. Len(text) : ~(text[i - 1] = "slash" /\ text[i] = "slash")
  /\ <<"dot", "dot">> \notin Segments(text)
  /\ ConsistsOf(text, {"word", "dot", "slash"})

ValidSecretReference(text) ==
  /\ text # <<>> /\ Len(text) <= MaxBytes
  /\ text[1] # "slash" /\ text[Len(text)] # "slash"
  /\ \A i \in 2 .. Len(text) : ~(text[i - 1] = "slash" /\ text[i] = "slash")
  /\ Segments(text) \cap {<<"dot">>, <<"dot", "dot">>} = {}
  /\ ConsistsOf(text, {"word", "dot", "slash"})

--------------------------------------------------------------------------------
(* Configurations.                                                          *)

(* The lists are sets: neither order nor repetition is looked at. *)
Configs == [schema : Schemas \cup {UnknownSchema}, database_url_secret : References,
            resolve_callers : SUBSET CallerTexts, admin_callers : SUBSET CallerTexts]

ValidCallers(callers) == callers # {} /\ \A caller \in callers : ValidName(caller)

(* EntitlementsConfig::validate: the first error, or NULL. *)
Validate(c) ==
  IF c.schema \notin Schemas THEN "InvalidSchema"
  ELSE IF ~ValidSecretReference(c.database_url_secret) THEN "InvalidSecretReference"
  ELSE IF ~ValidCallers(c.resolve_callers) THEN "InvalidResolveCallers"
  ELSE IF ~ValidCallers(c.admin_callers) THEN "InvalidAdminCallers"
  ELSE NULL

--------------------------------------------------------------------------------
(* Requests and what each handler says of them before it turns to the       *)
(* tables.  The limit and the expiry of a put are GrantTransactions'.       *)

Listings == [scope_kind : Texts, scope_id : Texts, subject : Texts \cup {NULL},
             feature : Texts \cup {NULL}, limit : PageLimits, cursor : Texts \cup {NULL}]

Puts == [scope_kind : Texts, scope_id : Texts, subject : Texts, feature : Texts]

(* "grant_" and hex digits. *)
RandomId == [i \in 1 .. IdBytes |-> "word"]

(* The texts of the row a put stores. *)
Granted(q) == [id |-> RandomId, scope_kind |-> q.scope_kind, scope_id |-> q.scope_id,
               subject |-> q.subject, feature |-> q.feature]

(* Fault: the subject of a listing is held to the rule of dimensions. *)
ValidListingOfDimensions(q) ==
  /\ ValidDimension(q.scope_kind) /\ ValidName(q.scope_id)
  /\ q.subject = NULL \/ ValidDimension(q.subject)
  /\ q.feature = NULL \/ ValidDimension(q.feature)
  /\ q.limit \in 1 .. PageCap
  /\ q.cursor = NULL \/ ValidName(q.cursor)

ValidListing(q) ==
  /\ ValidDimension(q.scope_kind) /\ ValidName(q.scope_id)
  /\ q.subject = NULL \/ ValidName(q.subject)
  /\ q.feature = NULL \/ ValidDimension(q.feature)
  /\ q.limit \in 1 .. PageCap
  /\ q.cursor = NULL \/ ValidName(q.cursor)

(* put_grant and resolve_entitlement name a grant by the same four texts. *)
ValidKey(q) ==
  /\ ValidDimension(q.scope_kind) /\ ValidName(q.scope_id)
  /\ ValidName(q.subject) /\ ValidDimension(q.feature)

(* A call without a caller instance is listed nowhere. *)
Screen(caller, callers, valid) ==
  IF caller \notin callers THEN "forbidden" ELSE IF valid THEN "ok" ELSE "invalid"

ScreenList(caller, q) == Screen(caller, config.admin_callers, ValidListing(q))
ScreenPut(caller, q) == Screen(caller, config.admin_callers, ValidKey(q))
ScreenRevoke(caller, id) == Screen(caller, config.admin_callers, ValidName(id))
ScreenResolve(caller, q) == Screen(caller, config.resolve_callers, ValidKey(q))

--------------------------------------------------------------------------------
Init ==
  /\ offer = NULL /\ error = NULL /\ config = NULL
  /\ grants = {}
  /\ reply = NULL

(* EntitlementsConfig::new, or validate_config on a resolved plan. *)
Offer ==
  /\ config = NULL /\ offer = NULL
  /\ \E c \in Configs : offer' = c /\ error' = Validate(c)
  /\ UNCHANGED <<config, grants, reply>>

(* A configuration that was accepted comes into force with the plugin it is *)
(* built into; the operator of one that was not writes another.             *)
Install ==
  /\ offer # NULL
  /\ config' = IF error = NULL
               THEN [resolve_callers |-> offer.resolve_callers,
                     admin_callers |-> offer.admin_callers]
               ELSE NULL
  /\ offer' = NULL /\ error' = NULL
  /\ UNCHANGED <<grants, reply>>

(* The plugin goes, the schema with its grants stays. *)
Uninstall ==
  /\ config # NULL /\ reply = NULL
  /\ config' = NULL
  /\ UNCHANGED <<offer, error, grants, reply>>

Calling(caller) == config # NULL /\ reply = NULL /\ caller \in CallerTexts \cup {NULL}

ListGrants(caller) ==
  /\ Calling(caller)
  /\ \E q \in Listings : reply' = ScreenList(caller, q)
  /\ UNCHANGED <<offer, error, config, grants>>

(* What passes may yet be refused for its limit or expiry, or fail. *)
PutGrant(caller) ==
  /\ Calling(caller)
  /\ \E q \in Puts :
       /\ reply' = ScreenPut(caller, q)
       /\ \/ UNCHANGED grants
          \/ /\ reply' = "ok" /\ Cardinality(grants) < MaxGrants
             /\ grants' = grants \cup {Granted(q)}
  /\ UNCHANGED <<offer, error, config>>

RevokeGrant(caller) ==
  /\ Calling(caller)
  /\ \E id \in Texts \cup {RandomId} : reply' = ScreenRevoke(caller, id)
  /\ UNCHANGED <<offer, error, config, grants>>

ResolveEntitlement(caller) ==
  /\ Calling(caller)
  /\ \E q \in Puts : reply' = ScreenResolve(caller, q)
  /\ UNCHANGED <<offer, error, config, grants>>

Return ==
  /\ reply # NULL
  /\ reply' = NULL
  /\ UNCHANGED <<offer, error, config, grants>>

Next ==
  \/ Offer \/ Install \/ Uninstall \/ Return
  \/ \E caller \in CallerTexts \cup {NULL} :
       ListGrants(caller) \/ PutGrant(caller) \/ RevokeGrant(caller) \/ ResolveEntitlement(caller)

Spec == Init /\ [][Next]_vars

--------------------------------------------------------------------------------
(* Properties.                                                              *)

(* A path of named segments, parted by single slashes: what reads the same  *)
(* to every secret store, one that resolves "." and ".." included.          *)
Names == (UNION {[1 .. n -> {"word", "dot"}] : n \in 1 .. MaxBytes})
           \ {<<"dot">>, <<"dot", "dot">>}

Deeper(paths) ==
  paths \cup {join[1] \o <<"slash">> \o join[2] : join \in paths \X Names}

PathsDownTo[depth \in Nat] == IF depth = 0 THEN Names ELSE Deeper(PathsDownTo[depth - 1])

Paths == {p \in PathsDownTo[MaxBytes \div 2] : Len(p) <= MaxBytes}

(* The secret references accepted are the paths of named segments and no    *)
(* others: none is absolute, climbs, or has a second spelling.              *)
ReferencesArePaths ==
  offer # NULL /\ offer.schema \in Schemas =>
    (error # "InvalidSecretReference" <=> offer.database_url_secret \in Paths)

(* What a put accepts the other handlers accept, whatever configuration has *)
(* come into force since: someone may resolve the grant, and someone may    *)
(* list it by its own names, go on from it, and revoke it by its id.        *)
GrantsAreInReach ==
  config # NULL => \A g \in grants :
    /\ \E caller \in CallerTexts : ScreenResolve(caller, g) = "ok"
    /\ \E caller \in CallerTexts :
         /\ ScreenList(caller, [scope_kind |-> g.scope_kind, scope_id |-> g.scope_id,
                                subject |-> g.subject, feature |-> g.feature,
                                limit |-> PageCap, cursor |-> g.id]) = "ok"
         /\ ScreenRevoke(caller, g.id) = "ok"
--------------------------------------------------------------------------------
(* The inductive invariant behind GrantsAreInReach: what was validated has  *)
(* stayed valid.                                                            *)

OfferInv == offer # NULL => offer \in Configs /\ error = Validate(offer)

ConfigInv ==
  config # NULL => \A callers \in {config.resolve_callers, config.admin_callers} :
                     callers \subseteq CallerTexts /\ ValidCallers(callers)

GrantsInv == \A g \in grants : g.id = RandomId /\ ValidKey(g)

IInv == OfferInv /\ ConfigInv /\ GrantsInv
================================================================================
