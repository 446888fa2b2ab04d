--------------------------- MODULE CapabilityEndpoint ---------------------------
(***************************************************************************)
(* The generated types, endpoints and clients of lenso.entitlements-admin@1 *)
(* and lenso.entitlements@1: what a message is to who receives it, and what *)
(* an outcome of the provider is to a caller, whichever lane carries it.   *)
(* In the process both are handed over as they are; between processes they *)
(* are written as JSON and read back, perhaps by another version.  A       *)
(* message is a record, a JSON object a function on the members it has;    *)
(* the payload and further members an unknown error keeps are one body.    *)
(***************************************************************************)
EXTENDS GrantTables

CONSTANTS
  NewCodes,  \* domain error codes of later versions of the contracts
  Bodies,    \* payload and further members of an error object
  Absent     \* no code, or no body

AdminOperations   == {"list_grants", "put_grant", "revoke_grant"}
ResolveOperations == {"resolve_entitlement"}

(* The domain errors each operation's enum has a variant for. *)
ListGrantsError         == {"forbidden", "invalid_query"}
PutGrantError           == {"forbidden", "invalid_grant"}
RevokeGrantError        == {"forbidden", "invalid_grant", "not_found"}
ResolveEntitlementError == {"forbidden", "invalid_request"}

KnownErrors == [list_grants         |-> ListGrantsError,
                put_grant           |-> PutGrantError,
                revoke_grant        |-> RevokeGrantError,
                resolve_entitlement |-> ResolveEntitlementError]

Codes(operations) == NewCodes \cup UNION {KnownErrors[op] : op \in operations}

ASSUME EndpointAssumption ==
  \A op \in DOMAIN KnownErrors :
    Absent \notin Bodies \cup Codes({op}) /\ KnownErrors[op] \cap NewCodes = {}

--------------------------------------------------------------------------------
(* Messages.  scope stands for scope_kind and scope_id, key for subject and *)
(* feature, id for grant_id.                                                *)

ListGrantsRequest         == {"scope", "key", "status", "limit", "cursor"}
PutGrantRequest           == {"scope", "key", "limit", "expires_at"}
RevokeGrantRequest        == {"id"}
ResolveEntitlementRequest == {"scope", "key"}

RequestMembers == [list_grants         |-> ListGrantsRequest,
                   put_grant           |-> PutGrantRequest,
                   revoke_grant        |-> RevokeGrantRequest,
                   resolve_entitlement |-> ResolveEntitlementRequest]

(* The grants of a page and the id of a put are left to GrantListing and    *)
(* GrantTransactions.                                                       *)
ListGrantsResponse         == {"revision"}
MutationResponse           == {"changed", "revision"}
ResolveEntitlementResponse == {"id", "granted", "limit", "revision"}

ResponseMembers == [list_grants         |-> ListGrantsResponse,
                    put_grant           |-> MutationResponse,
                    revoke_grant        |-> MutationResponse,
                    resolve_entitlement |-> ResolveEntitlementResponse]

(* Serialize: a member for each field, null where it is None. *)
Encode(members, message) == [m \in members |-> message[m]]

(* Fault: a nullable member that is not there is read as null. *)
DecodeMissingAsNull(members, object) ==
  IF members \ {"limit", "expires_at"} \subseteq DOMAIN object
  THEN {[m \in members |-> IF m \in DOMAIN object THEN object[m] ELSE NULL]}
  ELSE {}

(* Deserialize: the message read, or none.  Every member is required, the   *)
(* nullable ones too; further members are passed over.                      *)
Decode(members, object) ==
  IF members \subseteq DOMAIN object THEN {Encode(members, object)} ELSE {}

--------------------------------------------------------------------------------
(* Domain errors.                                                           *)

(* known: a variant of its own; otherwise Unknown(UnknownDomainError). *)
Known(code) == [known |-> TRUE, code |-> code, body |-> Absent]
Unknown(code, body) == [known |-> FALSE, code |-> code, body |-> body]

(* A JSON value where a domain error belongs: a string, an object with or   *)
(* without a string code, or something else.                                *)
Wire(form, code, body) == [form |-> form, code |-> code, body |-> body]

(* What no version of the contract writes as a domain error. *)
Unreadable == {Wire("object", Absent, Absent), Wire("other", Absent, Absent)}

(* Serialize: a known error is a string, an unknown one always an object.   *)
EncodeError(error) ==
  IF error.known THEN Wire("string", error.code, Absent)
  ELSE Wire("object", error.code, error.body)

(* Fault: an object is not accepted where a domain error belongs. *)
DecodeStringError(op, wire) ==
  CASE wire.form = "string" /\ wire.code \in KnownErrors[op] -> {Known(wire.code)}
    [] wire.form = "string" /\ wire.code \notin KnownErrors[op] -> {Unknown(wire.code, Absent)}
    [] OTHER -> {}

(* Deserialize: the error read, or none.  Only a string names a variant.    *)
DecodeError(op, wire) ==
  CASE wire.form = "string" /\ wire.code \in KnownErrors[op] -> {Known(wire.code)}
    [] wire.form = "string" /\ wire.code \notin KnownErrors[op] -> {Unknown(wire.code, Absent)}
    [] wire.form = "object" /\ wire.code # Absent -> {Unknown(wire.code, wire.body)}
    [] OTHER -> {}

(* Who names an error has a variant for its code and writes a string.  Who  *)
(* passes it on without having one keeps it as an unknown error and writes  *)
(* an object, which stays unknown to whoever reads it, variant or not.      *)
ErrorsFor(op, code, named) ==
  IF named /\ code \in KnownErrors[op] THEN {Known(code)}
  ELSE {Unknown(code, body) : body \in Bodies \cup {Absent}}

--------------------------------------------------------------------------------
(* Results.  An outcome is Result<Result<Response, DomainError>,            *)
(* RuntimeFailure>; a call through a client ends in a Result<Response,      *)
(* InvocationError>, whose error is of the domain or of the runtime.        *)

Ok(value)  == [ok |-> TRUE, it |-> value]
Err(error) == [ok |-> FALSE, it |-> error]

DomainArm(error) == [arm |-> "domain", error |-> error]
RuntimeArm       == [arm |-> "runtime", error |-> Absent]

RuntimeFailure == Err("runtime_failure")

(* Fault: an error of a client a provider relies on becomes a failure. *)
IntoFailure(form, result) ==
  CASE form = "domain_result" -> Ok(result)
    [] form = "outcome" -> result
    [] form \in {"plugin_error", "invocation_error"} ->
         IF result.ok THEN Ok(result) ELSE RuntimeFailure

(* The four result types a provider's method may have, made an outcome. *)
IntoResult(form, result) ==
  CASE form = "domain_result" -> Ok(result)
    [] form = "outcome" -> result
    [] form \in {"plugin_error", "invocation_error"} ->
         CASE result.ok -> Ok(result)
           [] ~result.ok /\ result.it.arm = "domain" -> Ok(Err(result.it.error))
           [] ~result.ok /\ result.it.arm = "runtime" -> RuntimeFailure

(* The client's map_err(Runtime)? and map_err(Domain). *)
Invoked(outcome) ==
  CASE ~outcome.ok -> Err(RuntimeArm)
    [] outcome.ok /\ outcome.it.ok -> outcome.it
    [] outcome.ok /\ ~outcome.it.ok -> Err(DomainArm(outcome.it.it))

(* What becomes of what a provider means, in each type its method may have. *)
Lowered(meant) ==
  {IntoResult("outcome", meant)}
    \cup {IntoResult(form, Invoked(meant)) : form \in {"plugin_error", "invocation_error"}}
    \cup IF meant.ok THEN {IntoResult("domain_result", meant.it)} ELSE {}

(* A typed endpoint is called; an erased one finds the operation among its  *)
(* own, or gives a runtime failure.                                         *)
Native(operations, op, outcome) == IF op \in operations THEN outcome ELSE RuntimeFailure

(* The portable lane: what was written is read again, or cannot be, which   *)
(* is a runtime failure.                                                    *)
PortableError(op, wire) ==
  {Ok(Err(error)) : error \in DecodeError(op, wire)}
    \cup IF DecodeError(op, wire) = {} THEN {RuntimeFailure} ELSE {}

PortableResponse(op, object) ==
  LET responses == Decode(ResponseMembers[op], object) IN
  {Ok(Ok(response)) : response \in responses}
    \cup IF responses = {} THEN {RuntimeFailure} ELSE {}

(* The outcomes of a response, over either lane. *)
ResponseOutcomes(op, operations, response) ==
  {Native(operations, op, outcome) : outcome \in Lowered(Ok(Ok(response)))}
    \cup PortableResponse(op, Encode(ResponseMembers[op], response))

(* Of a refusal with a code, from who names it or passes it on.             *)
RefusalOutcomes(op, operations, code, named) ==
  LET lowered == UNION {Lowered(Ok(Err(error))) : error \in ErrorsFor(op, code, named)} IN
  {Native(operations, op, outcome) : outcome \in lowered}
    \cup (IF named THEN PortableError(op, Wire("string", code, Absent)) ELSE {})
    \cup UNION {PortableError(op, EncodeError(outcome.it.it)) :
                  outcome \in {o \in lowered : o.ok}}

(* Of a runtime failure, that of an error nobody can read among them. *)
FailureOutcomes(op) ==
  Lowered(RuntimeFailure) \cup UNION {PortableError(op, wire) : wire \in Unreadable}
================================================================================
