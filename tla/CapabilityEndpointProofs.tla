------------------------ MODULE CapabilityEndpointProofs ------------------------
(***************************************************************************)
(* What becomes of a provider's answer on its way to a caller, for every    *)
(* operation, result type, lane, code and version.                         *)
(***************************************************************************)
EXTENDS CapabilityEndpoint, TLAPS

(* An outcome in any of the four result types is the outcome it was made of. *)
LEMMA LoweredResponse ==
  ASSUME NEW response
  PROVE  /\ Lowered(Ok(Ok(response))) = {Ok(Ok(response))}
         /\ Invoked(Ok(Ok(response))) = Ok(response)
BY DEF Lowered, IntoResult, Invoked, Ok

LEMMA LoweredError ==
  ASSUME NEW error
  PROVE  /\ Lowered(Ok(Err(error))) = {Ok(Err(error))}
         /\ Invoked(Ok(Err(error))) = Err(DomainArm(error))
BY DEF Lowered, IntoResult, Invoked, Ok, Err, DomainArm

LEMMA LoweredFailure ==
  /\ Lowered(RuntimeFailure) = {RuntimeFailure}
  /\ Invoked(RuntimeFailure) = Err(RuntimeArm)
BY DEF Lowered, IntoResult, Invoked, RuntimeFailure, Ok, Err, RuntimeArm

(* A response arrives, with the members the contract has.                   *)
LEMMA ResponseArrives ==
  ASSUME NEW operations, NEW op \in operations, NEW response,
         NEW outcome \in ResponseOutcomes(op, operations, response)
  PROVE  \E it \in {response, Encode(ResponseMembers[op], response)} : Invoked(outcome) = Ok(it)
<1> DEFINE members == ResponseMembers[op]
           object  == Encode(members, response)
<1>1. PortableResponse(op, object) = {Ok(Ok(object))}
  <2>1. DOMAIN object = members /\ \A m \in members : object[m] = response[m]
    BY DEF Encode
  <2>2. Encode(members, object) = object
    BY <2>1 DEF Encode
  <2>3. Decode(members, object) = {object}
    BY <2>1, <2>2 DEF Decode
  <2> QED
    BY <2>3 DEF PortableResponse
<1>2. outcome \in {Ok(Ok(response)), Ok(Ok(object))}
  BY <1>1, LoweredResponse DEF ResponseOutcomes, Native
<1> QED
  BY <1>2, LoweredResponse

(* One that lacks a member does not: it comes as a runtime failure.         *)
LEMMA PartialResponseFails ==
  ASSUME NEW op, NEW object, ~(ResponseMembers[op] \subseteq DOMAIN object),
         NEW outcome \in PortableResponse(op, object)
  PROVE  Invoked(outcome) = Err(RuntimeArm)
<1>1. Decode(ResponseMembers[op], object) = {}
  BY DEF Decode
<1> QED
  BY <1>1, LoweredFailure DEF PortableResponse

(* What the portable lane makes of an error is the error written.           *)
LEMMA ErrorIsReadBack ==
  ASSUME NEW op, NEW code, code # Absent, NEW named \in BOOLEAN,
         NEW error \in ErrorsFor(op, code, named)
  PROVE  DecodeError(op, EncodeError(error)) = {error}
<1>1. CASE named /\ code \in KnownErrors[op]
  <2>1. error = Known(code)
    BY <1>1 DEF ErrorsFor
  <2>2. EncodeError(error) = Wire("string", code, Absent)
    BY <2>1 DEF EncodeError, Known
  <2> QED
    BY <1>1, <2>1, <2>2 DEF DecodeError, Wire
<1>2. CASE ~named \/ code \notin KnownErrors[op]
  <2>1. PICK body : error = Unknown(code, body)
    BY <1>2 DEF ErrorsFor
  <2>2. EncodeError(error) = Wire("object", code, body)
    BY <2>1 DEF EncodeError, Unknown
  <2> QED
    BY <2>1, <2>2 DEF DecodeError, Wire
<1> QED
  BY <1>1, <1>2

(* A string is read as the variant of its code, or as an unknown error.     *)
LEMMA CodeIsRead ==
  ASSUME NEW op, NEW code
  PROVE  \E error \in ErrorsFor(op, code, TRUE) : DecodeError(op, Wire("string", code, Absent)) = {error}
<1>1. CASE code \in KnownErrors[op]
  BY <1>1 DEF ErrorsFor, DecodeError, Wire
<1>2. CASE code \notin KnownErrors[op]
  BY <1>2 DEF ErrorsFor, DecodeError, Wire
<1> QED
  BY <1>1, <1>2

(* A refusal arrives as an error of the domain, with its code; in a variant *)
(* of its own only if it was named all the way.                             *)
LEMMA RefusalArrives ==
  ASSUME NEW operations, NEW op \in operations, NEW code, code # Absent, NEW named \in BOOLEAN,
         NEW outcome \in RefusalOutcomes(op, operations, code, named)
  PROVE  \E error \in ErrorsFor(op, code, named) : Invoked(outcome) = Err(DomainArm(error))
<1> DEFINE errors  == ErrorsFor(op, code, named)
           lowered == UNION {Lowered(Ok(Err(error))) : error \in errors}
<1>1. lowered = {Ok(Err(error)) : error \in errors}
  BY LoweredError
<1>2. \A error \in errors : PortableError(op, EncodeError(error)) = {Ok(Err(error))}
  BY ErrorIsReadBack DEF PortableError
<1>3. named => \E error \in errors :
        PortableError(op, Wire("string", code, Absent)) = {Ok(Err(error))}
  <2>1. PICK error \in ErrorsFor(op, code, TRUE) :
          DecodeError(op, Wire("string", code, Absent)) = {error}
    BY CodeIsRead
  <2>2. PortableError(op, Wire("string", code, Absent)) = {Ok(Err(error))}
    BY <2>1 DEF PortableError
  <2>3. named => errors = ErrorsFor(op, code, TRUE)
    OBVIOUS
  <2> QED
    BY <2>1, <2>2, <2>3
<1>4. \A error : Ok(Err(error)).ok /\ Ok(Err(error)).it.it = error
  BY DEF Ok, Err
<1>5. \E error \in errors : outcome = Ok(Err(error))
  <2> DEFINE native   == {Native(operations, op, o) : o \in lowered}
             portable == {PortableError(op, EncodeError(o.it.it)) : o \in {l \in lowered : l.ok}}
  <2>1. RefusalOutcomes(op, operations, code, named) =
          native \cup (IF named THEN PortableError(op, Wire("string", code, Absent)) ELSE {})
                 \cup UNION portable
    BY DEF RefusalOutcomes
  <2>2. \/ \E o \in lowered : outcome = Native(operations, op, o)
        \/ \E o \in lowered : outcome \in PortableError(op, EncodeError(o.it.it))
        \/ named /\ outcome \in PortableError(op, Wire("string", code, Absent))
    <3> HIDE DEF lowered
    <3> QED
      BY <2>1
  <2> HIDE DEF errors, lowered
  <2> QED
    BY <1>1, <1>2, <1>3, <1>4, <2>2 DEF Native
<1> QED
  BY <1>5, LoweredError

(* A runtime failure, or an error nobody can read, arrives as a failure.    *)
LEMMA FailureArrives ==
  ASSUME NEW op, NEW outcome \in FailureOutcomes(op)
  PROVE  Invoked(outcome) = Err(RuntimeArm)
<1>1. \A wire \in Unreadable : DecodeError(op, wire) = {}
  BY DEF Unreadable, DecodeError, Wire
<1>2. \A wire \in Unreadable : PortableError(op, wire) = {RuntimeFailure}
  BY <1>1 DEF PortableError
<1>3. outcome = RuntimeFailure
  BY <1>2, LoweredFailure DEF FailureOutcomes
<1> QED
  BY <1>3, LoweredFailure

(* So does a call that no provider takes. *)
LEMMA NoProviderFails ==
  ASSUME NEW op, NEW outcome
  PROVE  Invoked(Native({}, op, outcome)) = Err(RuntimeArm)
BY LoweredFailure DEF Native

(* Every code of the contracts is one. *)
LEMMA CodesArePresent ==
  ASSUME NEW operations \in SUBSET DOMAIN KnownErrors, NEW code \in Codes(operations), operations # {}
  PROVE  code # Absent
<1>1. \E op \in operations : code \in Codes({op})
  BY DEF Codes
<1> QED
  BY <1>1, EndpointAssumption
================================================================================
