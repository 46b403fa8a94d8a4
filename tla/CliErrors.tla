------------------------------ MODULE CliErrors -----------------------------
(***************************************************************************)
(* internal/retycclient/client.go and internal/driver/controller.go: how a *)
(* failure of the retyc CLI becomes a CSI status.  A CLI gives the kind of *)
(* its error; an older one only a text, that the driver reads instead.  Of *)
(* the text, a model keeps the phrases the driver looks for.               *)
(***************************************************************************)

Kinds ==
  {"auth_required", "config", "rate_limited", "storage_exceeded", "plan_exceeded",
   "capacity_too_small", "capacity_shrink", "unauthenticated", "forbidden", "not_found", "gone",
   "invalid", "cli_too_old", "api_error", "error"}

NoKind == ""

(* notFoundError, validationError, "not enough storage left", "can only be *)
(* enlarged", and the two phrases of IsCapacityRefused.                    *)
Phrases == {"404", "422", "not enough", "enlarged", "at least"}

(* cli: a retycclient.Error, of a CLI that exited non-zero. *)
Errors == [cli : BOOLEAN, kind : Kinds \cup {NoKind}, says : SUBSET Phrases]

-----------------------------------------------------------------------------
(* classify: the kind if there is one, else the text. *)
Is(e, kinds, phrases) ==
  /\ e.cli
  /\ IF e.kind # NoKind THEN e.kind \in kinds ELSE phrases # {} /\ phrases \subseteq e.says

HasKind(e, kinds) == Is(e, kinds, {})

IsStorageExhausted(e) == Is(e, {"plan_exceeded", "storage_exceeded"}, {"not enough"})

IsValidation(e) == Is(e, {"invalid"}, {"422"})

IsCapacityRefused(e) == Is(e, {"capacity_too_small"}, {"422", "at least"})

IsNotEnlarged(e) == Is(e, {"capacity_shrink"}, {"enlarged"})

(* Mutant: the kind alone is read. *)
HasKindNotFound(e) == HasKind(e, {"not_found", "gone"})

IsNotFound(e) == Is(e, {"not_found", "gone"}, {"404"})

IsUnauthenticated(e) == HasKind(e, {"auth_required", "unauthenticated"})

IsConfig(e) == HasKind(e, {"config"})

IsForbidden(e) == HasKind(e, {"forbidden"})

IsRateLimited(e) == HasKind(e, {"rate_limited"})

IsCLITooOld(e) == HasKind(e, {"cli_too_old"})

-----------------------------------------------------------------------------
(* apiError, in the order of its switch: IsValidation holds of any 422 of  *)
(* an older CLI, and comes after the refusals of a capacity.               *)
ApiError(e) ==
  IF IsStorageExhausted(e) THEN "ResourceExhausted"
  ELSE IF IsNotEnlarged(e) \/ IsCapacityRefused(e) THEN "OutOfRange"
  ELSE IF IsValidation(e) THEN "InvalidArgument"
  ELSE IF IsUnauthenticated(e) \/ IsConfig(e) \/ IsCLITooOld(e) THEN "FailedPrecondition"
  ELSE IF IsForbidden(e) THEN "PermissionDenied"
  ELSE IF IsRateLimited(e) THEN "Unavailable"
  ELSE "Internal"

(* updateError, of `dataroom set`. *)
UpdateError(e) == IF IsNotFound(e) THEN "NotFound" ELSE ApiError(e)

-----------------------------------------------------------------------------
(* The refusals of the API that an older CLI tells by their text.  The API *)
(* words them as its status wants: a 422 may hold more than one phrase.    *)
Refusals == {"plan_exceeded", "capacity_too_small", "capacity_shrink", "not_found", "invalid"}

Texts(refusal) ==
  CASE refusal = "plan_exceeded" -> {{"not enough"}, {"not enough", "422"}}
    [] refusal = "capacity_too_small" -> {{"422", "at least"}}
    [] refusal = "capacity_shrink" -> {{"enlarged"}, {"enlarged", "422"}, {"enlarged", "422", "at least"}}
    [] refusal = "not_found" -> {{"404"}}
    [] refusal = "invalid" -> {{"422"}}

KindError(kind) == [cli |-> TRUE, kind |-> kind, says |-> {}]

TextError(text) == [cli |-> TRUE, kind |-> NoKind, says |-> text]

(* A CLI that was killed, or has lost its connection. *)
Broken == TextError({})
=============================================================================
